----------------------------- MODULE JobsProofs -----------------------------
(***************************************************************************)
(* Theorems about ThreatScore, ThreatIntel, Migration and Reports, each    *)
(* under its own specification, for any constants.                         *)
(***************************************************************************)
EXTENDS MCJobs, WellFoundedInduction, TLAPS

-----------------------------------------------------------------------------
(* ThreatScore: what was judged with which key.                             *)

Judgment == [asn : Asns, key : Keys]
Form == [at : {"idle", "enabled", "key", "reload"}, on : BOOLEAN,
         key : Keys \cup {0}, blank : BOOLEAN, alone : BOOLEAN, sound : BOOLEAN]

ScoreShape ==
  /\ keyRow \in [on : BOOLEAN, key : Keys \cup {0}]
  /\ classifier \in Keys \cup {0}
  /\ asnCache \in [Asns -> Keys \cup {0}]
  /\ inFlight \subseteq Asns
  /\ looked \in {NoJudge} \cup Judgment
  /\ judges \in [Judges -> {NoJudge} \cup Judgment]
  /\ forms \in [Forms -> Form]
  /\ crossed \in BOOLEAN /\ torn \in BOOLEAN

\* Unless the last reload crossed a judgment: whoever is under judgment is
\* marked, the worker is about to judge somebody who is not, and all of them
\* use the key in use.
JudgedOnce ==
  ~ crossed =>
    /\ looked # NoJudge => looked.key = classifier /\ looked.asn \notin inFlight
    /\ \A j \in Asking : judges[j].key = classifier /\ judges[j].asn \in inFlight
    /\ \A j, k \in Asking : judges[j].asn = judges[k].asn => j = k
    /\ \A a \in Asns : asnCache[a] \in {0, classifier}

\* A form that is alone is the only one, and has written what it holds; while
\* nothing is torn every form is alone.
AloneInForms ==
  /\ \A f, g \in Forms : forms[f].alone /\ f # g => ~ Filling(g)
  /\ \A f \in Forms : Filling(f) /\ ~ torn => forms[f].alone
  /\ \A f \in Forms : forms[f].alone /\ forms[f].at \in {"key", "reload"} =>
                        keyRow.on = forms[f].on
  /\ \A f \in Forms : forms[f].alone /\ forms[f].at = "reload" =>
                        keyRow.key = forms[f].key

\* A blank field stands for the key that is stored.
BlankForms ==
  \A f \in Forms : forms[f].at \in {"enabled", "key"} /\ forms[f].blank /\ forms[f].sound =>
                     forms[f].key = keyRow.key

ScoreInv ==
  ScoreShape /\ JudgedOnce /\ AloneInForms /\ BlankForms /\ ClassifierFollowsSetting

LEMMA NoJudgeIsNone ==
  /\ \A q \in Judgment : q # NoJudge /\ q.asn \in Asns /\ q.key \in Keys /\ q.key # 0
  /\ NoJudge \notin Judgment
  BY ScoreAssumption DEF NoJudge, Judgment, ScoreAssumption

LEMMA ScoreAtFirst == InitScore => ScoreInv
<1> SUFFICES ASSUME InitScore PROVE ScoreInv
  OBVIOUS
<1>1. PICK on \in BOOLEAN, key \in Keys \cup {0} : keyRow = [on |-> on /\ key # 0, key |-> key]
  BY DEF InitScore
<1>2. NoForm \in Form /\ NoForm.at = "idle" /\ ~ NoForm.alone
  BY DEF NoForm, Form
<1>3. ScoreShape
  <2>1. keyRow \in [on : BOOLEAN, key : Keys \cup {0}]
    BY <1>1
  <2>2. classifier \in Keys \cup {0}
    BY <1>1 DEF InitScore, KeyOf
  <2> QED BY <1>2, <2>1, <2>2 DEF InitScore, ScoreShape
<1>4. JudgedOnce
  BY DEF InitScore, JudgedOnce, Asking
<1>5. AloneInForms /\ BlankForms
  BY <1>2 DEF InitScore, AloneInForms, BlankForms, Filling
<1>6. ClassifierFollowsSetting
  BY DEF InitScore, ClassifierFollowsSetting
<1> QED BY <1>3, <1>4, <1>5, <1>6 DEF ScoreInv

\* Judgments, while the settings stay.
LEMMA JudgmentsKeep ==
  ASSUME ScoreInv, UNCHANGED <<keyRow, classifier, forms, crossed, torn>>,
         asnCache' \in [Asns -> Keys \cup {0}], inFlight' \subseteq Asns,
         looked' \in {NoJudge} \cup Judgment,
         judges' \in [Judges -> {NoJudge} \cup Judgment],
         JudgedOnce'
  PROVE  ScoreInv'
<1>1. ScoreShape'
  BY DEF ScoreInv, ScoreShape
<1>2. AloneInForms' /\ BlankForms' /\ ClassifierFollowsSetting'
  BY DEF ScoreInv, AloneInForms, BlankForms, ClassifierFollowsSetting, Filling
<1> QED BY <1>1, <1>2 DEF ScoreInv

LEMMA ClassifyKeeps ==
  ASSUME ScoreInv, NEW a \in Asns, ClassifyASN(a) PROVE ScoreInv'
<1> DEFINE q == [asn |-> a, key |-> classifier]
<1>1. /\ classifier # 0 /\ asnCache[a] = 0 /\ a \notin inFlight /\ looked' = q
      /\ UNCHANGED <<keyRow, classifier, asnCache, inFlight, judges, forms, crossed, torn>>
  BY DEF ClassifyASN
<1>2. q \in Judgment /\ q.asn = a /\ q.key = classifier
  BY <1>1 DEF ScoreInv, ScoreShape, Judgment
<1> HIDE DEF q
<1>3. JudgedOnce'
  BY <1>1, <1>2 DEF ScoreInv, JudgedOnce, Asking
<1> QED BY <1>1, <1>2, <1>3, JudgmentsKeep DEF ScoreInv, ScoreShape

LEMMA StartKeeps == ASSUME ScoreInv, StartJudge PROVE ScoreInv'
<1>1. PICK j \in Judges \ Asking : judges' = [judges EXCEPT ![j] = looked]
  BY DEF StartJudge
<1>2. /\ looked # NoJudge /\ looked' = NoJudge
      /\ inFlight' = inFlight \cup {looked.asn}
      /\ UNCHANGED <<keyRow, classifier, asnCache, forms, crossed, torn>>
  BY DEF StartJudge
<1>3. looked \in Judgment /\ looked.asn \in Asns
  BY <1>2, NoJudgeIsNone DEF ScoreInv, ScoreShape
<1>4. /\ judges' \in [Judges -> {NoJudge} \cup Judgment]
      /\ judges'[j] = looked /\ \A k \in Judges \ {j} : judges'[k] = judges[k]
  BY <1>1, <1>3 DEF ScoreInv, ScoreShape
<1>5. Asking' = Asking \cup {j}
  BY <1>1, <1>2, <1>4 DEF Asking
<1>6. JudgedOnce'
  <2> SUFFICES ASSUME ~ crossed PROVE JudgedOnce'
    BY <1>2 DEF JudgedOnce
  <2>1. /\ looked.key = classifier /\ looked.asn \notin inFlight
        /\ \A k \in Asking : judges[k].key = classifier /\ judges[k].asn \in inFlight
        /\ \A k, m \in Asking : judges[k].asn = judges[m].asn => k = m
        /\ \A a \in Asns : asnCache[a] \in {0, classifier}
    BY <1>2 DEF ScoreInv, JudgedOnce
  <2>2. j \notin Asking /\ \A k \in Asking : k \in Judges /\ judges'[k] = judges[k]
    BY <1>1, <1>4 DEF Asking
  <2>3. \A k \in Asking' : judges'[k].key = classifier' /\ judges'[k].asn \in inFlight'
    BY <1>2, <1>4, <1>5, <2>1, <2>2
  <2>4. \A k, m \in Asking' : judges'[k].asn = judges'[m].asn => k = m
    BY <1>2, <1>4, <1>5, <2>1, <2>2
  <2> QED BY <1>2, <2>1, <2>3, <2>4 DEF JudgedOnce
<1> QED BY <1>2, <1>3, <1>4, <1>6, JudgmentsKeep DEF ScoreInv, ScoreShape

LEMMA EndKeeps ==
  ASSUME ScoreInv, NEW j \in Judges, JudgeASN(j) \/ JudgeFails(j) PROVE ScoreInv'
<1>1. /\ j \in Asking
      /\ judges' = [judges EXCEPT ![j] = NoJudge]
      /\ inFlight' = inFlight \ {judges[j].asn}
      /\ UNCHANGED <<keyRow, classifier, looked, forms, crossed, torn>>
      /\ \/ asnCache' = [asnCache EXCEPT ![judges[j].asn] = judges[j].key]
         \/ asnCache' = asnCache
  BY DEF JudgeASN, JudgeFails, Ended
<1>2. judges[j] \in Judgment /\ judges[j].asn \in Asns /\ judges[j].key \in Keys
  BY <1>1, NoJudgeIsNone DEF ScoreInv, ScoreShape, Asking
<1>3. /\ judges' \in [Judges -> {NoJudge} \cup Judgment]
      /\ judges'[j] = NoJudge /\ \A k \in Judges \ {j} : judges'[k] = judges[k]
  BY <1>1 DEF ScoreInv, ScoreShape
<1>4. Asking' = Asking \ {j}
  BY <1>3 DEF Asking
<1>5. asnCache' \in [Asns -> Keys \cup {0}]
  BY <1>1, <1>2 DEF ScoreInv, ScoreShape
<1>6. JudgedOnce'
  <2> SUFFICES ASSUME ~ crossed PROVE JudgedOnce'
    BY <1>1 DEF JudgedOnce
  <2>1. /\ looked # NoJudge => looked.key = classifier /\ looked.asn \notin inFlight
        /\ \A k \in Asking : judges[k].key = classifier /\ judges[k].asn \in inFlight
        /\ \A k, m \in Asking : judges[k].asn = judges[m].asn => k = m
        /\ \A a \in Asns : asnCache[a] \in {0, classifier}
    BY DEF ScoreInv, JudgedOnce
  <2>2. \A k \in Asking' : k \in Asking /\ k # j /\ judges'[k] = judges[k]
    BY <1>3, <1>4 DEF Asking
  <2>3. \A k \in Asking' : judges'[k].key = classifier' /\ judges'[k].asn \in inFlight'
    BY <1>1, <2>1, <2>2
  <2>4. \A a \in Asns : asnCache'[a] \in {0, classifier'}
    BY <1>1, <1>2, <2>1 DEF ScoreInv, ScoreShape
  <2> QED BY <1>1, <2>1, <2>2, <2>3, <2>4 DEF JudgedOnce
<1> QED BY <1>1, <1>3, <1>5, <1>6, JudgmentsKeep DEF ScoreInv, ScoreShape

\* The settings, while the judgments stay.
LEMMA FormsKeep ==
  ASSUME ScoreInv, UNCHANGED <<classifier, asnCache, inFlight, looked, judges, crossed>>,
         keyRow' \in [on : BOOLEAN, key : Keys \cup {0}], forms' \in [Forms -> Form],
         torn' \in BOOLEAN, AloneInForms', BlankForms',
         \E f \in Forms : Filling(f)'
  PROVE  ScoreInv'
<1>1. ScoreShape'
  BY DEF ScoreInv, ScoreShape
<1>2. JudgedOnce'
  BY DEF ScoreInv, JudgedOnce, Asking
<1>3. ClassifierFollowsSetting'
  BY DEF ClassifierFollowsSetting
<1> QED BY <1>1, <1>2, <1>3 DEF ScoreInv

LEMMA OpenKeeps ==
  ASSUME ScoreInv, NEW f \in Forms, NEW failed \in BOOLEAN, OpenForm(f, failed)
  PROVE  ScoreInv'
<1>1. PICK on \in BOOLEAN, key \in Keys \cup {0} :
       LET kept == IF key # 0 THEN key ELSE IF failed THEN 0 ELSE keyRow.key
           refused == on /\ kept = 0
       IN forms' = [o \in Forms |->
            IF o = f
            THEN [at |-> IF refused THEN "reload" ELSE "enabled", on |-> on /\ ~ refused,
                  key |-> kept, blank |-> key = 0,
                  alone |-> ~ refused /\ \A p \in Forms : ~ Filling(p), sound |-> ~ failed]
            ELSE [forms[o] EXCEPT !.alone = FALSE]]
  BY DEF OpenForm
<1> DEFINE kept == IF key # 0 THEN key ELSE IF failed THEN 0 ELSE keyRow.key
           refused == on /\ kept = 0
           lone == \A p \in Forms : ~ Filling(p)
           v == [at |-> IF refused THEN "reload" ELSE "enabled", on |-> on /\ ~ refused,
                 key |-> kept, blank |-> key = 0,
                 alone |-> ~ refused /\ lone, sound |-> ~ failed]
<1>2. /\ ~ Filling(f)
      /\ torn' = (torn \/ (\E p \in Forms : Filling(p)) \/ forms'[f].at = "reload")
      /\ UNCHANGED <<keyRow, classifier, asnCache, inFlight, looked, judges, crossed>>
  BY DEF OpenForm
<1>3. forms \in [Forms -> Form] /\ keyRow.key \in Keys \cup {0}
  BY DEF ScoreInv, ScoreShape
<1>4. kept \in Keys \cup {0}
  BY <1>3
<1>5. v \in Form
  BY <1>4 DEF Form
<1>6. /\ v.at \in {"enabled", "reload"} /\ (v.at = "reload" <=> refused)
      /\ v.alone = (~ refused /\ lone)
      /\ v.key = kept /\ v.blank = (key = 0) /\ v.sound = ~ failed
  OBVIOUS
<1>7. forms'[f] = v /\ \A o \in Forms \ {f} : forms'[o] = [forms[o] EXCEPT !.alone = FALSE]
  BY <1>1
<1>8. forms' = [o \in Forms |-> IF o = f THEN v ELSE [forms[o] EXCEPT !.alone = FALSE]]
  BY <1>1
<1> HIDE DEF v
<1>9. \A o \in Forms \ {f} :
        /\ forms'[o].at = forms[o].at /\ ~ forms'[o].alone /\ forms'[o].key = forms[o].key
        /\ forms'[o] \in Form
  BY <1>3, <1>7 DEF Form
<1>10. forms' \in [Forms -> Form]
  BY <1>5, <1>7, <1>8, <1>9
<1>11. \A o \in Forms \ {f} : forms'[o].blank = forms[o].blank
  BY <1>3, <1>7 DEF Form
<1>12. \A o \in Forms \ {f} : forms'[o].sound = forms[o].sound
  BY <1>3, <1>7 DEF Form
<1> HIDE DEF refused, kept
<1>13. AloneInForms'
  <2>1. \A o \in Forms : forms'[o].alone => o = f /\ lone /\ ~ refused
    BY <1>6, <1>7, <1>9
  <2>2. \A o \in Forms \ {f} : Filling(o)' <=> Filling(o)
    BY <1>9 DEF Filling
  <2>3. ~ torn' => lone /\ ~ refused
    BY <1>2, <1>6, <1>7
  <2>4. \A o \in Forms : Filling(o)' /\ ~ torn' => forms'[o].alone
    BY <1>6, <1>7, <2>2, <2>3
  <2>5. \A o \in Forms : forms'[o].alone => forms'[o].at = "enabled"
    BY <1>6, <1>7, <2>1
  <2> QED BY <2>1, <2>2, <2>4, <2>5 DEF AloneInForms
<1>14. BlankForms'
  <2>1. v.blank /\ v.sound => v.key = keyRow.key
    BY <1>6 DEF kept
  <2> QED BY <1>2, <1>7, <1>9, <1>11, <1>12, <2>1 DEF ScoreInv, BlankForms
<1>15. Filling(f)'
  BY <1>6, <1>7 DEF Filling
<1>16. torn' \in BOOLEAN
  BY <1>2
<1> QED BY <1>2, <1>10, <1>13, <1>14, <1>15, <1>16, FormsKeep DEF ScoreInv, ScoreShape

LEMMA WriteSwitchKeeps ==
  ASSUME ScoreInv, NEW f \in Forms, WriteSwitch(f) PROVE ScoreInv'
<1>1. /\ forms[f].at = "enabled" /\ keyRow' = [keyRow EXCEPT !.on = forms[f].on]
      /\ forms' = [forms EXCEPT ![f].at = "key"]
      /\ UNCHANGED <<classifier, asnCache, inFlight, looked, judges, crossed, torn>>
  BY DEF WriteSwitch
<1>2. forms \in [Forms -> Form] /\ keyRow \in [on : BOOLEAN, key : Keys \cup {0}]
  BY DEF ScoreInv, ScoreShape
<1>3. forms[f].on \in BOOLEAN
  BY <1>2 DEF Form
<1>4. keyRow' \in [on : BOOLEAN, key : Keys \cup {0}] /\ keyRow'.key = keyRow.key
  BY <1>1, <1>2, <1>3
<1>5. keyRow'.on = forms[f].on
  BY <1>1, <1>2
<1>6. forms' \in [Forms -> Form] /\ forms'[f].at = "key"
      /\ \A o \in Forms \ {f} : forms'[o] = forms[o]
  BY <1>1, <1>2 DEF Form
<1>7. forms'[f].key = forms[f].key
  BY <1>1, <1>2 DEF Form
<1>8. forms'[f].alone = forms[f].alone /\ forms'[f].blank = forms[f].blank
  BY <1>1, <1>2 DEF Form
<1>9. forms'[f].on = forms[f].on /\ forms'[f].sound = forms[f].sound
  BY <1>1, <1>2 DEF Form
<1>10. \A o \in Forms : Filling(o)' <=> Filling(o)
  BY <1>1, <1>6 DEF Filling
<1>11. AloneInForms'
  <2>1. \A g \in Forms : forms[f].alone /\ f # g => ~ Filling(g)
    BY DEF ScoreInv, AloneInForms
  <2>2. \A o, g \in Forms : forms'[o].alone /\ o # g => ~ Filling(g)'
    BY <1>6, <1>8, <1>10 DEF ScoreInv, AloneInForms
  <2>3. \A o \in Forms : Filling(o)' /\ ~ torn' => forms'[o].alone
    BY <1>1, <1>6, <1>8, <1>10 DEF ScoreInv, AloneInForms
  <2>4. Filling(f)
    BY <1>1 DEF Filling
  <2>5. \A o \in Forms \ {f} : ~ forms'[o].alone
    BY <1>6, <2>4 DEF ScoreInv, AloneInForms
  <2>6. forms'[f].at # "reload" /\ keyRow'.on = forms'[f].on
    BY <1>5, <1>6, <1>9
  <2> QED BY <2>2, <2>3, <2>5, <2>6 DEF AloneInForms
<1>12. BlankForms'
  <2> SUFFICES ASSUME NEW o \in Forms, forms'[o].at \in {"enabled", "key"},
                      forms'[o].blank, forms'[o].sound
               PROVE  forms'[o].key = keyRow'.key
    BY DEF BlankForms
  <2> QED BY <1>1, <1>4, <1>6, <1>7, <1>8, <1>9 DEF ScoreInv, BlankForms
<1>13. Filling(f)'
  BY <1>6 DEF Filling
<1> QED BY <1>1, <1>4, <1>6, <1>11, <1>12, <1>13, FormsKeep DEF ScoreInv, ScoreShape

LEMMA SoundChanges ==
  ASSUME NEW r \in Form, NEW b
  PROVE  LET q == [r EXCEPT !.sound = b] IN
         /\ q.at = r.at /\ q.on = r.on /\ q.key = r.key
         /\ q.blank = r.blank /\ q.alone = r.alone /\ q.sound = b
         /\ b \in BOOLEAN => q \in Form
<1> DEFINE q == [r EXCEPT !.sound = b]
<1>1. q.at = r.at
  BY DEF Form
<1>2. q.key = r.key
  BY DEF Form
<1>3. q.on = r.on
  BY DEF Form
<1>4. q.blank = r.blank
  BY DEF Form
<1>5. q.alone = r.alone
  BY DEF Form
<1>6. q.sound = b
  BY DEF Form
<1>7. b \in BOOLEAN => q \in Form
  BY DEF Form
<1> QED BY <1>1, <1>2, <1>3, <1>4, <1>5, <1>6, <1>7

LEMMA WriteKeyKeeps ==
  ASSUME ScoreInv, NEW f \in Forms, WriteKey(f) PROVE ScoreInv'
<1>1. /\ forms[f].at = "key" /\ keyRow' = [keyRow EXCEPT !.key = forms[f].key]
      /\ forms' = [o \in Forms |->
           IF o = f THEN [forms[f] EXCEPT !.at = "reload"]
           ELSE [forms[o] EXCEPT !.sound = @ /\ keyRow'.key = keyRow.key]]
      /\ UNCHANGED <<classifier, asnCache, inFlight, looked, judges, crossed, torn>>
  BY DEF WriteKey
<1>2. forms \in [Forms -> Form] /\ keyRow \in [on : BOOLEAN, key : Keys \cup {0}]
  BY DEF ScoreInv, ScoreShape
<1>3. forms[f].key \in Keys \cup {0}
  BY <1>2 DEF Form
<1>4. keyRow' \in [on : BOOLEAN, key : Keys \cup {0}] /\ keyRow'.key = forms[f].key
  BY <1>1, <1>2, <1>3
<1>5. keyRow'.on = keyRow.on
  BY <1>1, <1>2
<1> DEFINE kept == keyRow'.key = keyRow.key
<1>6. /\ forms'[f] = [forms[f] EXCEPT !.at = "reload"]
      /\ \A o \in Forms \ {f} : forms'[o] = [forms[o] EXCEPT !.sound = forms[o].sound /\ kept]
  BY <1>1
<1>7. kept \in BOOLEAN
  OBVIOUS
<1> HIDE DEF kept
<1>other. ASSUME NEW o \in Forms \ {f}
       PROVE  /\ forms'[o].at = forms[o].at /\ forms'[o].on = forms[o].on
              /\ forms'[o].key = forms[o].key /\ forms'[o].blank = forms[o].blank
              /\ forms'[o].alone = forms[o].alone /\ forms'[o] \in Form
              /\ forms'[o].sound => forms[o].sound /\ kept
  <2> DEFINE r == forms[o]
             b == forms[o].sound /\ kept
  <2>1. r \in Form /\ b \in BOOLEAN /\ forms'[o] = [r EXCEPT !.sound = b]
    BY <1>2, <1>6
  <2>2. b => forms[o].sound /\ kept
    OBVIOUS
  <2> HIDE DEF b
  <2>3. /\ forms'[o].at = r.at /\ forms'[o].on = r.on /\ forms'[o].key = r.key
        /\ forms'[o].blank = r.blank /\ forms'[o].alone = r.alone
        /\ forms'[o].sound = b /\ forms'[o] \in Form
    BY <2>1, SoundChanges
  <2> QED BY <2>2, <2>3
<1>8. /\ forms'[f].at = "reload" /\ forms'[f].key = forms[f].key
      /\ \A o \in Forms \ {f} : forms'[o].at = forms[o].at /\ forms'[o].key = forms[o].key
  <2>1. forms'[f].at = "reload" /\ forms'[f].key = forms[f].key
    BY <1>2, <1>6 DEF Form
  <2> QED BY <1>other, <2>1
<1>9. \A o \in Forms : forms'[o] \in Form
  <2>1. forms'[f] \in Form
    BY <1>2, <1>6 DEF Form
  <2> QED BY <1>other, <2>1
<1>10. \A o \in Forms : forms'[o].alone = forms[o].alone
  <2>1. forms'[f].alone = forms[f].alone
    BY <1>2, <1>6 DEF Form
  <2> QED BY <1>other, <2>1
<1>11. \A o \in Forms : forms'[o].on = forms[o].on
  <2>1. forms'[f].on = forms[f].on
    BY <1>2, <1>6 DEF Form
  <2> QED BY <1>other, <2>1
<1>12. \A o \in Forms \ {f} : forms'[o].blank = forms[o].blank
  BY <1>other
<1>13. \A o \in Forms \ {f} : forms'[o].sound => forms[o].sound /\ kept
  BY <1>other
<1>14. forms' \in [Forms -> Form]
  <2>1. forms' = [o \in Forms |-> forms'[o]]
    BY <1>1
  <2> QED BY <1>9, <2>1
<1>15. \A o \in Forms : Filling(o)' <=> Filling(o)
  BY <1>1, <1>8 DEF Filling
<1>16. AloneInForms'
  <2>1. \A o, g \in Forms : forms'[o].alone /\ o # g => ~ Filling(g)'
    BY <1>10, <1>15 DEF ScoreInv, AloneInForms
  <2>2. \A o \in Forms : Filling(o)' /\ ~ torn' => forms'[o].alone
    BY <1>1, <1>10, <1>15 DEF ScoreInv, AloneInForms
  <2>3. Filling(f)
    BY <1>1 DEF Filling
  <2>4. \A o \in Forms \ {f} : ~ forms'[o].alone
    BY <1>10, <2>3 DEF ScoreInv, AloneInForms
  <2>5. forms'[f].alone => keyRow'.on = forms'[f].on
    BY <1>1, <1>5, <1>10, <1>11 DEF ScoreInv, AloneInForms
  <2>6. keyRow'.key = forms'[f].key
    BY <1>4, <1>8
  <2> QED BY <2>1, <2>2, <2>4, <2>5, <2>6 DEF AloneInForms
<1>17. BlankForms'
  <2> SUFFICES ASSUME NEW o \in Forms, forms'[o].at \in {"enabled", "key"},
                      forms'[o].blank, forms'[o].sound
               PROVE  forms'[o].key = keyRow'.key
    BY DEF BlankForms
  <2>1. o \in Forms \ {f}
    BY <1>8
  <2>2. forms[o].at \in {"enabled", "key"} /\ forms[o].blank /\ forms[o].sound /\ kept
    BY <1>8, <1>12, <1>13, <2>1
  <2>3. forms[o].key = keyRow.key
    BY <2>2 DEF ScoreInv, BlankForms
  <2> QED BY <1>8, <2>1, <2>2, <2>3 DEF kept
<1>18. Filling(f)'
  BY <1>8 DEF Filling
<1> QED BY <1>1, <1>4, <1>14, <1>16, <1>17, <1>18, FormsKeep DEF ScoreInv, ScoreShape

LEMMA WriteFailsKeeps ==
  ASSUME ScoreInv, NEW f \in Forms, WriteSettingFails(f) PROVE ScoreInv'
<1>1. /\ forms[f].at \in {"enabled", "key"} /\ torn' = TRUE
      /\ forms' = [forms EXCEPT ![f].at = "reload", ![f].alone = FALSE]
      /\ UNCHANGED <<keyRow, classifier, asnCache, inFlight, looked, judges, crossed>>
  BY DEF WriteSettingFails
<1>2. forms \in [Forms -> Form]
  BY DEF ScoreInv, ScoreShape
<1>3. /\ forms' \in [Forms -> Form] /\ forms'[f].at = "reload"
      /\ \A o \in Forms \ {f} : forms'[o] = forms[o]
  BY <1>1, <1>2 DEF Form
<1>4. forms'[f].alone = FALSE
  BY <1>1, <1>2 DEF Form
<1>5. \A o \in Forms : Filling(o)' <=> Filling(o)
  BY <1>1, <1>3 DEF Filling
<1>6. AloneInForms'
  <2>1. \A o, g \in Forms : forms'[o].alone /\ o # g => ~ Filling(g)'
    BY <1>3, <1>4, <1>5 DEF ScoreInv, AloneInForms
  <2>2. \A o \in Forms : forms'[o].alone =>
          o # f /\ forms'[o] = forms[o]
    BY <1>3, <1>4
  <2> QED BY <1>1, <2>1, <2>2 DEF ScoreInv, AloneInForms
<1>7. BlankForms'
  BY <1>1, <1>3 DEF ScoreInv, BlankForms
<1>8. Filling(f)'
  BY <1>3 DEF Filling
<1> QED BY <1>1, <1>3, <1>6, <1>7, <1>8, FormsKeep DEF ScoreInv, ScoreShape

LEMMA ReloadScoreKeeps ==
  ASSUME ScoreInv, NEW f \in Forms, ReloadTypeSafeConfig(f) PROVE ScoreInv'
<1>1. /\ forms[f].at = "reload"
      /\ classifier' = KeyOf(forms[f].on, forms[f].key)
      /\ asnCache' = [a \in Asns |-> 0] /\ inFlight' = {}
      /\ forms' = [forms EXCEPT ![f] = NoForm]
      /\ crossed' = (Asking # {} \/ looked # NoJudge)
      /\ torn' = (torn /\ ~ forms[f].alone)
      /\ UNCHANGED <<keyRow, looked, judges>>
  BY DEF ReloadTypeSafeConfig
<1>2. forms \in [Forms -> Form] /\ keyRow \in [on : BOOLEAN, key : Keys \cup {0}]
  BY DEF ScoreInv, ScoreShape
<1>3. NoForm \in Form /\ NoForm.at = "idle" /\ ~ NoForm.alone
  BY DEF NoForm, Form
<1>4. /\ forms' \in [Forms -> Form] /\ forms'[f] = NoForm
      /\ \A o \in Forms \ {f} : forms'[o] = forms[o]
  BY <1>1, <1>2, <1>3
<1>5. ScoreShape'
  <2>1. classifier' \in Keys \cup {0}
    BY <1>1, <1>2 DEF KeyOf, Form
  <2>2. crossed' \in BOOLEAN /\ torn' \in BOOLEAN
    BY <1>1
  <2>3. asnCache' \in [Asns -> Keys \cup {0}] /\ inFlight' \subseteq Asns
    BY <1>1
  <2> QED BY <1>1, <1>4, <2>1, <2>2, <2>3 DEF ScoreInv, ScoreShape
<1>6. JudgedOnce'
  BY <1>1 DEF JudgedOnce, Asking
<1>7. \A o \in Forms : Filling(o)' <=> o # f /\ Filling(o)
  BY <1>3, <1>4 DEF Filling
<1>8. AloneInForms'
  <2>1. Filling(f)
    BY <1>1 DEF Filling
  <2>2. \A o \in Forms : ~ forms'[o].alone
    BY <1>3, <1>4, <2>1 DEF ScoreInv, AloneInForms
  <2>3. ASSUME NEW o \in Forms, Filling(o)', ~ torn' PROVE FALSE
    <3>1. o # f /\ Filling(o)
      BY <1>7, <2>3
    <3>2. ~ forms[f].alone
      BY <3>1 DEF ScoreInv, AloneInForms
    <3>3. ~ torn
      BY <1>1, <2>3, <3>2
    <3> QED BY <2>1, <3>2, <3>3 DEF ScoreInv, AloneInForms
  <2> QED BY <2>2, <2>3 DEF AloneInForms
<1>9. BlankForms'
  BY <1>1, <1>3, <1>4 DEF ScoreInv, BlankForms
<1>10. ClassifierFollowsSetting'
  <2> SUFFICES ASSUME ~ torn', \A o \in Forms : ~ Filling(o)'
               PROVE  classifier' = KeyOf(keyRow.on, keyRow.key)
    BY <1>1 DEF ClassifierFollowsSetting, KeyOf
  <2>1. forms[f].alone
    <3>1. CASE torn
      BY <1>1, <3>1
    <3>2. CASE ~ torn
      BY <1>1, <3>2 DEF ScoreInv, AloneInForms, Filling
    <3> QED BY <3>1, <3>2
  <2>2. keyRow.on = forms[f].on /\ keyRow.key = forms[f].key
    BY <1>1, <2>1 DEF ScoreInv, AloneInForms
  <2> QED BY <1>1, <2>2
<1> QED BY <1>5, <1>6, <1>8, <1>9, <1>10 DEF ScoreInv

LEMMA ScoreNext == ScoreInv /\ [NextScore]_scoreVars => ScoreInv'
<1> SUFFICES ASSUME ScoreInv, [NextScore]_scoreVars PROVE ScoreInv'
  OBVIOUS
<1>1. CASE UNCHANGED scoreVars
  BY <1>1 DEF scoreVars, ScoreInv, ScoreShape, JudgedOnce, AloneInForms, BlankForms,
              ClassifierFollowsSetting, Asking, Filling
<1>2. CASE NextScore
  BY <1>2, ClassifyKeeps, StartKeeps, EndKeeps, OpenKeeps, WriteSwitchKeeps,
     WriteKeyKeeps, WriteFailsKeeps, ReloadScoreKeeps DEF NextScore
<1> QED BY <1>1, <1>2

\* The key a judgment was asked with is the one in use, no network is judged
\* twice at a time, and the classifier is the stored one, but for the accidents
\* that are named (Scorer.Record, judgeASN, ReloadTypeSafeConfig).
THEOREM ScoreFollows == SpecScore => []ScoreFollowsKey
<1>1. ScoreInv => ScoreFollowsKey
  <2> SUFFICES ASSUME ScoreInv PROVE ScoreFollowsKey
    OBVIOUS
  <2>1. TypeOKScore
    BY NoJudgeIsNone DEF ScoreInv, ScoreShape, TypeOKScore, Asking, Form
  <2> QED BY <2>1 DEF ScoreInv, JudgedOnce, ScoreFollowsKey, JudgedUnderThisKey
<1> QED BY <1>1, ScoreAtFirst, ScoreNext, PTL DEF SpecScore

\* A form whose key is left blank does not change the stored key, unless the
\* read of it failed or another save replaced it since (SaveTypeSafeSettings).
THEOREM BlankKeeps == SpecScore => BlankKeepsKey
<1>1. ScoreInv /\ [NextScore]_scoreVars
        => [\A f \in Forms : (WriteKey(f) /\ forms[f].blank /\ forms[f].sound) =>
                               keyRow'.key = keyRow.key]_scoreVars
  <2> SUFFICES ASSUME ScoreInv, NEW f \in Forms, WriteKey(f), forms[f].blank, forms[f].sound
               PROVE  keyRow'.key = keyRow.key
    OBVIOUS
  <2>1. forms[f].at = "key" /\ keyRow' = [keyRow EXCEPT !.key = forms[f].key]
    BY DEF WriteKey
  <2>2. forms[f].key = keyRow.key
    BY <2>1 DEF ScoreInv, BlankForms
  <2> QED BY <2>1, <2>2 DEF ScoreInv, ScoreShape
<1> QED BY <1>1, ScoreAtFirst, ScoreNext, PTL DEF SpecScore, BlankKeepsKey

-----------------------------------------------------------------------------
(* ThreatIntel: what is blocked, and the lists that are stored.             *)

Copies == [Sources -> Nat]
Places == {"idle", "next", "fetch", "store", "list", "swap"}
Caller == [at : Places, source : Sources \cup {0}, list : Nat, todo : SUBSET Sources,
           read : Copies, alone : BOOLEAN]

IntelShape ==
  /\ published \in Copies /\ intelIPs \in Copies /\ blocked \in Copies
  /\ sources \in [Sources -> {"none", "on", "off"}]
  /\ due \subseteq Sources
  /\ callers \in [Callers -> Caller]
  /\ crossing \subseteq Sources /\ intelBehind \in BOOLEAN
  /\ \A c \in Callers : At(c, {"fetch", "store"}) => callers[c].source \in Sources

\* Nothing is newer than what its publisher offers.
NothingFromTheFuture ==
  /\ \A s \in Sources : /\ intelIPs[s] <= published[s] /\ blocked[s] <= published[s]
                        /\ s \in due \/ sources[s] # "none" => published[s] # 0
  /\ \A c \in Callers : At(c, {"store"}) => callers[c].list <= published[callers[c].source]
  /\ \A c \in Callers : At(c, {"swap"}) => \A s \in Sources : callers[c].read[s] <= published[s]

\* A reload that is alone is the only one and has read what the tables say;
\* while nothing is behind every reload is alone.
AloneInReloads ==
  /\ \A c \in Callers : callers[c].alone => c \in Reloading
  /\ \A c, d \in Callers : callers[c].alone /\ d \in Reloading => d = c
  /\ \A c \in Reloading : ~ intelBehind => callers[c].alone
  /\ \A c \in Callers : callers[c].alone /\ At(c, {"swap"}) => callers[c].read = Listed

\* Two syncs of one source are on record, and a list that only one caller holds
\* is not older than the stored one.
SyncsApart ==
  /\ \A c, d \in Callers :
       /\ At(c, {"fetch", "store"}) /\ At(d, {"fetch", "store"})
       /\ c # d /\ callers[c].source = callers[d].source
       => callers[c].source \in crossing
  /\ \A c \in Callers :
       At(c, {"store"}) /\ callers[c].source \notin crossing
         => intelIPs[callers[c].source] <= callers[c].list

IntelInv ==
  IntelShape /\ NothingFromTheFuture /\ AloneInReloads /\ SyncsApart /\ IntelFollowsTables

LEMMA AtRestIs ==
  /\ AtRest \in Caller /\ AtRest.at = "idle" /\ AtRest.source = 0 /\ AtRest.alone = FALSE
  /\ NoList \in Copies /\ \A s \in Sources : NoList[s] = 0
  BY DEF AtRest, Caller, NoList, Copies, Places

LEMMA ListedIs ==
  ASSUME IntelShape
  PROVE  /\ Listed \in Copies
         /\ \A s \in Sources : Listed[s] \in {0, intelIPs[s]}
  BY DEF IntelShape, Listed, Copies

LEMMA IntelAtFirst == InitIntel => IntelInv
<1> SUFFICES ASSUME InitIntel PROVE IntelInv
  OBVIOUS
<1>1. IntelShape
  BY AtRestIs DEF InitIntel, IntelShape, At
<1>2. NothingFromTheFuture
  BY AtRestIs DEF InitIntel, NothingFromTheFuture, At
<1>3. Reloading = {}
  BY AtRestIs DEF InitIntel, Reloading, At
<1>4. AloneInReloads /\ SyncsApart
  BY <1>3, AtRestIs DEF InitIntel, AloneInReloads, SyncsApart, At
<1>5. IntelFollowsTables
  BY AtRestIs DEF InitIntel, IntelFollowsTables, Listed, NoList
<1> QED BY <1>1, <1>2, <1>4, <1>5 DEF IntelInv

\* One caller moves to a place where it does not reload, and is not alone; the
\* tables stay.
LEMMA CallerMoves ==
  ASSUME IntelInv, NEW c \in Callers, NEW v \in Caller,
         callers' = [callers EXCEPT ![c] = v], ~ v.alone, v.at \notin {"list", "swap"},
         c \notin Reloading,
         v.at \in {"fetch", "store"} => v.source \in Sources,
         v.at = "store" => v.list <= published[v.source],
         v.at = "store" /\ v.source \notin crossing' => intelIPs[v.source] <= v.list,
         v.at \in {"fetch", "store"} => \A d \in Callers \ {c} :
           At(d, {"fetch", "store"}) /\ callers[d].source = v.source => v.source \in crossing',
         crossing \subseteq crossing', crossing' \subseteq Sources,
         due' \subseteq due,
         UNCHANGED <<published, sources, intelIPs, blocked, intelBehind>>
  PROVE  IntelInv'
<1>1. /\ callers' \in [Callers -> Caller] /\ callers'[c] = v
      /\ \A d \in Callers \ {c} : callers'[d] = callers[d]
  BY DEF IntelInv, IntelShape
<1>2. IntelShape'
  BY <1>1 DEF IntelInv, IntelShape, At
<1>3. NothingFromTheFuture'
  BY <1>1 DEF IntelInv, NothingFromTheFuture, At
<1>4. Reloading' = Reloading
  BY <1>1 DEF Reloading, At
<1>5. Listed' = Listed
  BY DEF Listed
<1>6. AloneInReloads'
  BY <1>1, <1>4, <1>5 DEF IntelInv, AloneInReloads, Reloading, At
<1>7. SyncsApart'
  BY <1>1 DEF IntelInv, SyncsApart, At
<1>8. IntelFollowsTables'
  BY <1>4, <1>5 DEF IntelInv, IntelFollowsTables
<1> QED BY <1>2, <1>3, <1>6, <1>7, <1>8 DEF IntelInv

LEMMA LeavesIs ==
  ASSUME IntelInv, NEW c \in Callers
  PROVE  /\ Leaves(c) \in Caller /\ Leaves(c).at \in {"idle", "next"}
         /\ ~ Leaves(c).alone
<1>1. callers[c].todo \in SUBSET Sources
  BY DEF IntelInv, IntelShape, Caller
<1>2. Leaves(c).alone = FALSE
  BY AtRestIs DEF Leaves, Caller, AtRest
<1>3. Leaves(c).at = IF callers[c].todo = {} THEN "idle" ELSE "next"
  BY DEF Leaves, AtRest
<1>4. Leaves(c) \in Caller
  BY <1>1, AtRestIs DEF Leaves, Caller, Places
<1> QED BY <1>2, <1>3, <1>4

LEMMA SyncDueKeeps == ASSUME IntelInv, SyncDue PROVE IntelInv'
<1> DEFINE T == {s \in due : sources[s] = "on"}
           v == [AtRest EXCEPT !.at = "next", !.todo = T]
<1>1. /\ At(Worker, {"idle"}) /\ callers' = [callers EXCEPT ![Worker] = v]
      /\ UNCHANGED <<published, sources, due, intelIPs, blocked, crossing, intelBehind>>
  BY DEF SyncDue
<1>2. T \in SUBSET Sources
  BY DEF IntelInv, IntelShape
<1> HIDE DEF T
<1>3. v \in Caller
  BY <1>2, AtRestIs DEF Caller, Places
<1>4. v.at = "next"
  BY DEF AtRest
<1>5. v.alone = FALSE
  BY DEF AtRest
<1> HIDE DEF v
<1>6. Worker \in Callers /\ Worker \notin Reloading /\ crossing \subseteq Sources
  BY <1>1, IntelAssumption DEF IntelAssumption, Reloading, At, IntelInv, IntelShape
<1> QED BY <1>1, <1>3, <1>4, <1>5, <1>6, CallerMoves

LEMMA BeginSyncKeeps ==
  ASSUME IntelInv, NEW c \in Callers, NEW s \in Sources, NEW entry \in Caller,
         At(c, {"idle", "next"}), ~ entry.alone, BeginSync(c, s, entry)
  PROVE  IntelInv'
<1> DEFINE v == [entry EXCEPT !.at = "fetch", !.source = s]
<1>1. /\ callers' = [callers EXCEPT ![c] = v]
      /\ crossing' = IF \E o \in Callers : callers[o].source = s THEN crossing \cup {s}
                     ELSE crossing
      /\ UNCHANGED <<published, sources, due, intelIPs, blocked, intelBehind>>
  BY DEF BeginSync
<1>2. v.at = "fetch"
  BY DEF Caller
<1>3. v.source = s
  BY DEF Caller
<1>4. v.alone = entry.alone
  BY DEF Caller
<1>5. v \in Caller
  BY DEF Caller, Places
<1> HIDE DEF v
<1>6. /\ crossing \subseteq crossing' /\ crossing' \subseteq Sources
      /\ \A d \in Callers : callers[d].source = s => s \in crossing'
  BY <1>1 DEF IntelInv, IntelShape
<1>7. c \notin Reloading
  BY DEF Reloading, At
<1> QED BY <1>1, <1>2, <1>3, <1>4, <1>5, <1>6, <1>7, CallerMoves

LEMMA NextSourceKeeps == ASSUME IntelInv, NextSource PROVE IntelInv'
<1>1. PICK s \in callers[Worker].todo :
        BeginSync(Worker, s, [callers[Worker] EXCEPT !.todo = @ \ {s}])
  BY DEF NextSource
<1>2. At(Worker, {"next"}) /\ Worker \in Callers
  BY IntelAssumption DEF NextSource, IntelAssumption
<1>3. callers[Worker] \in Caller /\ callers[Worker].todo \in SUBSET Sources
  BY <1>2 DEF IntelInv, IntelShape, Caller
<1> DEFINE T == callers[Worker].todo \ {s}
           entry == [callers[Worker] EXCEPT !.todo = T]
<1>4. T \in SUBSET Sources /\ s \in Sources
  BY <1>1, <1>3
<1> HIDE DEF T
<1>5. entry \in Caller
  BY <1>3, <1>4 DEF Caller
<1>6. entry.alone = callers[Worker].alone
  BY <1>3 DEF Caller
<1>7. ~ callers[Worker].alone
  BY <1>2 DEF IntelInv, AloneInReloads, Reloading, At
<1>8. BeginSync(Worker, s, entry)
  BY <1>1 DEF T
<1> HIDE DEF entry
<1> QED BY <1>2, <1>4, <1>5, <1>6, <1>7, <1>8, BeginSyncKeeps DEF At

LEMMA SyncSourceKeeps ==
  ASSUME IntelInv, NEW c \in Callers, SyncSource(c) PROVE IntelInv'
<1>1. PICK s \in Sources : BeginSync(c, s, AtRest)
  BY DEF SyncSource
<1>2. At(c, {"idle", "next"})
  BY DEF SyncSource, At
<1> QED BY <1>1, <1>2, AtRestIs, BeginSyncKeeps

LEMMA FetchKeeps ==
  ASSUME IntelInv, NEW c \in Callers, Fetch(c) PROVE IntelInv'
<1> DEFINE r == callers[c]
           p == published[r.source]
           v == [r EXCEPT !.at = "store", !.list = p]
<1>1. /\ At(c, {"fetch"})
      /\ callers' = [callers EXCEPT ![c].at = "store", ![c].list = p]
      /\ UNCHANGED <<published, sources, due, intelIPs, blocked, crossing, intelBehind>>
  BY DEF Fetch
<1>2. r \in Caller /\ r.source \in Sources /\ callers \in [Callers -> Caller]
  BY <1>1 DEF IntelInv, IntelShape, At
<1>3. p \in Nat /\ intelIPs[r.source] <= p
  BY <1>2 DEF IntelInv, IntelShape, Copies, NothingFromTheFuture
<1>4. callers' = [callers EXCEPT ![c] = v]
  BY <1>1, <1>2
<1> HIDE DEF p, r
<1>5. v.at = "store"
  BY <1>2 DEF Caller
<1>6. v.list = p /\ v.source = r.source
  BY <1>2 DEF Caller
<1>7. v.alone = r.alone
  BY <1>2 DEF Caller
<1>8. v \in Caller
  BY <1>2, <1>3 DEF Caller, Places
<1>9. ~ r.alone /\ c \notin Reloading
  BY <1>1 DEF IntelInv, AloneInReloads, Reloading, At, r
<1>10. \A d \in Callers \ {c} :
         At(d, {"fetch", "store"}) /\ callers[d].source = r.source => r.source \in crossing
  BY <1>1 DEF IntelInv, SyncsApart, At, r
<1>11. p <= p /\ crossing \subseteq Sources
  BY <1>3 DEF IntelInv, IntelShape
<1> HIDE DEF v
<1> QED BY <1>1, <1>2, <1>3, <1>4, <1>5, <1>6, <1>7, <1>8, <1>9, <1>10, <1>11, CallerMoves
     DEF p

LEMMA SyncFailsKeeps ==
  ASSUME IntelInv, NEW c \in Callers, SyncFails(c) PROVE IntelInv'
<1>1. /\ At(c, {"fetch", "store"}) /\ callers' = [callers EXCEPT ![c] = Leaves(c)]
      /\ due' \subseteq due
      /\ UNCHANGED <<published, sources, intelIPs, blocked, crossing, intelBehind>>
  BY DEF SyncFails, Stamped, Left
<1>2. c \notin Reloading /\ crossing \subseteq Sources
  BY <1>1 DEF Reloading, At, IntelInv, IntelShape
<1> QED BY <1>1, <1>2, LeavesIs, CallerMoves

\* A caller that is not syncing, or has just stored its list, changes a table
\* and goes on to reload.
LEMMA ReloadBegins ==
  ASSUME IntelInv, NEW c \in Callers, ~ At(c, {"list", "swap"}), GoesToReload(c),
         intelIPs' \in Copies, sources' \in [Sources -> {"none", "on", "off"}],
         due' \subseteq due, UNCHANGED <<published, blocked, crossing>>,
         \A s \in Sources : intelIPs'[s] <= published[s],
         \A s \in Sources : sources[s] = "none" => sources'[s] = "none",
         \A d \in Callers \ {c} : At(d, {"store"}) /\ callers[d].source \notin crossing =>
           intelIPs'[callers[d].source] <= callers[d].list
  PROVE  IntelInv'
<1> DEFINE lone == Reloading = {}
           v == [callers[c] EXCEPT !.at = "list", !.alone = lone]
<1>1. /\ callers' = [o \in Callers |-> IF o = c THEN v ELSE [callers[o] EXCEPT !.alone = FALSE]]
      /\ intelBehind' = (intelBehind \/ Reloading # {})
  BY DEF GoesToReload
<1>2. callers \in [Callers -> Caller]
  BY DEF IntelInv, IntelShape
<1>3. lone \in BOOLEAN
  OBVIOUS
<1> HIDE DEF lone
<1>4. v \in Caller
  BY <1>2, <1>3 DEF Caller, Places
<1>5. v.at = "list"
  BY <1>2 DEF Caller
<1>6. v.alone = lone
  BY <1>2 DEF Caller
<1>7. ASSUME NEW d \in Callers \ {c}
      PROVE  /\ callers'[d] \in Caller /\ callers'[d].alone = FALSE
             /\ callers'[d].at = callers[d].at /\ callers'[d].source = callers[d].source
             /\ callers'[d].list = callers[d].list /\ callers'[d].read = callers[d].read
  <2> DEFINE r == callers[d]
  <2>1. r \in Caller /\ callers'[d] = [r EXCEPT !.alone = FALSE]
    BY <1>1, <1>2
  <2> HIDE DEF r
  <2>2. callers'[d] \in Caller /\ callers'[d].at = r.at
    BY <2>1 DEF Caller
  <2>3. callers'[d].source = r.source
    BY <2>1 DEF Caller
  <2>4. callers'[d].list = r.list
    BY <2>1 DEF Caller
  <2>5. callers'[d].read = r.read
    BY <2>1 DEF Caller
  <2>6. callers'[d].alone = FALSE
    BY <2>1 DEF Caller
  <2> QED BY <2>2, <2>3, <2>4, <2>5, <2>6 DEF r
<1>8. callers'[c] = v
  BY <1>1
<1> HIDE DEF v
<1>9. callers' \in [Callers -> Caller]
  <2>1. callers' = [o \in Callers |-> callers'[o]]
    BY <1>1
  <2>2. \A o \in Callers : callers'[o] \in Caller
    BY <1>4, <1>7, <1>8
  <2> QED BY <2>1, <2>2
<1>10. IntelShape'
  <2>1. intelBehind' \in BOOLEAN
    BY <1>1
  <2>2. \A d \in Callers : At(d, {"fetch", "store"})' => callers'[d].source \in Sources
    BY <1>5, <1>7, <1>8 DEF At, IntelInv, IntelShape
  <2> QED BY <1>9, <2>1, <2>2 DEF IntelInv, IntelShape
<1>11. NothingFromTheFuture'
  <2>1. \A s \in Sources : /\ intelIPs'[s] <= published'[s] /\ blocked'[s] <= published'[s]
                           /\ s \in due' \/ sources'[s] # "none" => published'[s] # 0
    BY DEF IntelInv, NothingFromTheFuture
  <2>2. \A d \in Callers : At(d, {"store"})' =>
          callers'[d].list <= published'[callers'[d].source]
    BY <1>5, <1>7, <1>8 DEF At, IntelInv, NothingFromTheFuture
  <2>3. \A d \in Callers : At(d, {"swap"})' =>
          \A s \in Sources : callers'[d].read[s] <= published'[s]
    BY <1>5, <1>7, <1>8 DEF At, IntelInv, NothingFromTheFuture
  <2> QED BY <2>1, <2>2, <2>3 DEF NothingFromTheFuture
<1>12. Reloading' = Reloading \cup {c} /\ c \notin Reloading
  BY <1>5, <1>7, <1>8 DEF Reloading, At
<1>13. AloneInReloads'
  <2>1. \A d \in Callers : callers'[d].alone => d = c /\ lone
    BY <1>6, <1>7, <1>8
  <2>2. \A d \in Callers : callers'[d].alone => ~ At(d, {"swap"})'
    BY <1>5, <1>8, <2>1 DEF At
  <2>3. \A d \in Reloading' : ~ intelBehind' => callers'[d].alone
    BY <1>1, <1>6, <1>8, <1>12 DEF lone
  <2>4. \A d, e \in Callers : callers'[d].alone /\ e \in Reloading' => e = d
    BY <1>12, <2>1 DEF lone
  <2> QED BY <1>12, <2>1, <2>2, <2>3, <2>4 DEF AloneInReloads
<1>14. SyncsApart'
  <2>1. ASSUME NEW d \in Callers, At(d, {"fetch", "store"})'
        PROVE  /\ d # c /\ At(d, {"fetch", "store"}) /\ callers'[d].source = callers[d].source
               /\ At(d, {"store"})' => At(d, {"store"})
               /\ callers'[d].list = callers[d].list
    BY <1>5, <1>7, <1>8, <2>1 DEF At
  <2>2. \A d, e \in Callers :
          /\ At(d, {"fetch", "store"})' /\ At(e, {"fetch", "store"})'
          /\ d # e /\ callers'[d].source = callers'[e].source
          => callers'[d].source \in crossing'
    BY <2>1 DEF IntelInv, SyncsApart
  <2>3. \A d \in Callers : At(d, {"store"})' => At(d, {"fetch", "store"})'
    BY DEF At
  <2>4. \A d \in Callers : At(d, {"store"})' /\ callers'[d].source \notin crossing'
          => intelIPs'[callers'[d].source] <= callers'[d].list
    BY <2>1, <2>3
  <2> QED BY <2>2, <2>4 DEF SyncsApart
<1>15. IntelFollowsTables'
  BY <1>12 DEF IntelFollowsTables
<1> QED BY <1>10, <1>11, <1>13, <1>14, <1>15 DEF IntelInv

LEMMA StoreKeeps ==
  ASSUME IntelInv, NEW c \in Callers, Store(c)
  PROVE  /\ IntelInv'
         /\ \A s \in Sources \ crossing : intelIPs'[s] >= intelIPs[s]
<1> DEFINE r == callers[c]
<1>1. /\ At(c, {"store"}) /\ intelIPs' = [intelIPs EXCEPT ![r.source] = r.list]
      /\ due' \subseteq due /\ GoesToReload(c)
      /\ UNCHANGED <<published, sources, blocked, crossing>>
  BY DEF Store, Stamped
<1>2. r \in Caller /\ r.source \in Sources /\ r.list \in Nat
  BY <1>1 DEF IntelInv, IntelShape, At, Caller
<1>3. r.list <= published[r.source]
  BY <1>1 DEF IntelInv, NothingFromTheFuture
<1>4. r.source \notin crossing => intelIPs[r.source] <= r.list
  BY <1>1 DEF IntelInv, SyncsApart
<1>5. \A d \in Callers \ {c} : At(d, {"store"}) /\ callers[d].source \notin crossing =>
        callers[d].source # r.source /\ callers[d].source \in Sources
        /\ intelIPs[callers[d].source] <= callers[d].list
  BY <1>1 DEF IntelInv, IntelShape, SyncsApart, At
<1>6. ~ At(c, {"list", "swap"})
  BY <1>1 DEF At
<1> HIDE DEF r
<1>7. /\ intelIPs \in Copies /\ intelIPs' \in Copies /\ intelIPs'[r.source] = r.list
      /\ \A s \in Sources \ {r.source} : intelIPs'[s] = intelIPs[s]
  BY <1>1, <1>2 DEF IntelInv, IntelShape, Copies
<1>8. \A s \in Sources : intelIPs'[s] <= published[s]
  BY <1>3, <1>7 DEF IntelInv, NothingFromTheFuture
<1>9. sources' \in [Sources -> {"none", "on", "off"}]
      /\ \A s \in Sources : sources[s] = "none" => sources'[s] = "none"
  BY <1>1 DEF IntelInv, IntelShape
<1>10. \A d \in Callers \ {c} : At(d, {"store"}) /\ callers[d].source \notin crossing =>
         intelIPs'[callers[d].source] <= callers[d].list
  BY <1>5, <1>7
<1>11. IntelInv'
  BY <1>1, <1>6, <1>7, <1>8, <1>9, <1>10, ReloadBegins
<1>12. \A s \in Sources \ crossing : intelIPs'[s] >= intelIPs[s]
  BY <1>2, <1>4, <1>7 DEF Copies
<1> QED BY <1>11, <1>12

LEMMA ChangeKeeps ==
  ASSUME IntelInv, NEW c \in Callers, NEW s \in Sources, NEW to \in {"on", "off", "none"},
         ChangeSource(c, s, to)
  PROVE  IntelInv'
<1>1. /\ At(c, {"idle"}) /\ sources[s] # "none"
      /\ sources' = [sources EXCEPT ![s] = to] \/ sources' = sources
      /\ GoesToReload(c)
      /\ UNCHANGED <<published, due, intelIPs, blocked, crossing>>
  BY DEF ChangeSource
<1>2. ~ At(c, {"list", "swap"})
  BY <1>1 DEF At
<1>3. /\ sources' \in [Sources -> {"none", "on", "off"}]
      /\ \A z \in Sources : sources[z] = "none" => sources'[z] = "none"
  BY <1>1 DEF IntelInv, IntelShape
<1>4. /\ \A z \in Sources : intelIPs'[z] <= published[z]
      /\ \A d \in Callers \ {c} : At(d, {"store"}) /\ callers[d].source \notin crossing =>
           intelIPs'[callers[d].source] <= callers[d].list
  BY <1>1 DEF IntelInv, NothingFromTheFuture, SyncsApart
<1>5. intelIPs' \in Copies
  BY <1>1 DEF IntelInv, IntelShape
<1> QED BY <1>1, <1>2, <1>3, <1>4, <1>5, ReloadBegins

\* A caller reads for its reload, or ends it.
LEMMA ListKeeps ==
  ASSUME IntelInv, NEW c \in Callers, ListIPs(c) PROVE IntelInv'
<1> DEFINE L == Listed
           r == callers[c]
           v == [r EXCEPT !.at = "swap", !.read = L]
<1>1. /\ At(c, {"list"})
      /\ callers' = [callers EXCEPT ![c].at = "swap", ![c].read = L]
      /\ UNCHANGED <<published, sources, due, intelIPs, blocked, crossing, intelBehind>>
  BY DEF ListIPs
<1>2. /\ L \in Copies /\ r \in Caller /\ callers \in [Callers -> Caller]
      /\ \A s \in Sources : L[s] <= published[s]
  <2>1. IntelShape /\ \A s \in Sources : intelIPs[s] <= published[s]
                                         /\ published[s] \in Nat /\ intelIPs[s] \in Nat
    BY DEF IntelInv, NothingFromTheFuture, IntelShape, Copies
  <2>2. L \in Copies /\ \A s \in Sources : L[s] \in {0, intelIPs[s]}
    BY <2>1, ListedIs
  <2>3. \A s \in Sources : L[s] <= published[s]
    BY <2>1, <2>2
  <2> QED BY <2>1, <2>2, <2>3 DEF IntelShape
<1> HIDE DEF L
<1>3. callers' = [callers EXCEPT ![c] = v]
  BY <1>1, <1>2
<1>4. v.at = "swap"
  BY <1>2 DEF Caller
<1>5. v.read = L
  BY <1>2 DEF Caller
<1>6. v.alone = r.alone
  BY <1>2 DEF Caller
<1>7. v \in Caller
  BY <1>2 DEF Caller, Places
<1> HIDE DEF v
<1>8. /\ callers' \in [Callers -> Caller] /\ callers'[c] = v
      /\ \A d \in Callers \ {c} : callers'[d] = callers[d]
  BY <1>2, <1>3, <1>7
<1>9. IntelShape'
  BY <1>1, <1>4, <1>8 DEF IntelInv, IntelShape, At
<1>10. NothingFromTheFuture'
  BY <1>1, <1>2, <1>4, <1>5, <1>8 DEF IntelInv, NothingFromTheFuture, At
<1>11. Reloading' = Reloading
  BY <1>1, <1>4, <1>8 DEF Reloading, At
<1>12. Listed' = Listed
  BY <1>1 DEF Listed
<1>13. AloneInReloads'
  <2>1. \A d \in Callers : callers'[d].alone = callers[d].alone
    BY <1>6, <1>8
  <2>2. \A d \in Callers : callers'[d].alone /\ At(d, {"swap"})' => callers'[d].read = Listed'
    BY <1>4, <1>5, <1>8, <1>12, <2>1 DEF IntelInv, AloneInReloads, At, L
  <2>3. \A d \in Callers : callers'[d].alone => d \in Reloading'
    BY <1>11, <2>1 DEF IntelInv, AloneInReloads
  <2>4. \A d, e \in Callers : callers'[d].alone /\ e \in Reloading' => e = d
    BY <1>11, <2>1 DEF IntelInv, AloneInReloads
  <2>5. \A d \in Reloading' : ~ intelBehind' => callers'[d].alone
    BY <1>1, <1>11, <2>1 DEF IntelInv, AloneInReloads, Reloading
  <2> QED BY <2>2, <2>3, <2>4, <2>5 DEF AloneInReloads
<1>14. SyncsApart'
  BY <1>1, <1>4, <1>8 DEF IntelInv, SyncsApart, At
<1>15. IntelFollowsTables'
  BY <1>1, <1>11, <1>12 DEF IntelInv, IntelFollowsTables
<1> QED BY <1>9, <1>10, <1>13, <1>14, <1>15 DEF IntelInv

LEMMA ReloadEnds ==
  ASSUME IntelInv, NEW c \in Callers, SwapIntel(c) \/ ReloadFails(c) PROVE IntelInv'
<1> DEFINE v == Leaves(c)
<1>1. /\ c \in Reloading /\ callers' = [callers EXCEPT ![c] = v]
      /\ UNCHANGED <<published, sources, due, intelIPs, crossing>>
  BY DEF SwapIntel, ReloadFails, Left, Reloading, At
<1>2. v \in Caller /\ v.at \in {"idle", "next"} /\ ~ v.alone
  BY LeavesIs
<1> HIDE DEF v
<1>3. \/ /\ blocked' = callers[c].read /\ At(c, {"swap"})
         /\ intelBehind' = (intelBehind /\ ~ callers[c].alone)
      \/ blocked' = blocked /\ intelBehind' = TRUE
  BY DEF SwapIntel, ReloadFails
<1>4. /\ callers' \in [Callers -> Caller] /\ callers'[c] = v
      /\ \A d \in Callers \ {c} : callers'[d] = callers[d]
  BY <1>1, <1>2 DEF IntelInv, IntelShape
<1>5. /\ blocked' \in Copies /\ intelBehind' \in BOOLEAN
      /\ \A s \in Sources : blocked'[s] <= published[s]
  BY <1>3 DEF IntelInv, IntelShape, Caller, NothingFromTheFuture, At
<1>6. IntelShape'
  BY <1>1, <1>2, <1>4, <1>5 DEF IntelInv, IntelShape, At
<1>7. NothingFromTheFuture'
  BY <1>1, <1>2, <1>4, <1>5 DEF IntelInv, NothingFromTheFuture, At
<1>8. Reloading' = Reloading \ {c}
  BY <1>2, <1>4 DEF Reloading, At
<1>9. Listed' = Listed
  BY <1>1 DEF Listed
<1>10. \A d \in Reloading' : ~ intelBehind' => callers'[d].alone
  <2> SUFFICES ASSUME NEW d \in Reloading', ~ intelBehind' PROVE callers'[d].alone
    OBVIOUS
  <2>1. d \in Callers /\ d # c /\ d \in Reloading
    BY <1>8 DEF Reloading
  <2>2. ~ callers[c].alone
    BY <2>1 DEF IntelInv, AloneInReloads
  <2>3. ~ intelBehind
    BY <1>3, <2>2
  <2> QED BY <1>4, <2>1, <2>3 DEF IntelInv, AloneInReloads
<1>11. AloneInReloads'
  BY <1>2, <1>4, <1>8, <1>9, <1>10 DEF IntelInv, AloneInReloads, At
<1>12. SyncsApart'
  BY <1>1, <1>2, <1>4 DEF IntelInv, SyncsApart, At
<1>13. IntelFollowsTables'
  <2> SUFFICES ASSUME ~ intelBehind' PROVE blocked' = Listed'
    BY DEF IntelFollowsTables
  <2>1. /\ blocked' = callers[c].read /\ At(c, {"swap"})
        /\ ~ intelBehind \/ callers[c].alone
    BY <1>3
  <2>2. callers[c].alone
    BY <1>1, <2>1 DEF IntelInv, AloneInReloads
  <2> QED BY <1>9, <2>1, <2>2 DEF IntelInv, AloneInReloads
<1> QED BY <1>6, <1>7, <1>11, <1>12, <1>13 DEF IntelInv

\* Outside, and a source that is added: what is published only grows.
LEMMA OutsideKeeps ==
  ASSUME IntelInv, UNCHANGED <<intelIPs, blocked, callers, crossing, intelBehind>>,
         published' \in Copies, \A s \in Sources : published[s] <= published'[s],
         sources' \in [Sources -> {"none", "on", "off"}], due' \subseteq Sources,
         \A s \in Sources : s \in due' \/ sources'[s] # "none" => published'[s] # 0,
         Listed' = Listed
  PROVE  IntelInv'
<1>1. IntelShape'
  BY DEF IntelInv, IntelShape, At
<1>2. Reloading' = Reloading
  BY DEF Reloading, At
<1>3. NothingFromTheFuture'
  <2>1. \A s \in Sources : /\ intelIPs[s] \in Nat /\ blocked[s] \in Nat
                           /\ published[s] \in Nat /\ published'[s] \in Nat
    BY DEF IntelInv, IntelShape, Copies
  <2>2. \A s \in Sources : intelIPs[s] <= published'[s] /\ blocked[s] <= published'[s]
    BY <2>1 DEF IntelInv, NothingFromTheFuture
  <2>3. \A c \in Callers : /\ callers[c].list \in Nat
                           /\ \A s \in Sources : callers[c].read[s] \in Nat
    BY DEF IntelInv, IntelShape, Caller, Copies
  <2>4. \A c \in Callers : At(c, {"store"}) => callers[c].list <= published'[callers[c].source]
    <3> SUFFICES ASSUME NEW c \in Callers, At(c, {"store"})
                 PROVE  callers[c].list <= published'[callers[c].source]
      OBVIOUS
    <3>1. callers[c].source \in Sources
      BY DEF IntelInv, IntelShape, At
    <3>2. callers[c].list <= published[callers[c].source]
      BY DEF IntelInv, NothingFromTheFuture
    <3> QED BY <2>1, <2>3, <3>1, <3>2
  <2>5. \A c \in Callers : At(c, {"swap"}) => \A s \in Sources : callers[c].read[s] <= published'[s]
    BY <2>1, <2>3 DEF IntelInv, NothingFromTheFuture
  <2> QED BY <2>2, <2>4, <2>5 DEF NothingFromTheFuture, At
<1>4. AloneInReloads' /\ SyncsApart' /\ IntelFollowsTables'
  BY <1>2 DEF IntelInv, AloneInReloads, SyncsApart, IntelFollowsTables, At, Reloading
<1> QED BY <1>1, <1>3, <1>4 DEF IntelInv

LEMMA OutsideSteps ==
  ASSUME IntelInv, NEW s \in Sources,
         AddThreatIntelSource(s) \/ Publish(s) \/ BecomesDue(s)
  PROVE  IntelInv'
<1>1. published \in Copies /\ \A z \in Sources : published[z] \in Nat
  BY DEF IntelInv, IntelShape, Copies
<1>2. CASE AddThreatIntelSource(s)
  <2>1. /\ published[s] = 0 /\ published' = [published EXCEPT ![s] = 1]
        /\ sources' = [sources EXCEPT ![s] = "on"] /\ due' = due \cup {s}
        /\ UNCHANGED <<intelIPs, blocked, callers, crossing, intelBehind>>
    BY <1>2 DEF AddThreatIntelSource
  <2>2. intelIPs[s] = 0
    BY <2>1 DEF IntelInv, IntelShape, Copies, NothingFromTheFuture
  <2>3. published' \in Copies /\ \A z \in Sources : published[z] <= published'[z]
    BY <1>1, <2>1 DEF Copies
  <2>4. /\ sources' \in [Sources -> {"none", "on", "off"}] /\ sources'[s] = "on"
        /\ \A z \in Sources \ {s} : sources'[z] = sources[z]
    BY <2>1 DEF IntelInv, IntelShape
  <2>5. Listed' = Listed
    BY <2>1, <2>2, <2>4 DEF Listed
  <2>6. \A z \in Sources : z \in due' \/ sources'[z] # "none" => published'[z] # 0
    BY <1>1, <2>1, <2>4 DEF IntelInv, NothingFromTheFuture, Copies
  <2>7. due' \subseteq Sources
    BY <2>1 DEF IntelInv, IntelShape
  <2> QED BY <2>1, <2>3, <2>4, <2>5, <2>6, <2>7, OutsideKeeps
<1>3. CASE Publish(s)
  <2>1. /\ published' = [published EXCEPT ![s] = @ + 1]
        /\ UNCHANGED <<sources, due, intelIPs, blocked, callers, crossing, intelBehind>>
    BY <1>3 DEF Publish
  <2>2. published' \in Copies /\ \A z \in Sources : published[z] <= published'[z]
    BY <1>1, <2>1 DEF Copies
  <2>3. Listed' = Listed
    BY <2>1 DEF Listed
  <2>4. \A z \in Sources : z \in due' \/ sources'[z] # "none" => published'[z] # 0
    BY <1>1, <2>1 DEF IntelInv, NothingFromTheFuture, Copies
  <2> QED BY <2>1, <2>2, <2>3, <2>4, OutsideKeeps DEF IntelInv, IntelShape
<1>4. CASE BecomesDue(s)
  <2>1. /\ sources[s] # "none" /\ due' = due \cup {s}
        /\ UNCHANGED <<published, sources, intelIPs, blocked, callers, crossing, intelBehind>>
    BY <1>4 DEF BecomesDue
  <2>2. Listed' = Listed
    BY <2>1 DEF Listed
  <2>3. \A z \in Sources : z \in due' \/ sources'[z] # "none" => published'[z] # 0
    BY <2>1 DEF IntelInv, NothingFromTheFuture
  <2>4. \A z \in Sources : published[z] <= published'[z]
    BY <1>1, <2>1
  <2> QED BY <2>1, <2>2, <2>3, <2>4, OutsideKeeps DEF IntelInv, IntelShape
<1> QED BY <1>2, <1>3, <1>4

LEMMA IntelNext == IntelInv /\ [NextIntel]_intelVars => IntelInv'
<1> SUFFICES ASSUME IntelInv, [NextIntel]_intelVars PROVE IntelInv'
  OBVIOUS
<1>1. CASE UNCHANGED intelVars
  BY <1>1 DEF intelVars, IntelInv, IntelShape, NothingFromTheFuture, AloneInReloads,
              SyncsApart, IntelFollowsTables, Reloading, Listed, At
<1>2. CASE NextIntel
  <2>1. ASSUME NEW c \in Callers,
               \/ Fetch(c) \/ Store(c) \/ SyncFails(c)
               \/ ListIPs(c) \/ SwapIntel(c) \/ ReloadFails(c)
        PROVE  IntelInv'
    BY <2>1, FetchKeeps, StoreKeeps, SyncFailsKeeps, ListKeeps, ReloadEnds
  <2>2. ASSUME NEW c \in Hands,
               SyncSource(c) \/ \E s \in Sources : \/ ToggleThreatIntelSource(c, s)
                                                   \/ DeleteThreatIntelSource(c, s)
        PROVE  IntelInv'
    <3>1. c \in Callers
      BY DEF Hands
    <3> QED BY <2>2, <3>1, SyncSourceKeeps, ChangeKeeps
            DEF ToggleThreatIntelSource, DeleteThreatIntelSource
  <2> QED BY <1>2, <2>1, <2>2, SyncDueKeeps, NextSourceKeeps, OutsideSteps DEF NextIntel
<1> QED BY <1>1, <1>2

\* What is blocked follows the tables but for the accidents that are named, and
\* a stored list is never replaced by an older one unless two syncs of its
\* source overlapped (Worker.syncDue, SyncSource, Blocklist.ReloadIntel).
THEOREM IntelIsCurrentHolds == SpecIntel => IntelIsCurrent
<1>1. IntelInv => TypeOKIntel /\ IntelFollowsTables
  <2> SUFFICES ASSUME IntelInv PROVE TypeOKIntel
    BY DEF IntelInv
  <2> QED BY DEF IntelInv, IntelShape, NothingFromTheFuture, TypeOKIntel
<1>2. IntelInv /\ [NextIntel]_intelVars
        => [\A s \in Sources \ crossing : intelIPs'[s] >= intelIPs[s]]_intelVars
  <2> SUFFICES ASSUME IntelInv, NextIntel
               PROVE  \A s \in Sources \ crossing : intelIPs'[s] >= intelIPs[s]
    OBVIOUS
  <2>1. \A s \in Sources : intelIPs[s] \in Nat
    BY DEF IntelInv, IntelShape, Copies
  <2>2. CASE intelIPs' = intelIPs
    BY <2>1, <2>2
  <2>3. CASE \E c \in Callers : Store(c)
    BY <2>3, StoreKeeps
  <2>4. intelIPs' = intelIPs \/ \E c \in Callers : Store(c)
    BY DEF NextIntel, SyncDue, NextSource, BeginSync, Fetch, SyncFails, ListIPs, SwapIntel,
           ReloadFails, SyncSource, ToggleThreatIntelSource, DeleteThreatIntelSource,
           ChangeSource, AddThreatIntelSource, Publish, BecomesDue
  <2> QED BY <2>2, <2>3, <2>4
<1> QED BY <1>1, <1>2, IntelAtFirst, IntelNext, PTL
        DEF SpecIntel, IntelIsCurrent, ListsGoForward

-----------------------------------------------------------------------------
(* Reports: one mail a day.                                                 *)

Stages == {"down", "wait", "switch", "token", "to", "mark?", "send", "mark"}

ReportsShape ==
  /\ TypeOKReports
  /\ reporter \in [at : Stages, day : Nat, wake : Nat]
  /\ mailed \in [0 .. MaxDay -> Nat]

\* The day under report is never before the last one marked, and after it once
\* the mark was read.
NeverBackwards ==
  /\ reporter.at \in {"mark?", "send", "mark"} => sentFor <= reporter.day
  /\ reporter.at = "send" /\ reporter.day \notin again => sentFor < reporter.day

\* A day that was mailed is marked, or a later one is, or it is about to be.
MailedIsMarked ==
  \A d \in 0 .. MaxDay :
    mailed[d] > 0 => d \in again \/ d <= sentFor
                     \/ (reporter.at = "mark" /\ reporter.day = d)

ReportsInv == ReportsShape /\ NeverBackwards /\ MailedIsMarked /\ OneReportPerDay

LEMMA ReportsAtFirst == InitReports => ReportsInv
<1> SUFFICES ASSUME InitReports PROVE ReportsInv
  OBVIOUS
<1>1. MaxDay \in Nat \ {0} /\ 1 \in 1 .. MaxDay
  BY ReportsAssumption DEF ReportsAssumption
<1>2. reporter.at = "switch" /\ reporter.day = 0 /\ reporter.wake = 0
  BY DEF InitReports, Off
<1>3. reporter \in [at : Stages, day : Nat, wake : Nat]
  BY DEF InitReports, Off, Stages
<1>4. TypeOKReports
  BY <1>1, <1>2 DEF InitReports, TypeOKReports
<1>5. mailed = [d \in 0 .. MaxDay |-> 0] /\ mailed \in [0 .. MaxDay -> Nat]
  BY DEF InitReports
<1> QED BY <1>2, <1>3, <1>4, <1>5
        DEF ReportsInv, ReportsShape, NeverBackwards, MailedIsMarked, OneReportPerDay

\* The day and the mark stay, nothing is mailed, and the reporter goes to a
\* place where it has not read the mark yet.
LEMMA ReporterGoes ==
  ASSUME ReportsInv, UNCHANGED <<day, sentFor, mailed>>, again \subseteq again',
         reporter' \in [at : Stages, day : Nat, wake : Nat],
         reporter'.day <= day - 1, reporter'.wake <= day + 1,
         reporter'.at \in {"mark?", "send", "mark"} => sentFor <= reporter'.day,
         reporter'.at = "send" /\ reporter'.day \notin again' => sentFor < reporter'.day,
         reporter.at = "mark" => \/ reporter'.at = "mark" /\ reporter'.day = reporter.day
                                 \/ reporter.day \in again'
  PROVE  ReportsInv'
<1>1. reporter'.day \in 0 .. day - 1 /\ reporter'.wake \in 0 .. day + 1
  BY DEF ReportsInv, ReportsShape, TypeOKReports
<1>2. ReportsShape'
  BY <1>1 DEF ReportsInv, ReportsShape, TypeOKReports
<1>3. NeverBackwards' /\ MailedIsMarked' /\ OneReportPerDay'
  BY DEF ReportsInv, NeverBackwards, MailedIsMarked, OneReportPerDay
<1> QED BY <1>2, <1>3 DEF ReportsInv

LEMMA ReporterFacts ==
  ASSUME ReportsInv
  PROVE  /\ day \in Nat /\ day >= 1 /\ day <= MaxDay /\ MaxDay \in Nat
         /\ sentFor \in Nat /\ sentFor <= day - 1
         /\ reporter.day \in Nat /\ reporter.day <= day - 1
         /\ reporter.wake \in Nat /\ reporter.wake <= day + 1
         /\ Waiting \in [at : Stages, day : Nat, wake : Nat]
         /\ Waiting.at = "wait" /\ Waiting.day = 0 /\ Waiting.wake = day + 1
<1>1. day \in Nat /\ day >= 1 /\ day <= MaxDay /\ MaxDay \in Nat
  BY ReportsAssumption DEF ReportsInv, ReportsShape, TypeOKReports, ReportsAssumption
<1>2. day + 1 \in Nat
  BY <1>1
<1>3. Waiting \in [at : Stages, day : Nat, wake : Nat]
  BY <1>2 DEF Waiting, Stages
<1> QED BY <1>1, <1>3 DEF ReportsInv, ReportsShape, TypeOKReports, Waiting

\* The reporter moves along.
LEMMA GoesKeeps ==
  ASSUME ReportsInv, UNCHANGED <<day, sentFor, mailed>>, again \subseteq again',
         NEW p \in Stages, Goes(p), reporter.at # "mark",
         p \in {"mark?", "send", "mark"} => sentFor <= reporter.day,
         p = "send" /\ reporter.day \notin again' => sentFor < reporter.day
  PROVE  ReportsInv'
<1>1. reporter \in [at : Stages, day : Nat, wake : Nat]
  BY DEF ReportsInv, ReportsShape
<1>2. reporter' = [reporter EXCEPT !.at = p]
  BY DEF Goes
<1>3. reporter'.at = p
  BY <1>1, <1>2
<1>4. reporter'.day = reporter.day /\ reporter'.wake = reporter.wake
  BY <1>1, <1>2
<1>5. reporter' \in [at : Stages, day : Nat, wake : Nat]
  BY <1>1, <1>2
<1> QED BY <1>3, <1>4, <1>5, ReporterFacts, ReporterGoes

LEMMA StopsKeeps ==
  ASSUME ReportsInv, UNCHANGED <<day, sentFor, mailed>>, again \subseteq again',
         reporter' = Waiting, reporter.at = "mark" => reporter.day \in again'
  PROVE  ReportsInv'
<1> DEFINE w == Waiting
<1>1. /\ w \in [at : Stages, day : Nat, wake : Nat] /\ w.at = "wait"
      /\ w.day = 0 /\ w.wake = day + 1 /\ 0 <= day - 1 /\ day + 1 <= day + 1
  BY ReporterFacts
<1> HIDE DEF w
<1>2. reporter' = w
  BY DEF w
<1> QED BY <1>1, <1>2, ReporterGoes

LEMMA ReporterKeeps == ASSUME ReportsInv, ReporterStep PROVE ReportsInv'
<1>1. CASE Wakes \/ ReadSwitch \/ ReadToken
  <2>1. /\ UNCHANGED <<day, sentFor, mailed, again>> /\ reporter.at # "mark"
        /\ Goes("switch") \/ Goes("token") \/ Goes("to")
    BY <1>1 DEF Wakes, ReadSwitch, ReadToken, ReadRow, ReporterAt
  <2> QED BY <2>1, GoesKeeps DEF Stages
<1>2. CASE ReadTo
  <2>1. /\ reporter.at = "to" /\ reporter' = [reporter EXCEPT !.at = "mark?", !.day = day - 1]
        /\ UNCHANGED <<day, sentFor, mailed, again>>
    BY <1>2 DEF ReadTo, ReporterAt
  <2> DEFINE e == day - 1
  <2>2. e \in Nat /\ sentFor <= e /\ e <= e
    BY ReporterFacts
  <2>3. reporter \in [at : Stages, day : Nat, wake : Nat]
    BY DEF ReportsInv, ReportsShape
  <2>4. reporter' = [reporter EXCEPT !.at = "mark?", !.day = e]
    BY <2>1
  <2> HIDE DEF e
  <2>5. reporter'.at = "mark?"
    BY <2>3, <2>4
  <2>6. reporter'.day = e /\ reporter'.wake = reporter.wake
    BY <2>3, <2>4
  <2>7. reporter' \in [at : Stages, day : Nat, wake : Nat]
    BY <2>2, <2>3, <2>4 DEF Stages
  <2>8. e <= day - 1
    BY <2>2 DEF e
  <2> QED BY <2>1, <2>2, <2>5, <2>6, <2>7, <2>8, ReporterFacts, ReporterGoes
<1>3. CASE NotWanted \/ ReadRowFails \/ AlreadySent \/ ReportFails
  BY <1>3, StopsKeeps
     DEF NotWanted, ReadRowFails, AlreadySent, ReportFails, Stops, ReporterAt
<1>4. ASSUME NEW failed \in BOOLEAN, NotYetSent(failed) PROVE ReportsInv'
  <2>1. /\ reporter.at = "mark?" /\ Goes("send")
        /\ UNCHANGED <<day, sentFor, mailed>> /\ again \subseteq again'
        /\ sentFor # reporter.day \/ reporter.day \in again'
    BY <1>4 DEF NotYetSent, ReporterAt
  <2>2. sentFor <= reporter.day /\ sentFor \in Nat /\ reporter.day \in Nat
    BY <2>1, ReporterFacts DEF ReportsInv, NeverBackwards
  <2> QED BY <2>1, <2>2, GoesKeeps DEF Stages
<1>5. CASE Send
  <2> DEFINE D == reporter.day
  <2>1. /\ reporter.at = "send" /\ mailed' = [mailed EXCEPT ![D] = @ + 1]
        /\ reporter' = [reporter EXCEPT !.at = "mark"]
        /\ UNCHANGED <<day, sentFor, again>>
    BY <1>5 DEF Send, ReporterAt, Goes
  <2>2. reporter \in [at : Stages, day : Nat, wake : Nat] /\ mailed \in [0 .. MaxDay -> Nat]
    BY DEF ReportsInv, ReportsShape
  <2>3. D \in 0 .. MaxDay
    BY ReporterFacts
  <2>4. reporter'.at = "mark"
    BY <2>1, <2>2
  <2>5. reporter'.day = D /\ reporter'.wake = reporter.wake
    BY <2>1, <2>2
  <2>6. reporter' \in [at : Stages, day : Nat, wake : Nat]
    BY <2>1, <2>2 DEF Stages
  <2> HIDE DEF D
  <2>7. /\ mailed' \in [0 .. MaxDay -> Nat] /\ mailed'[D] = mailed[D] + 1
        /\ \A d \in 0 .. MaxDay : d # D => mailed'[d] = mailed[d]
    BY <2>1, <2>2, <2>3
  <2>8. D \notin again => mailed[D] = 0
    <3> SUFFICES ASSUME D \notin again, mailed[D] > 0 PROVE FALSE
      BY <2>2, <2>3
    <3>1. sentFor < D /\ sentFor \in Nat /\ D \in Nat
      BY <2>1, ReporterFacts DEF ReportsInv, NeverBackwards, D
    <3>2. D <= sentFor
      BY <2>1, <2>3 DEF ReportsInv, MailedIsMarked
    <3> QED BY <3>1, <3>2
  <2>9. ReportsShape'
    <3>1. reporter'.day \in 0 .. day - 1 /\ reporter'.wake \in 0 .. day + 1
      BY <2>5, ReporterFacts DEF D
    <3> QED BY <2>1, <2>6, <2>7, <3>1 DEF ReportsInv, ReportsShape, TypeOKReports
  <2>10. NeverBackwards'
    <3>1. sentFor <= D
      BY <2>1 DEF ReportsInv, NeverBackwards, D
    <3> QED BY <2>1, <2>4, <2>5, <3>1 DEF NeverBackwards
  <2>11. MailedIsMarked'
    BY <2>1, <2>4, <2>5, <2>7 DEF ReportsInv, MailedIsMarked
  <2>12. OneReportPerDay'
    BY <2>1, <2>2, <2>3, <2>7, <2>8 DEF ReportsInv, OneReportPerDay
  <2> QED BY <2>9, <2>10, <2>11, <2>12 DEF ReportsInv
<1>6. CASE MarkSent
  <2>1. /\ reporter.at = "mark" /\ sentFor' = reporter.day /\ reporter' = Waiting
        /\ UNCHANGED <<day, mailed, again>>
    BY <1>6 DEF MarkSent, ReporterAt
  <2>2. sentFor <= reporter.day
    BY <2>1 DEF ReportsInv, NeverBackwards
  <2> DEFINE w == Waiting
  <2>3. /\ w \in [at : Stages, day : Nat, wake : Nat] /\ w.at = "wait"
        /\ w.day = 0 /\ w.wake = day + 1
    BY ReporterFacts
  <2>4. reporter' = w
    BY <2>1
  <2> HIDE DEF w
  <2>5. /\ sentFor' \in 0 .. day - 1 /\ reporter'.day \in 0 .. day - 1
        /\ reporter'.wake \in 0 .. day + 1
    BY <2>1, <2>3, <2>4, ReporterFacts
  <2>6. ReportsShape'
    BY <2>1, <2>3, <2>4, <2>5 DEF ReportsInv, ReportsShape, TypeOKReports
  <2>7. MailedIsMarked'
    <3> SUFFICES ASSUME NEW d \in 0 .. MaxDay, mailed[d] > 0, d \notin again
                 PROVE  d <= reporter.day
      BY <2>1 DEF MailedIsMarked
    <3>1. d <= sentFor \/ reporter.day = d
      BY DEF ReportsInv, MailedIsMarked
    <3> QED BY <2>2, <3>1, ReporterFacts
  <2> QED BY <2>1, <2>3, <2>4, <2>6, <2>7 DEF ReportsInv, NeverBackwards, OneReportPerDay
<1>7. CASE MarkFails
  BY <1>7, StopsKeeps DEF MarkFails
<1>8. CASE SentWithError
  <2> DEFINE D == reporter.day
             w == Waiting
  <2>1. /\ reporter.at = "send" /\ mailed' = [mailed EXCEPT ![D] = @ + 1]
        /\ reporter' = w /\ again' = again \cup {D} /\ UNCHANGED <<day, sentFor>>
    BY <1>8 DEF SentWithError, ReporterAt
  <2>2. mailed \in [0 .. MaxDay -> Nat] /\ D \in 0 .. MaxDay
    BY ReporterFacts DEF ReportsInv, ReportsShape
  <2>3. /\ w \in [at : Stages, day : Nat, wake : Nat] /\ w.at = "wait"
        /\ w.day \in 0 .. day - 1 /\ w.wake \in 0 .. day + 1
    BY ReporterFacts
  <2> HIDE DEF D, w
  <2>4. /\ mailed' \in [0 .. MaxDay -> Nat]
        /\ \A d \in 0 .. MaxDay : d # D => mailed'[d] = mailed[d]
    BY <2>1, <2>2
  <2>5. ReportsShape'
    BY <2>1, <2>3, <2>4 DEF ReportsInv, ReportsShape, TypeOKReports
  <2>6. NeverBackwards'
    BY <2>1, <2>3 DEF NeverBackwards
  <2>7. MailedIsMarked' /\ OneReportPerDay'
    BY <2>1, <2>4 DEF ReportsInv, MailedIsMarked, OneReportPerDay
  <2> QED BY <2>5, <2>6, <2>7 DEF ReportsInv
<1> QED BY <1>1, <1>2, <1>3, <1>4, <1>5, <1>6, <1>7, <1>8 DEF ReporterStep

LEMMA ReportsNext == ReportsInv /\ [NextReports]_mailVars => ReportsInv'
<1> SUFFICES ASSUME ReportsInv, [NextReports]_mailVars PROVE ReportsInv'
  OBVIOUS
<1>1. ASSUME UNCHANGED <<day, sentFor, reporter, mailed, again>> PROVE ReportsInv'
  BY <1>1 DEF ReportsInv, ReportsShape, TypeOKReports, NeverBackwards, MailedIsMarked,
              OneReportPerDay
<1>2. CASE UNCHANGED mailVars \/ (\E failed \in BOOLEAN : OpenPage(failed))
            \/ WriteMailRow \/ WriteMailRowFails
  BY <1>1, <1>2 DEF mailVars, OpenPage, WriteMailRow, PageWrites, WriteMailRowFails
<1>3. CASE StartReporter
  BY <1>3, GoesKeeps DEF StartReporter, ReporterAt, Stages
<1>4. CASE Crash
  <2>1. /\ reporter' = Off /\ UNCHANGED <<day, sentFor, mailed>> /\ again \subseteq again'
        /\ reporter.at = "mark" => reporter.day \in again'
    BY <1>4 DEF Crash, ReporterAt
  <2>2. /\ Off \in [at : Stages, day : Nat, wake : Nat] /\ Off.at = "down"
        /\ Off.day = 0 /\ Off.wake = 0
    BY DEF Off, Stages
  <2>3. 0 <= day - 1 /\ 0 <= day + 1
    BY ReporterFacts
  <2> DEFINE w == Off
  <2> HIDE DEF w
  <2>4. reporter' = w /\ w \in [at : Stages, day : Nat, wake : Nat] /\ w.at = "down"
        /\ w.day = 0 /\ w.wake = 0
    BY <2>1, <2>2 DEF w
  <2> QED BY <2>1, <2>3, <2>4, ReporterGoes
<1>5. CASE Midnight
  <2>1. /\ day < MaxDay /\ day' = day + 1 /\ UNCHANGED <<sentFor, reporter, mailed, again>>
    BY <1>5 DEF Midnight
  <2>2. /\ day' \in 1 .. MaxDay /\ sentFor \in 0 .. day' - 1
        /\ reporter.day \in 0 .. day' - 1 /\ reporter.wake \in 0 .. day' + 1
    BY <2>1, ReporterFacts
  <2>3. ReportsShape'
    BY <2>1, <2>2 DEF ReportsInv, ReportsShape, TypeOKReports
  <2> QED BY <2>1, <2>3 DEF ReportsInv, NeverBackwards, MailedIsMarked, OneReportPerDay
<1> QED BY <1>2, <1>3, <1>4, <1>5, ReporterKeeps DEF NextReports

\* No day is reported twice, however often the process ends and starts, unless
\* the mark of that day could not be written or read, or the mailer returned an
\* error for a mail the server had taken (maybeSendDaily, Send).
THEOREM OneReportPerDayHolds == SpecReports => [](TypeOKReports /\ OneReportPerDay)
<1>1. ReportsInv => TypeOKReports /\ OneReportPerDay
  BY DEF ReportsInv, ReportsShape
<1> QED BY <1>1, ReportsAtFirst, ReportsNext, PTL DEF SpecReports

-----------------------------------------------------------------------------
(* Migration: what the target holds when a run ends, and how secrets lie.   *)

Secret == [val : Nat, by : KeyFiles \cup {0}]
Database == [dialect : {"sqlite", "postgres"}, setting : Nat,
             secret : [Secrets -> Secret], rows : [Tables -> [Ids -> Nat]],
             next : [Tables -> 0 .. MaxId]]

\* The step of MigrateConfigTo that copies a table.
Place == [t \in Tables |-> IF t = "certificates" THEN 2 ELSE IF t = "api_keys" THEN 3
                           ELSE IF t = "threat_intel_sources" THEN 4 ELSE 5]

\* The rows of a table are in the target.
Done(t) == run.step > Place[t] \/ (run.fixing /\ run.step = Place[t])

CountedIn(d, t) == \A i \in Ids : d.rows[t][i] # 0 => i <= d.next[t]
Counted(d) == \A t \in Numbered : CountedIn(d, t)

MoveShape ==
  /\ DOMAIN dbs \in {{"old"}, {"old", "new"}}
  /\ dbs \in [DOMAIN dbs -> Database]
  /\ live \in {"old", "new"} /\ keyFile \in KeyFiles \cup {0}
  /\ run \in [step : 0 .. 6, fixing : BOOLEAN, alone : BOOLEAN]
  /\ edits \in Nat /\ moved \in BOOLEAN /\ clean \in BOOLEAN /\ collided \in BOOLEAN
  /\ up \in BOOLEAN
  /\ live = "new" => moved
  /\ moved \/ Moving => Opened
  /\ Moving => live = "old" /\ ~ moved
  /\ run.fixing => run.step \in 2 .. 4 /\ Taken # {}

\* The live database numbers its rows, and so does a target that was filled.
NumbersFollow ==
  /\ Counted(dbs["old"])
  /\ clean /\ moved => Counted(dbs["new"])
  /\ collided => live = "new" /\ ~ clean

\* In a run that came to an empty target: which tables have their rows.
FilledSoFar ==
  clean /\ Moving =>
    /\ \A t \in Tables : ~ Done(t) => dbs["new"].rows[t] = NoRows
    /\ \A t \in Numbered : run.step > Place[t] => CountedIn(dbs["new"], t)

\* In such a run that nobody disturbs, what was copied is what is there.
SameSoFar ==
  clean /\ Moving /\ run.alone =>
    /\ run.step = 1 => /\ dbs["new"].setting = 0
                       /\ \A s \in InMeta : dbs["new"].secret[s].val = 0
    /\ run.step > 1 => /\ dbs["new"].setting = dbs["old"].setting
                       /\ \A s \in InMeta : dbs["new"].secret[s].val = dbs["old"].secret[s].val
    /\ \A t \in Tables : Done(t) =>
         dbs["new"].rows[t] = [i \in Ids |-> IF dbs["old"].rows[t][i] = 0 THEN 0
                                             ELSE Value(t, dbs["old"].rows[t][i])]

\* Until the switch nothing in the target is sealed.
OpenInTarget ==
  live = "old" /\ Opened => \A s \in Secrets : dbs["new"].secret[s].by = 0

MoveInv ==
  MoveShape /\ NumbersFollow /\ FilledSoFar /\ SameSoFar /\ OpenInTarget /\ SealedAtRest

\* - Facts ------------------------------------------------------------------

LEMMA StepsAre ==
  /\ Len(Steps) = 6
  /\ \A k \in 1 .. 6 : /\ Steps[k] = "meta" <=> k = 1
                       /\ Steps[k] = "webhook_config" <=> k = 6
                       /\ \A t \in Tables : Steps[k] = t <=> k = Place[t]
  /\ \A t \in Tables : Place[t] \in 2 .. 5 /\ (t \in Numbered => Place[t] \in 2 .. 4)
  /\ \A t \in Tables : t \in Numbered \/ Place[t] = 5
<1>1. Len(Steps) = 6
  BY DEF Steps
<1>2. \A k \in 1 .. 6 : k = 1 \/ k = 2 \/ k = 3 \/ k = 4 \/ k = 5 \/ k = 6
  OBVIOUS
<1>3. /\ Steps[1] = "meta" /\ Steps[2] = "certificates" /\ Steps[3] = "api_keys"
      /\ Steps[4] = "threat_intel_sources" /\ Steps[5] = "threat_intel_ips"
      /\ Steps[6] = "webhook_config"
  BY DEF Steps
<1>4. /\ Place["certificates"] = 2 /\ Place["api_keys"] = 3
      /\ Place["threat_intel_sources"] = 4 /\ Place["threat_intel_ips"] = 5
  BY DEF Place, Tables
<1>5. \A k \in 1 .. 6 : /\ Steps[k] = "meta" <=> k = 1
                        /\ Steps[k] = "webhook_config" <=> k = 6
  BY <1>2, <1>3
<1>6. ASSUME NEW k \in 1 .. 6, NEW t \in Tables PROVE Steps[k] = t <=> k = Place[t]
  BY <1>2, <1>3, <1>4 DEF Tables
<1>7. \A t \in Tables : Place[t] \in 2 .. 5 /\ (t \in Numbered => Place[t] \in 2 .. 4)
  BY <1>4 DEF Tables, Numbered
<1>8. \A t \in Tables : t \in Numbered \/ Place[t] = 5
  BY <1>4 DEF Tables, Numbered
<1> QED BY <1>1, <1>5, <1>6, <1>7, <1>8

\* The smallest bound of a set is its greatest element.
LEMMA HighestIs ==
  ASSUME NEW S \in SUBSET (0 .. MaxId), S # {}
  PROVE  Highest(S) \in S /\ \A j \in S : j <= Highest(S)
<1> DEFINE B == {n \in Nat : \A j \in S : j <= n}
<1>1. B \subseteq Nat /\ MaxId \in B
  BY MigrationAssumption DEF MigrationAssumption
<1>2. PICK n \in B : \A k \in B : ~ (<<k, n>> \in OpToRel(<, Nat))
  BY <1>1, NatLessThanWellFounded, WFMin
<1>3. \A k \in B : ~ (k < n)
  BY <1>1, <1>2 DEF OpToRel
<1>4. n \in S
  <2> SUFFICES ASSUME n \notin S PROVE FALSE
    OBVIOUS
  <2>1. n \in Nat /\ \A j \in S : j \in Nat /\ j <= n /\ j # n
    BY MigrationAssumption DEF MigrationAssumption
  <2>2. n # 0
    <3> PICK j \in S : TRUE
      OBVIOUS
    <3> QED BY <2>1
  <2>3. n - 1 \in B
    BY <2>1, <2>2
  <2> QED BY <1>3, <2>1, <2>3
<1>5. \E i \in S : \A j \in S : j <= i
  BY <1>4
<1> QED BY <1>5 DEF Highest

LEMMA DatabasesAre ==
  ASSUME MoveInv
  PROVE  /\ dbs["old"] \in Database /\ (Opened => dbs["new"] \in Database)
         /\ live \in DOMAIN dbs /\ dbs[live] \in Database
  BY DEF MoveInv, MoveShape, Opened

\* What a database holds after one of its parts is written.
LEMMA SecretsWritten ==
  ASSUME NEW d \in Database, NEW f \in [Secrets -> Secret]
  PROVE  LET e == [d EXCEPT !.secret = f]
         IN /\ e \in Database /\ e.secret = f
            /\ e.rows = d.rows /\ e.next = d.next /\ e.setting = d.setting
  BY DEF Database

WithRows(d, t, r, n) == [d EXCEPT !.rows[t] = r, !.next[t] = n]

LEMMA RowsWritten ==
  ASSUME NEW d \in Database, NEW t \in Tables, NEW r \in [Ids -> Nat], NEW n \in 0 .. MaxId,
         NEW e, e = WithRows(d, t, r, n)
  PROVE  /\ e \in Database /\ e.secret = d.secret /\ e.setting = d.setting
         /\ e.rows[t] = r /\ e.next[t] = n /\ e.dialect = d.dialect
         /\ \A u \in Tables \ {t} : e.rows[u] = d.rows[u] /\ e.next[u] = d.next[u]
<1>1. /\ e.secret = d.secret /\ e.setting = d.setting /\ e.dialect = d.dialect
      /\ e.rows = [d.rows EXCEPT ![t] = r] /\ e.next = [d.next EXCEPT ![t] = n]
  BY DEF Database, WithRows
<1>2. /\ d.rows \in [Tables -> [Ids -> Nat]] /\ d.next \in [Tables -> 0 .. MaxId]
  BY DEF Database
<1>3. /\ e.rows \in [Tables -> [Ids -> Nat]] /\ e.next \in [Tables -> 0 .. MaxId]
      /\ e.rows[t] = r /\ e.next[t] = n
      /\ \A u \in Tables \ {t} : e.rows[u] = d.rows[u] /\ e.next[u] = d.next[u]
  BY <1>1, <1>2
<1> DEFINE f == [d.rows EXCEPT ![t] = r]
           g == [d.next EXCEPT ![t] = n]
<1>4. f \in [Tables -> [Ids -> Nat]] /\ g \in [Tables -> 0 .. MaxId]
  BY <1>2
<1>5. e = [d EXCEPT !.rows = f, !.next = g]
  BY DEF Database, WithRows
<1> HIDE DEF f, g
<1>6. e \in Database
  BY <1>4, <1>5 DEF Database
<1> QED BY <1>1, <1>3, <1>6

LEMMA OneWritten ==
  ASSUME MoveInv, NEW x \in DOMAIN dbs, NEW d \in Database
  PROVE  LET w == [dbs EXCEPT ![x] = d]
         IN /\ DOMAIN w = DOMAIN dbs /\ w \in [DOMAIN w -> Database]
            /\ w[x] = d /\ \A y \in DOMAIN dbs \ {x} : w[y] = dbs[y]
  BY DEF MoveInv, MoveShape

\* - Changes by the admin ---------------------------------------------------

LEMMA EditKeeps ==
  ASSUME MoveInv, NEW d \in Database, Editing(d),
         \A t \in Numbered : CountedIn(dbs[live], t) => CountedIn(d, t),
         up /\ keyFile # 0 => \A s \in Secrets : d.secret[s].val = 0 \/ d.secret[s].by # 0,
         collided' \in BOOLEAN, collided' => collided \/ ~ Counted(dbs[live])
  PROVE  MoveInv'
<1> DEFINE w == [dbs EXCEPT ![live] = d]
<1>1. /\ DOMAIN w = DOMAIN dbs /\ w \in [DOMAIN w -> Database]
      /\ w[live] = d /\ \A y \in DOMAIN dbs \ {live} : w[y] = dbs[y]
  BY DatabasesAre, OneWritten
<1> HIDE DEF w
<1>2. dbs' = w
  BY DEF Editing, w
<1>3. /\ UNCHANGED <<live, up, keyFile, clean, moved>> /\ edits' = edits + 1
      /\ run' = [run EXCEPT !.alone = FALSE]
  BY DEF Editing
<1>4. /\ run' \in [step : 0 .. 6, fixing : BOOLEAN, alone : BOOLEAN]
      /\ run'.step = run.step /\ run'.fixing = run.fixing /\ ~ run'.alone
  BY <1>3 DEF MoveInv, MoveShape
<1>5. "old" \in DOMAIN dbs /\ (live = "new" => moved /\ ~ Moving /\ Opened)
  BY DEF MoveInv, MoveShape, Moving
<1>6. live = "old" /\ Opened => dbs'["new"] = dbs["new"]
  BY <1>1, <1>2 DEF Opened
<1>7. live = "new" => dbs'["old"] = dbs["old"]
  BY <1>1, <1>2, <1>5
<1>8. Moving' <=> Moving
  BY <1>4 DEF Moving
<1>9. MoveShape'
  <2>1. run'.fixing => Taken' # {}
    BY <1>4, <1>6 DEF MoveInv, MoveShape, Taken, Present, Moving
  <2>2. edits' \in Nat /\ DOMAIN dbs' = DOMAIN dbs /\ dbs' \in [DOMAIN dbs' -> Database]
    BY <1>1, <1>2, <1>3 DEF MoveInv, MoveShape
  <2>3. Opened' <=> Opened
    BY <2>2 DEF Opened
  <2> QED BY <1>3, <1>4, <1>8, <2>1, <2>2, <2>3 DEF MoveInv, MoveShape
<1>10. NumbersFollow'
  <2>1. dbs'[live] = d
    BY <1>1, <1>2
  <2>2. Counted(dbs[live]) => Counted(d)
    BY DEF Counted
  <2>3. clean /\ moved /\ live = "old" => dbs'["new"] = dbs["new"]
    BY <1>6 DEF MoveInv, MoveShape
  <2>4. Counted(dbs["old"])' <=> Counted(dbs'["old"])
    BY DEF Counted, CountedIn
  <2>5. Counted(dbs["new"])' <=> Counted(dbs'["new"])
    BY DEF Counted, CountedIn
  <2>6. live \in {"old", "new"}
    BY DEF MoveInv, MoveShape
  <2>7. /\ Counted(dbs["old"]) /\ (clean /\ moved => Counted(dbs["new"]))
        /\ (collided => live = "new" /\ ~ clean) /\ (live = "new" => moved)
    BY DEF MoveInv, NumbersFollow, MoveShape
  <2>8. Counted(dbs'["old"])
    BY <1>7, <2>1, <2>2, <2>6, <2>7
  <2>9. clean /\ moved => Counted(dbs'["new"])
    BY <2>1, <2>2, <2>3, <2>6, <2>7
  <2>10. collided' => live = "new" /\ ~ clean
    BY <2>6, <2>7
  <2> QED BY <1>3, <2>4, <2>5, <2>8, <2>9, <2>10 DEF NumbersFollow
<1>11. FilledSoFar'
  <2> SUFFICES ASSUME clean', Moving' PROVE FilledSoFar'
    BY DEF FilledSoFar
  <2>1. clean /\ Moving /\ dbs'["new"] = dbs["new"]
    BY <1>3, <1>6, <1>8 DEF MoveInv, MoveShape
  <2> QED BY <1>4, <2>1 DEF MoveInv, FilledSoFar, Done, CountedIn
<1>12. SameSoFar'
  BY <1>4 DEF SameSoFar
<1>13. OpenInTarget'
  BY <1>1, <1>2, <1>3, <1>6 DEF MoveInv, OpenInTarget, Opened
<1>14. SealedAtRest'
  BY <1>1, <1>2, <1>3 DEF SealedAtRest
<1> QED BY <1>9, <1>10, <1>11, <1>12, <1>13, <1>14 DEF MoveInv

LEMMA InsertKeeps ==
  ASSUME MoveInv, NEW t \in Numbered, NEW v \in Nat, v # 0, Insert(t, v) PROVE MoveInv'
<1> DEFINE d == dbs[live]
           i == d.next[t] + 1
           r == [d.rows[t] EXCEPT ![i] = IF @ # 0 THEN @ ELSE v]
           e == [d EXCEPT !.rows[t] = r, !.next[t] = i]
<1>1. d \in Database /\ t \in Tables
  BY DatabasesAre DEF Numbered
<1>2. /\ i \in Ids /\ collided' = (collided \/ d.rows[t][i] # 0)
      /\ Editing([d EXCEPT !.next[t] = i, !.rows[t][i] = IF @ # 0 THEN @ ELSE v])
  BY DEF Insert
<1>3. d.rows[t] \in [Ids -> Nat] /\ d.next[t] \in 0 .. MaxId
  BY <1>1 DEF Database
<1>4. /\ r \in [Ids -> Nat] /\ i \in 0 .. MaxId /\ i = d.next[t] + 1
      /\ \A j \in Ids \ {i} : r[j] = d.rows[t][j]
  <2>1. i \in 0 .. MaxId
    BY <1>2, <1>3, MigrationAssumption DEF Ids, MigrationAssumption
  <2> HIDE DEF i
  <2>2. IF d.rows[t][i] # 0 THEN d.rows[t][i] \in Nat ELSE v \in Nat
    BY <1>2, <1>3
  <2>3. r \in [Ids -> Nat]
    BY <1>2, <1>3, <2>2
  <2>4. \A j \in Ids \ {i} : r[j] = d.rows[t][j]
    BY <1>2, <1>3
  <2> QED BY <2>1, <2>3, <2>4 DEF i
<1>5. [d EXCEPT !.next[t] = i, !.rows[t][i] = IF @ # 0 THEN @ ELSE v] = e
  BY <1>1, <1>2, <1>3 DEF Database
<1>51. e = WithRows(d, t, r, i)
  BY DEF WithRows
<1> HIDE DEF r, i, d, e
<1>6. /\ e \in Database /\ e.secret = d.secret /\ e.setting = d.setting
      /\ e.rows[t] = r /\ e.next[t] = i
      /\ \A u \in Tables \ {t} : e.rows[u] = d.rows[u] /\ e.next[u] = d.next[u]
  BY <1>1, <1>4, <1>51, RowsWritten
<1>7. ASSUME NEW u \in Numbered, CountedIn(d, u) PROVE CountedIn(e, u)
  <2>1. CASE u = t
    <3> SUFFICES ASSUME NEW j \in Ids, e.rows[t][j] # 0 PROVE j <= e.next[t]
      BY <2>1 DEF CountedIn
    <3>1. j = i \/ d.rows[t][j] # 0
      BY <1>4, <1>6
    <3>2. j = i \/ j <= d.next[t]
      BY <1>7, <2>1, <3>1 DEF CountedIn
    <3> QED BY <1>3, <1>4, <1>6, <3>2 DEF Ids
  <2>2. CASE u # t
    BY <1>6, <1>7, <2>2 DEF CountedIn, Numbered
  <2> QED BY <2>1, <2>2
<1>8. up /\ keyFile # 0 => \A s \in Secrets : e.secret[s].val = 0 \/ e.secret[s].by # 0
  BY <1>6 DEF MoveInv, SealedAtRest, d
<1>9. collided' \in BOOLEAN /\ (collided' => collided \/ ~ Counted(d))
  <2>1. Counted(d) => d.rows[t][i] = 0
    BY <1>2, <1>3, <1>4 DEF Counted, CountedIn, Ids
  <2> QED BY <1>2, <2>1 DEF MoveInv, MoveShape
<1>10. Editing(e)
  BY <1>2, <1>5 DEF d
<1> QED BY <1>6, <1>7, <1>8, <1>9, <1>10, EditKeeps DEF d

\* A database that differs in one table, whose rows are fewer.
LEMMA TableEditKeeps ==
  ASSUME MoveInv, NEW t \in Tables, NEW r \in [Ids -> Nat], collided' = collided,
         Editing([dbs[live] EXCEPT !.rows[t] = r]),
         t \in Numbered => \A i \in Ids : r[i] # 0 => dbs[live].rows[t][i] # 0
  PROVE  MoveInv'
<1> DEFINE d == dbs[live]
           n == d.next[t]
           e == [d EXCEPT !.rows[t] = r, !.next[t] = n]
<1>1. d \in Database
  BY DatabasesAre
<1>2. n \in 0 .. MaxId
  BY <1>1 DEF Database
<1>3. [d EXCEPT !.rows[t] = r] = e
  BY <1>1 DEF Database
<1>31. e = WithRows(d, t, r, n)
  BY DEF WithRows
<1> HIDE DEF n, d, e
<1>4. /\ e \in Database /\ e.secret = d.secret /\ e.setting = d.setting
      /\ e.rows[t] = r /\ e.next[t] = n
      /\ \A u \in Tables \ {t} : e.rows[u] = d.rows[u] /\ e.next[u] = d.next[u]
  BY <1>1, <1>2, <1>31, RowsWritten
<1>5. \A u \in Numbered : CountedIn(d, u) => CountedIn(e, u)
  BY <1>4 DEF CountedIn, Numbered, n, d
<1>6. up /\ keyFile # 0 => \A s \in Secrets : e.secret[s].val = 0 \/ e.secret[s].by # 0
  BY <1>4 DEF MoveInv, SealedAtRest, d
<1>7. collided' \in BOOLEAN /\ Editing(e)
  BY <1>3 DEF MoveInv, MoveShape, d
<1> QED BY <1>4, <1>5, <1>6, <1>7, EditKeeps DEF d

LEMMA RemoveKeeps ==
  ASSUME MoveInv, NEW t \in Numbered, NEW i \in Ids, Remove(t, i) PROVE MoveInv'
<1> DEFINE d == dbs[live]
           r == [d.rows[t] EXCEPT ![i] = 0]
<1>1. d \in Database /\ t \in Tables
  BY DatabasesAre DEF Numbered
<1>2. /\ d.rows[t] \in [Ids -> Nat]
  BY <1>1 DEF Database
<1>3. r \in [Ids -> Nat] /\ \A j \in Ids : r[j] # 0 => d.rows[t][j] # 0
  BY <1>2
<1>4. [d EXCEPT !.rows[t][i] = 0] = [d EXCEPT !.rows[t] = r]
  BY <1>1 DEF Database
<1>5. Editing([d EXCEPT !.rows[t] = r]) /\ collided' = collided
  BY <1>4 DEF Remove
<1> HIDE DEF r
<1> QED BY <1>1, <1>3, <1>5, TableEditKeeps

LEMMA SyncStoresKeeps ==
  ASSUME MoveInv, NEW i \in Ids, SyncStores(i) PROVE MoveInv'
<1> DEFINE d == dbs[live]
           t == "threat_intel_ips"
           r == [d.rows[t] EXCEPT ![i] = d.rows["threat_intel_sources"][i]]
<1>1. d \in Database /\ t \in Tables /\ t \notin Numbered /\ "threat_intel_sources" \in Tables
  BY DatabasesAre DEF Tables, Numbered
<1>2. d.rows[t] \in [Ids -> Nat] /\ d.rows["threat_intel_sources"][i] \in Nat
  BY <1>1 DEF Database
<1>3. r \in [Ids -> Nat]
  BY <1>2
<1>4. [d EXCEPT !.rows["threat_intel_ips"][i] = d.rows["threat_intel_sources"][i]]
        = [d EXCEPT !.rows[t] = r]
  BY <1>1 DEF Database
<1>5. Editing([d EXCEPT !.rows[t] = r]) /\ collided' = collided
  BY <1>4 DEF SyncStores
<1> HIDE DEF r, t
<1> QED BY <1>1, <1>3, <1>5, TableEditKeeps

LEMMA SetMetaKeeps ==
  ASSUME MoveInv, SetMeta PROVE MoveInv'
<1> DEFINE d == dbs[live]
           e == [d EXCEPT !.setting = edits + 1]
<1>1. d \in Database /\ edits + 1 \in Nat
  BY DatabasesAre DEF MoveInv, MoveShape
<1>2. e \in Database /\ e.secret = d.secret /\ e.rows = d.rows /\ e.next = d.next
  BY <1>1 DEF Database
<1>3. Editing(e) /\ collided' = collided /\ collided' \in BOOLEAN
  BY DEF SetMeta, MoveInv, MoveShape
<1> HIDE DEF e
<1>4. \A u \in Numbered : CountedIn(d, u) => CountedIn(e, u)
  BY <1>2 DEF CountedIn
<1>5. up /\ keyFile # 0 => \A s \in Secrets : e.secret[s].val = 0 \/ e.secret[s].by # 0
  BY <1>2 DEF MoveInv, SealedAtRest
<1> QED BY <1>2, <1>3, <1>4, <1>5, EditKeeps

LEMMA SealedIs ==
  ASSUME NEW s \in Secret, NEW k \in KeyFiles \cup {0}
  PROVE  /\ SealSecret(s, k) \in Secret
         /\ k # 0 => SealSecret(s, k).val = 0 \/ SealSecret(s, k).by = k
         /\ SealSecret(s, k).by \in {s.by, k}
  BY DEF SealSecret, Secret

LEMMA SetSecretKeeps ==
  ASSUME MoveInv, NEW s \in Secrets, SetSecretMeta(s) PROVE MoveInv'
<1> DEFINE d == dbs[live]
           new == [val |-> edits + 1, by |-> 0]
           x == SealSecret(new, keyFile)
           f == [d.secret EXCEPT ![s] = x]
           e == [d EXCEPT !.secret = f]
<1>1. d \in Database /\ new \in Secret /\ keyFile \in KeyFiles \cup {0}
  BY DatabasesAre DEF MoveInv, MoveShape, Secret
<1>2. Editing([d EXCEPT !.secret[s] = x]) /\ collided' = collided /\ collided' \in BOOLEAN
  BY DEF SetSecretMeta, MoveInv, MoveShape
<1> HIDE DEF new
<1>3. x \in Secret /\ (keyFile # 0 => x.val = 0 \/ x.by = keyFile)
  BY <1>1, SealedIs
<1> HIDE DEF x
<1>4. f \in [Secrets -> Secret] /\ f[s] = x /\ \A z \in Secrets \ {s} : f[z] = d.secret[z]
  BY <1>1, <1>3 DEF Database
<1>5. [d EXCEPT !.secret[s] = x] = e
  BY <1>1 DEF Database
<1> HIDE DEF f
<1>6. e \in Database /\ e.secret = f /\ e.rows = d.rows /\ e.next = d.next
  BY <1>1, <1>4, SecretsWritten
<1> HIDE DEF e
<1>7. \A u \in Numbered : CountedIn(d, u) => CountedIn(e, u)
  BY <1>6 DEF CountedIn
<1>8. up /\ keyFile # 0 => \A z \in Secrets : e.secret[z].val = 0 \/ e.secret[z].by # 0
  <2> SUFFICES ASSUME up, keyFile # 0, NEW z \in Secrets
               PROVE  e.secret[z].val = 0 \/ e.secret[z].by # 0
    OBVIOUS
  <2>1. CASE z = s
    BY <1>3, <1>4, <1>6, <2>1
  <2>2. CASE z # s
    BY <1>4, <1>6, <2>2 DEF MoveInv, SealedAtRest
  <2> QED BY <2>1, <2>2
<1>9. Editing(e)
  BY <1>2, <1>5
<1> QED BY <1>2, <1>6, <1>7, <1>8, <1>9, EditKeeps

\* - The run ----------------------------------------------------------------

LEMMA RunFacts ==
  ASSUME MoveInv, Moving
  PROVE  /\ "new" \in DOMAIN dbs /\ "old" \in DOMAIN dbs /\ Opened
         /\ live = "old" /\ ~ moved /\ ~ collided /\ run.step \in 1 .. 6
         /\ dbs["new"] \in Database /\ dbs["old"] \in Database
         /\ \A s \in Secrets : dbs["new"].secret[s].by = 0
  BY DatabasesAre DEF MoveInv, MoveShape, NumbersFollow, OpenInTarget, Moving, Opened

\* Everything but the progress of the run and its history.
LEMMA TargetWritten ==
  ASSUME MoveInv, Moving, NEW d \in Database, \A s \in Secrets : d.secret[s].by = 0,
         dbs' = [dbs EXCEPT !["new"] = d],
         UNCHANGED <<live, up, keyFile, clean, collided, edits>>
  PROVE  /\ DOMAIN dbs' = DOMAIN dbs /\ dbs' \in [DOMAIN dbs' -> Database]
         /\ dbs'["new"] = d /\ dbs'["old"] = dbs["old"]
         /\ OpenInTarget' /\ SealedAtRest' /\ Counted(dbs["old"])' /\ ~ collided' /\ Opened'
<1> DEFINE w == [dbs EXCEPT !["new"] = d]
<1>1. /\ DOMAIN w = DOMAIN dbs /\ w \in [DOMAIN w -> Database]
      /\ w["new"] = d /\ \A y \in DOMAIN dbs \ {"new"} : w[y] = dbs[y]
  BY RunFacts, OneWritten
<1> HIDE DEF w
<1>2. dbs' = w
  BY DEF w
<1>3. /\ DOMAIN dbs' = DOMAIN dbs /\ dbs' \in [DOMAIN dbs' -> Database]
      /\ dbs'["new"] = d /\ dbs'["old"] = dbs["old"]
  BY <1>1, <1>2, RunFacts
<1>4. Opened' /\ OpenInTarget'
  BY <1>3, RunFacts DEF Opened, OpenInTarget
<1>5. SealedAtRest'
  BY <1>3, RunFacts DEF MoveInv, SealedAtRest
<1>6. Counted(dbs["old"])'
  BY <1>3 DEF MoveInv, NumbersFollow, Counted, CountedIn
<1> QED BY <1>3, <1>4, <1>5, <1>6, RunFacts

LEMMA EndingKeeps ==
  ASSUME MoveInv, Moving, NEW d \in Database, NEW fault, Ending(d, fault),
         \A s \in Secrets : d.secret[s].by = 0
  PROVE  MoveInv'
<1>1. /\ dbs' = [dbs EXCEPT !["new"] = d] /\ run' = NoRun
      /\ UNCHANGED <<live, up, keyFile, clean, moved, collided, edits>>
  BY DEF Ending
<1>2. /\ DOMAIN dbs' = DOMAIN dbs /\ dbs' \in [DOMAIN dbs' -> Database]
      /\ OpenInTarget' /\ SealedAtRest' /\ Counted(dbs["old"])' /\ ~ collided' /\ Opened'
  BY <1>1, TargetWritten
<1>3. /\ run' \in [step : 0 .. 6, fixing : BOOLEAN, alone : BOOLEAN]
      /\ run'.step = 0 /\ ~ run'.fixing /\ ~ Moving'
  BY <1>1 DEF NoRun, Moving
<1>4. MoveShape'
  BY <1>1, <1>2, <1>3, RunFacts DEF MoveInv, MoveShape
<1>5. NumbersFollow' /\ FilledSoFar' /\ SameSoFar'
  BY <1>1, <1>2, <1>3, RunFacts DEF NumbersFollow, FilledSoFar, SameSoFar
<1> QED BY <1>2, <1>4, <1>5 DEF MoveInv

\* A run that goes on.
LEMMA GoingOnKeeps ==
  ASSUME MoveInv, Moving, NEW d \in Database, NEW next, Writing(d, next),
         \A s \in Secrets : d.secret[s].by = 0,
         next \in [step : 1 .. 6, fixing : BOOLEAN, alone : BOOLEAN],
         next.fixing => next.step \in 2 .. 4 /\ Present(d, Steps[next.step]) # {},
         FilledSoFar', SameSoFar'
  PROVE  MoveInv'
<1>1. /\ dbs' = [dbs EXCEPT !["new"] = d] /\ run' = next
      /\ UNCHANGED <<live, up, keyFile, clean, collided, edits>>
      /\ moved' = (next = NoRun)
  BY DEF Writing
<1>2. /\ DOMAIN dbs' = DOMAIN dbs /\ dbs' \in [DOMAIN dbs' -> Database]
      /\ dbs'["new"] = d /\ dbs'["old"] = dbs["old"]
      /\ OpenInTarget' /\ SealedAtRest' /\ Counted(dbs["old"])' /\ ~ collided' /\ Opened'
  BY <1>1, TargetWritten
<1>3. next # NoRun /\ next \in [step : 0 .. 6, fixing : BOOLEAN, alone : BOOLEAN]
  BY DEF NoRun
<1>4. run'.fixing => Taken' # {}
  BY <1>1, <1>2 DEF Taken, Present
<1>5. MoveShape'
  <2>1. run'.fixing => run'.step \in 2 .. 4
    BY <1>1
  <2>2. moved' = FALSE /\ live' = "old"
    BY <1>1, <1>3, RunFacts
  <2> QED BY <1>1, <1>2, <1>3, <1>4, <2>1, <2>2 DEF MoveInv, MoveShape
<1>6. NumbersFollow'
  BY <1>1, <1>2, <1>3 DEF NumbersFollow
<1> QED BY <1>2, <1>5, <1>6 DEF MoveInv

\* The last write of a run.
LEMMA FinishKeeps ==
  ASSUME MoveInv, Moving, NEW d \in Database, Writing(d, NoRun),
         \A s \in Secrets : d.secret[s].by = 0, clean => Counted(d)
  PROVE  MoveInv'
<1>1. /\ dbs' = [dbs EXCEPT !["new"] = d] /\ run' = NoRun
      /\ UNCHANGED <<live, up, keyFile, clean, collided, edits>> /\ moved' = TRUE
  BY DEF Writing
<1>2. /\ DOMAIN dbs' = DOMAIN dbs /\ dbs' \in [DOMAIN dbs' -> Database]
      /\ dbs'["new"] = d
      /\ OpenInTarget' /\ SealedAtRest' /\ Counted(dbs["old"])' /\ ~ collided' /\ Opened'
  BY <1>1, TargetWritten
<1>3. /\ run' \in [step : 0 .. 6, fixing : BOOLEAN, alone : BOOLEAN]
      /\ run'.step = 0 /\ ~ run'.fixing /\ ~ Moving'
  BY <1>1 DEF NoRun, Moving
<1>4. MoveShape'
  BY <1>1, <1>2, <1>3, RunFacts DEF MoveInv, MoveShape
<1>5. NumbersFollow'
  BY <1>1, <1>2 DEF NumbersFollow, Counted, CountedIn
<1>6. FilledSoFar' /\ SameSoFar'
  BY <1>3 DEF FilledSoFar, SameSoFar
<1> QED BY <1>2, <1>4, <1>5, <1>6 DEF MoveInv

LEMMA StoredIs ==
  ASSUME MoveInv, Moving, NEW S \in SUBSET Secrets, NEW settings \in BOOLEAN
  PROVE  /\ Stored(S, settings) \in Database
         /\ Stored(S, settings).rows = dbs["new"].rows
         /\ Stored(S, settings).next = dbs["new"].next
         /\ \A s \in Secrets : Stored(S, settings).secret[s].by = 0
         /\ \A s \in S : Stored(S, settings).secret[s].val =
              IF HasRow(s) THEN dbs["old"].secret[s].val ELSE dbs["new"].secret[s].val
         /\ \A s \in Secrets \ S : Stored(S, settings).secret[s] = dbs["new"].secret[s]
         /\ Stored(S, settings).setting =
              IF settings /\ dbs["old"].setting # 0 THEN dbs["old"].setting
              ELSE dbs["new"].setting
<1> DEFINE d == dbs["new"]
           f == [s \in Secrets |-> IF s \in S /\ HasRow(s) THEN Resealed(s) ELSE d.secret[s]]
           v == IF settings /\ dbs["old"].setting # 0 THEN dbs["old"].setting ELSE d.setting
<1>1. d \in Database /\ dbs["old"] \in Database
  BY RunFacts
<1>2. \A s \in Secrets : /\ Resealed(s) \in Secret /\ Resealed(s).by = 0
                         /\ Resealed(s).val = dbs["old"].secret[s].val
  BY <1>1 DEF Resealed, Database, Secret
<1>3. /\ f \in [Secrets -> Secret] /\ (\A s \in S : f[s] = IF HasRow(s) THEN Resealed(s) ELSE d.secret[s])
      /\ \A s \in Secrets \ S : f[s] = d.secret[s]
  BY <1>1, <1>2 DEF Database
<1>4. v \in Nat
  BY <1>1 DEF Database
<1>5. Stored(S, settings) = [d EXCEPT !.secret = f, !.setting = v]
  BY <1>1 DEF Stored, Database
<1> HIDE DEF f, v
<1>6. /\ Stored(S, settings) \in Database
      /\ Stored(S, settings).rows = d.rows /\ Stored(S, settings).next = d.next
      /\ Stored(S, settings).secret = f /\ Stored(S, settings).setting = v
  BY <1>1, <1>3, <1>4, <1>5 DEF Database
<1>7. \A s \in Secrets : f[s].by = 0
  BY <1>2, <1>3, RunFacts
<1>8. \A s \in S : f[s].val = IF HasRow(s) THEN dbs["old"].secret[s].val ELSE d.secret[s].val
  BY <1>2, <1>3
<1> QED BY <1>3, <1>6, <1>7, <1>8 DEF v

LEMMA CopySecretsKeeps ==
  ASSUME MoveInv, NEW step \in {"meta", "webhook_config"}, CopySecrets(step) PROVE MoveInv'
<1> DEFINE S == SecretsOf(step) \cap Secrets
           d == Stored(S, step = "meta")
<1>1. Moving /\ ~ run.fixing /\ Steps[run.step] = step
  BY DEF CopySecrets, AtStep
<1>2. Stored(SecretsOf(step), step = "meta") = d
  BY DEF Stored
<1>3. Writing(d, Following)
  BY <1>2 DEF CopySecrets
<1>4. /\ d \in Database /\ d.rows = dbs["new"].rows /\ d.next = dbs["new"].next
      /\ \A s \in Secrets : d.secret[s].by = 0
      /\ \A s \in S : d.secret[s].val =
           IF HasRow(s) THEN dbs["old"].secret[s].val ELSE dbs["new"].secret[s].val
      /\ d.setting = IF step = "meta" /\ dbs["old"].setting # 0 THEN dbs["old"].setting
                     ELSE dbs["new"].setting
  BY <1>1, StoredIs
<1>5. step = "meta" => S = InMeta
  BY DEF SecretsOf, InMeta
<1> HIDE DEF d, S
<1>6. CASE step = "meta"
  <2>1. run.step = 1
    BY <1>1, <1>6, StepsAre, RunFacts
  <2>2. Following = [run EXCEPT !.step = 2]
    BY <2>1, StepsAre DEF Following, MoveInv, MoveShape
  <2> DEFINE n == [run EXCEPT !.step = 2]
  <2>3. /\ n \in [step : 1 .. 6, fixing : BOOLEAN, alone : BOOLEAN]
        /\ n.step = 2 /\ ~ n.fixing /\ n.alone = run.alone
    BY <1>1 DEF MoveInv, MoveShape
  <2> HIDE DEF n
  <2>4. Writing(d, n)
    BY <1>3, <2>2 DEF n
  <2>5. run' = n /\ dbs'["new"] = d /\ dbs'["old"] = dbs["old"] /\ UNCHANGED clean
    BY <1>1, <1>4, <2>4, TargetWritten DEF Writing
  <2>6. \A t \in Tables : ~ Done(t) /\ ~ Done(t)'
    BY <1>1, <2>1, <2>3, <2>5, StepsAre DEF Done
  <2>7. FilledSoFar'
    <3> SUFFICES ASSUME clean', Moving' PROVE FilledSoFar'
      BY DEF FilledSoFar
    <3>1. \A t \in Tables : dbs'["new"].rows[t] = NoRows
      BY <1>1, <1>4, <2>5, <2>6 DEF MoveInv, FilledSoFar
    <3>2. \A t \in Numbered : ~ (run'.step > Place[t])
      BY <2>3, <2>5, StepsAre DEF Numbered
    <3> QED BY <3>1, <3>2 DEF FilledSoFar
  <2>8. SameSoFar'
    <3> SUFFICES ASSUME clean', Moving', run'.alone PROVE SameSoFar'
      BY DEF SameSoFar
    <3>1. /\ dbs["new"].setting = 0
          /\ \A s \in InMeta : dbs["new"].secret[s].val = 0
      BY <1>1, <2>1, <2>3, <2>5 DEF MoveInv, SameSoFar
    <3>2. dbs'["new"].setting = dbs'["old"].setting
      BY <1>4, <1>6, <2>5, <3>1
    <3>3. \A s \in InMeta : ~ HasRow(s) => dbs["old"].secret[s].val = 0
      BY DEF HasRow
    <3>4. \A s \in InMeta : dbs'["new"].secret[s].val = dbs'["old"].secret[s].val
      BY <1>4, <1>5, <1>6, <2>5, <3>1, <3>3
    <3> QED BY <2>3, <2>5, <2>6, <3>2, <3>4 DEF SameSoFar
  <2> QED BY <1>1, <1>4, <2>3, <2>4, <2>7, <2>8, GoingOnKeeps
<1>7. CASE step = "webhook_config"
  <2>1. run.step = 6
    BY <1>1, <1>7, StepsAre, RunFacts
  <2>2. Writing(d, NoRun)
    BY <1>3, <2>1, StepsAre DEF Following
  <2>3. clean => Counted(d)
    <3>1. clean => \A t \in Numbered : CountedIn(dbs["new"], t)
      BY <1>1, <2>1, StepsAre DEF MoveInv, FilledSoFar, Numbered
    <3> QED BY <1>4, <3>1 DEF Counted, CountedIn
  <2> QED BY <1>1, <1>4, <2>2, <2>3, FinishKeeps
<1> QED BY <1>6, <1>7

LEMMA CopySecretsFailsKeeps ==
  ASSUME MoveInv, NEW step \in {"meta", "webhook_config"}, CopySecretsFails(step)
  PROVE  MoveInv'
<1>1. PICK S \in SUBSET SecretsOf(step), settings \in BOOLEAN :
        Ending(Stored(S, settings), Opens(SecretsOf(step)))
  BY DEF CopySecretsFails
<1>2. Moving
  BY DEF CopySecretsFails, AtStep
<1> DEFINE T == S \cap Secrets
           d == Stored(T, settings)
<1>3. Stored(S, settings) = d
  BY DEF Stored
<1>4. d \in Database /\ \A s \in Secrets : d.secret[s].by = 0
  BY <1>2, StoredIs
<1>5. Ending(d, Opens(SecretsOf(step)))
  BY <1>1, <1>3
<1> HIDE DEF d
<1> QED BY <1>2, <1>4, <1>5, EndingKeeps

Run == [step : 1 .. 6, fixing : BOOLEAN, alone : BOOLEAN]
Over == [run EXCEPT !.step = @ + 1]
Fixing == [run EXCEPT !.fixing = TRUE]
Fixed == [Over EXCEPT !.fixing = FALSE]

LEMMA RunGoesOn ==
  ASSUME MoveInv, run.step \in 1 .. 5
  PROVE  /\ Over \in Run /\ Over.step = run.step + 1 /\ Over.alone = run.alone
         /\ ~ run.fixing => ~ Over.fixing
         /\ Fixing \in Run /\ Fixing.step = run.step /\ Fixing.alone = run.alone
         /\ Fixing.fixing
         /\ Fixed \in Run /\ Fixed.step = run.step + 1 /\ Fixed.alone = run.alone
         /\ ~ Fixed.fixing
<1>1. run \in [step : 0 .. 6, fixing : BOOLEAN, alone : BOOLEAN]
  BY DEF MoveInv, MoveShape
<1>2. run.step + 1 \in 1 .. 6 /\ run.step \in 1 .. 6
  BY <1>1
<1>3. Over \in Run
  BY <1>1, <1>2 DEF Over, Run
<1>4. Over.step = run.step + 1 /\ Over.alone = run.alone /\ (~ run.fixing => ~ Over.fixing)
  BY <1>1 DEF Over
<1>5. Fixing \in Run
  BY <1>1, <1>2 DEF Fixing, Run
<1>6. Fixing.step = run.step /\ Fixing.alone = run.alone
  BY <1>1 DEF Fixing
<1>7. Fixing.fixing
  BY <1>1 DEF Fixing
<1>8. Fixed \in Run
  BY <1>3 DEF Fixed, Run
<1>9. Fixed.step = Over.step /\ Fixed.alone = Over.alone
  BY <1>3 DEF Fixed, Run
<1>10. ~ Fixed.fixing
  BY <1>3 DEF Fixed, Run
<1> QED BY <1>3, <1>4, <1>5, <1>6, <1>7, <1>8, <1>9, <1>10

\* d is the target with the rows S of t added.
Adds(d, t, S) ==
  /\ d \in Database /\ d.setting = dbs["new"].setting /\ d.secret = dbs["new"].secret
  /\ \A i \in Ids : d.rows[t][i] = IF i \in S THEN Value(t, dbs["old"].rows[t][i])
                                   ELSE dbs["new"].rows[t][i]
  /\ d.next[t] = IF dbs["new"].dialect = "postgres" \/ S = {} THEN dbs["new"].next[t]
                 ELSE Highest(S \cup {dbs["new"].next[t]})
  /\ \A u \in Tables \ {t} : /\ d.rows[u] = dbs["new"].rows[u]
                             /\ d.next[u] = dbs["new"].next[u]

LEMMA CopiedIs ==
  ASSUME MoveInv, Moving, NEW t \in Tables, NEW S \in SUBSET Ids
  PROVE  Adds(Copied(t, S), t, S)
<1> DEFINE o == dbs["old"].rows[t]
           b == dbs["new"]
           r == [i \in Ids |-> IF i \in S THEN Value(t, o[i]) ELSE b.rows[t][i]]
           m == IF b.dialect = "postgres" \/ S = {} THEN b.next[t]
                ELSE Highest(S \cup {b.next[t]})
           d == Copied(t, S)
<1>1. b \in Database /\ dbs["old"] \in Database
  BY RunFacts
<1>2. b.rows[t] \in [Ids -> Nat] /\ o \in [Ids -> Nat] /\ b.next[t] \in 0 .. MaxId
  BY <1>1 DEF Database
<1>3. r \in [Ids -> Nat]
  BY <1>2 DEF Value
<1>4. m \in 0 .. MaxId
  <2>1. \A i \in S : i \in 0 .. MaxId
    BY MigrationAssumption DEF Ids, MigrationAssumption
  <2>3. S \cup {b.next[t]} \in SUBSET (0 .. MaxId)
    BY <1>2, <2>1
  <2>2. Highest(S \cup {b.next[t]}) \in 0 .. MaxId
    BY <2>3, HighestIs
  <2> QED BY <1>2, <2>2
<1>5. d = WithRows(b, t, r, m)
  <2> DEFINE q == [i \in Ids |-> IF i \in S THEN o[i] ELSE b.rows[t][i]]
             e == [b EXCEPT !.rows[t] = q, !.next[t] = m]
  <2>1. Inserted(t, S) = e
    BY <1>1 DEF Inserted, Database
  <2>2. e.rows[t] = q /\ e.rows = [b.rows EXCEPT ![t] = q]
    BY <1>1 DEF Database
  <2>3. [i \in Ids |-> IF i \in S THEN Value(t, q[i]) ELSE q[i]] = r
    BY DEF Value
  <2> HIDE DEF q, r, m
  <2>4. d = [e EXCEPT !.rows[t] = r]
    BY <2>1, <2>2, <2>3 DEF Copied
  <2>5. [e EXCEPT !.rows[t] = r] = [b EXCEPT !.rows[t] = r, !.next[t] = m]
    BY <1>1 DEF Database
  <2> QED BY <2>4, <2>5 DEF WithRows
<1>6. \A i \in Ids : r[i] = IF i \in S THEN Value(t, o[i]) ELSE b.rows[t][i]
  OBVIOUS
<1> HIDE DEF r, m, d
<1>7. /\ d \in Database /\ d.secret = b.secret /\ d.setting = b.setting
      /\ d.rows[t] = r /\ d.next[t] = m
      /\ \A u \in Tables \ {t} : d.rows[u] = b.rows[u] /\ d.next[u] = b.next[u]
  BY <1>1, <1>3, <1>4, <1>5, RowsWritten
<1> QED BY <1>6, <1>7 DEF m, d, Adds

LEMMA CopyRowsKeeps ==
  ASSUME MoveInv, NEW t \in Tables, CopyRows(t) PROVE MoveInv'
<1> DEFINE b == dbs["new"]
           o == dbs["old"]
           H == Present(o, t)
           d == Copied(t, H)
           fix == b.dialect = "postgres" /\ t \in Numbered /\ H # {}
           n == IF fix THEN Fixing ELSE Over
<1>1. Moving /\ ~ run.fixing /\ Steps[run.step] = t
  BY DEF CopyRows, AtStep
<1>2. run.step = Place[t] /\ Place[t] \in 2 .. 5 /\ (t \in Numbered => Place[t] \in 2 .. 4)
  BY <1>1, StepsAre, RunFacts
<1>3. Here = H /\ H \in SUBSET Ids
  BY <1>1 DEF Here, Present
<1>4. Following = Over
  BY <1>2, StepsAre DEF Following, Over
<1>5. Writing(d, n)
  BY <1>1, <1>3, <1>4 DEF CopyRows, Fixing
<1> HIDE DEF H
<1>6. /\ d \in Database /\ d.setting = b.setting /\ d.secret = b.secret
      /\ \A i \in Ids : d.rows[t][i] = IF i \in H THEN Value(t, o.rows[t][i]) ELSE b.rows[t][i]
      /\ d.next[t] = IF b.dialect = "postgres" \/ H = {} THEN b.next[t]
                     ELSE Highest(H \cup {b.next[t]})
      /\ \A u \in Tables \ {t} : d.rows[u] = b.rows[u] /\ d.next[u] = b.next[u]
  <2>1. Adds(d, t, H)
    BY <1>1, <1>3, CopiedIs
  <2> HIDE DEF d
  <2> QED BY <2>1 DEF Adds
<1>7. /\ n \in Run
      /\ n.alone = run.alone
      /\ fix => n.step = run.step /\ n.fixing
      /\ ~ fix => n.step = run.step + 1 /\ ~ n.fixing
  BY <1>1, <1>2, RunGoesOn
<1>8. \A s \in Secrets : d.secret[s].by = 0
  BY <1>1, <1>6, RunFacts
<1> HIDE DEF n, d, fix
<1>9. run' = n /\ dbs'["new"] = d /\ dbs'["old"] = o /\ UNCHANGED clean
  BY <1>1, <1>5, <1>6, <1>8, TargetWritten DEF Writing
<1>10. \A u \in Tables : /\ Done(u) <=> run.step > Place[u]
                         /\ Done(u)' <=> (Done(u) \/ u = t)
  <2>1. \A u \in Tables : u # t => Place[u] # Place[t]
    BY <1>1, <1>2, StepsAre
  <2>2. \A u \in Tables : Place[u] \in 2 .. 5
    BY StepsAre
  <2> QED BY <1>1, <1>2, <1>7, <1>9, <2>1, <2>2 DEF Done
<1>11. \A i \in Ids : i \in H <=> o.rows[t][i] # 0
  BY DEF Present, H
<1>12. \A i \in H : i \in Ids /\ Value(t, o.rows[t][i]) # 0
  BY <1>3, <1>11 DEF Value
<1>13. FilledSoFar'
  <2> SUFFICES ASSUME clean', Moving' PROVE FilledSoFar'
    BY DEF FilledSoFar
  <2>1. /\ \A u \in Tables : ~ Done(u) => b.rows[u] = NoRows
        /\ \A u \in Numbered : run.step > Place[u] => CountedIn(b, u)
    BY <1>1, <1>9 DEF MoveInv, FilledSoFar
  <2>2. \A u \in Tables : ~ Done(u)' => d.rows[u] = NoRows
    BY <1>6, <1>10, <2>1
  <2>3. \A i \in Ids : b.rows[t][i] = 0
    BY <1>2, <1>10, <2>1 DEF NoRows
  <2>4. ASSUME NEW u \in Numbered, run'.step > Place[u] PROVE CountedIn(d, u)
    <3>1. CASE u # t
      <4>1. Done(u)' /\ u \in Tables
        BY <2>4 DEF Done, Numbered
      <4>2. run.step > Place[u]
        BY <1>10, <3>1, <4>1
      <4> QED BY <1>6, <2>1, <3>1, <4>1, <4>2 DEF CountedIn
    <3>2. CASE u = t
      <4> SUFFICES ASSUME NEW i \in Ids, d.rows[t][i] # 0 PROVE i <= d.next[t]
        BY <3>2 DEF CountedIn
      <4>1. i \in H
        BY <1>6, <2>3
      <4>2. ~ fix
        BY <1>2, <1>7, <1>9, <2>4, <3>2
      <4>3. d.next[t] = Highest(H \cup {b.next[t]})
        BY <1>6, <2>4, <3>2, <4>1, <4>2 DEF fix
      <4>4. H \cup {b.next[t]} \in SUBSET (0 .. MaxId)
        <5>1. b.next[t] \in 0 .. MaxId
          BY <1>1, RunFacts DEF Database
        <5> QED BY <1>3, <5>1 DEF Ids
      <4> QED BY <4>1, <4>3, <4>4, HighestIs
    <3> QED BY <3>1, <3>2
  <2>5. \A u \in Numbered : run'.step > Place[u] => CountedIn(dbs'["new"], u)
    BY <1>9, <2>4
  <2>6. \A u \in Tables : ~ Done(u)' => dbs'["new"].rows[u] = NoRows
    BY <1>9, <2>2
  <2>7. \A u \in Numbered : CountedIn(dbs["new"], u)' <=> CountedIn(dbs'["new"], u)
    BY DEF CountedIn
  <2> QED BY <2>5, <2>6, <2>7 DEF FilledSoFar
<1>14. SameSoFar'
  <2> SUFFICES ASSUME clean', Moving', run'.alone PROVE SameSoFar'
    BY DEF SameSoFar
  <2>1. /\ b.setting = o.setting
        /\ \A s \in InMeta : b.secret[s].val = o.secret[s].val
        /\ \A u \in Tables : Done(u) =>
             b.rows[u] = [i \in Ids |-> IF o.rows[u][i] = 0 THEN 0 ELSE Value(u, o.rows[u][i])]
    BY <1>1, <1>2, <1>7, <1>9 DEF MoveInv, SameSoFar
  <2>2. ~ Done(t)
    BY <1>2, <1>10
  <2>3. \A i \in Ids : b.rows[t][i] = 0
    BY <1>1, <1>9, <2>2 DEF MoveInv, FilledSoFar, NoRows
  <2>4. \A i \in Ids : d.rows[t][i] = IF o.rows[t][i] = 0 THEN 0 ELSE Value(t, o.rows[t][i])
    BY <1>6, <1>11, <2>3
  <2>5. d.rows[t] \in [Ids -> Nat]
    BY <1>6 DEF Database
  <2>6. d.rows[t] = [i \in Ids |-> IF o.rows[t][i] = 0 THEN 0 ELSE Value(t, o.rows[t][i])]
    BY <2>4, <2>5
  <2>7. \A u \in Tables : Done(u)' =>
          d.rows[u] = [i \in Ids |-> IF o.rows[u][i] = 0 THEN 0 ELSE Value(u, o.rows[u][i])]
    BY <1>6, <1>10, <2>1, <2>6
  <2>8. run'.step \in 3 .. 6 \/ run'.step = run.step
    BY <1>2, <1>7, <1>9
  <2>9. run'.step # 1
    BY <1>2, <2>8
  <2> QED BY <1>6, <1>9, <2>1, <2>7, <2>9 DEF SameSoFar
<1>15. n.fixing => n.step \in 2 .. 4 /\ Present(d, Steps[n.step]) # {}
  <2> SUFFICES ASSUME n.fixing PROVE n.step \in 2 .. 4 /\ Present(d, Steps[n.step]) # {}
    OBVIOUS
  <2>1. fix /\ n.step = run.step
    BY <1>7
  <2>2. H # {} /\ t \in Numbered
    BY <2>1 DEF fix
  <2>3. PICK i \in H : TRUE
    BY <2>2
  <2>4. i \in Ids /\ d.rows[t][i] # 0
    BY <1>6, <1>12
  <2> QED BY <1>1, <1>2, <2>1, <2>2, <2>4 DEF Present
<1> QED BY <1>1, <1>5, <1>6, <1>7, <1>8, <1>13, <1>14, <1>15, GoingOnKeeps DEF Run

LEMMA CopyRowsFailsKeeps ==
  ASSUME MoveInv, NEW t \in Tables, CopyRowsFails(t) PROVE MoveInv'
<1>1. Moving
  BY DEF CopyRowsFails, AtStep
<1>2. PICK S \in SUBSET Ids : Ending(Copied(t, S), Here \cap Taken = {})
  BY DEF CopyRowsFails, Here, Present
<1> DEFINE d == Copied(t, S)
<1>3. Adds(d, t, S)
  BY <1>1, CopiedIs
<1>4. Ending(d, Here \cap Taken = {})
  BY <1>2
<1> HIDE DEF d
<1>5. d \in Database /\ d.secret = dbs["new"].secret
  BY <1>3 DEF Adds
<1>6. \A s \in Secrets : d.secret[s].by = 0
  BY <1>1, <1>5, RunFacts
<1> QED BY <1>1, <1>4, <1>5, <1>6, EndingKeeps

LEMMA FixKeeps ==
  ASSUME MoveInv, FixPostgresIdentitySequence PROVE MoveInv'
<1> DEFINE b == dbs["new"]
           t == Steps[run.step]
           h == Highest(Taken)
           d == [b EXCEPT !.next[t] = h]
           n == Fixed
<1>1. Moving /\ run.fixing /\ run.step \in 2 .. 4 /\ Taken # {}
  BY DEF FixPostgresIdentitySequence, MoveInv, MoveShape, Moving
<1>2. t \in Tables /\ run.step = Place[t]
  BY <1>1, StepsAre DEF Steps, Tables
<1>3. [Following EXCEPT !.fixing = FALSE] = n
  <2>1. Following = Over
    BY <1>1, StepsAre DEF Following, Over
  <2> QED BY <2>1 DEF Fixed
<1>4. Writing(d, n)
  BY <1>3 DEF FixPostgresIdentitySequence
<1>5. Taken \in SUBSET (0 .. MaxId) /\ \A i \in Ids : i \in Taken <=> b.rows[t][i] # 0
  BY DEF Taken, Present, Ids
<1>6. h \in 0 .. MaxId /\ \A j \in Taken : j <= h
  BY <1>1, <1>5, HighestIs
<1>7. b \in Database /\ b.rows[t] \in [Ids -> Nat]
  BY <1>1, <1>2, RunFacts DEF Database
<1> HIDE DEF h
<1>8. d = WithRows(b, t, b.rows[t], h)
  BY <1>2, <1>7 DEF WithRows, Database
<1>9. /\ d \in Database /\ d.secret = b.secret /\ d.setting = b.setting
      /\ d.rows[t] = b.rows[t] /\ d.next[t] = h
      /\ \A u \in Tables \ {t} : d.rows[u] = b.rows[u] /\ d.next[u] = b.next[u]
  <2> HIDE DEF d, t
  <2> QED BY <1>2, <1>6, <1>7, <1>8, RowsWritten
<1>10. /\ n \in Run
       /\ n.alone = run.alone /\ n.step = run.step + 1 /\ ~ n.fixing
  BY <1>1, RunGoesOn
<1>11. \A s \in Secrets : d.secret[s].by = 0
  <2> HIDE DEF d
  <2> QED BY <1>1, <1>9, RunFacts
<1> HIDE DEF d, n, t
<1>12. run' = n /\ dbs'["new"] = d /\ dbs'["old"] = dbs["old"] /\ UNCHANGED clean
  BY <1>1, <1>4, <1>9, <1>11, TargetWritten DEF Writing
<1>13. \A u \in Tables : /\ Place[u] \in 2 .. 5 /\ (Done(u)' <=> Done(u))
                         /\ (run'.step > Place[u] <=> run.step > Place[u] \/ u = t)
  <2>1. \A u \in Tables : u # t => Place[u] # Place[t]
    BY <1>2, StepsAre, RunFacts, <1>1 DEF t
  <2>2. \A u \in Tables : Place[u] \in 2 .. 5
    BY StepsAre
  <2> QED BY <1>1, <1>2, <1>10, <1>12, <2>1, <2>2 DEF Done
<1>14. FilledSoFar'
  <2> SUFFICES ASSUME clean', Moving' PROVE FilledSoFar'
    BY DEF FilledSoFar
  <2>1. /\ \A u \in Tables : ~ Done(u) => b.rows[u] = NoRows
        /\ \A u \in Numbered : run.step > Place[u] => CountedIn(b, u)
    BY <1>1, <1>12 DEF MoveInv, FilledSoFar
  <2>2. \A u \in Tables : ~ Done(u)' => dbs'["new"].rows[u] = NoRows
    BY <1>9, <1>12, <1>13, <2>1
  <2>3. CountedIn(d, t)
    BY <1>5, <1>6, <1>9 DEF CountedIn, t
  <2>4. \A u \in Numbered : run'.step > Place[u] => CountedIn(d, u)
    BY <1>9, <1>13, <2>1, <2>3 DEF CountedIn, Numbered
  <2>5. \A u \in Numbered : CountedIn(dbs["new"], u)' <=> CountedIn(d, u)
    BY <1>12 DEF CountedIn
  <2> QED BY <2>2, <2>4, <2>5 DEF FilledSoFar
<1>15. SameSoFar'
  <2> SUFFICES ASSUME clean', Moving', run'.alone PROVE SameSoFar'
    BY DEF SameSoFar
  <2>1. \A u \in Tables : d.rows[u] = b.rows[u]
    BY <1>9
  <2> QED BY <1>1, <1>9, <1>10, <1>12, <1>13, <2>1 DEF MoveInv, SameSoFar
<1> QED BY <1>1, <1>4, <1>9, <1>10, <1>11, <1>14, <1>15, GoingOnKeeps DEF Run

LEMMA FixFailsKeeps ==
  ASSUME MoveInv, FixFails PROVE MoveInv'
<1>1. Moving
  BY DEF FixFails, MoveInv, MoveShape, Moving
<1>2. Ending(dbs["new"], TRUE)
  BY DEF FixFails
<1> DEFINE d == dbs["new"]
<1>3. d \in Database /\ \A s \in Secrets : d.secret[s].by = 0
  BY <1>1, RunFacts
<1> HIDE DEF d
<1> QED BY <1>1, <1>2, <1>3, EndingKeeps DEF d

\* - Starts -----------------------------------------------------------------

LEMMA EmptyIs ==
  ASSUME NEW dialect \in {"sqlite", "postgres"}
  PROVE  /\ Empty(dialect) \in Database
         /\ \A t \in Tables : Empty(dialect).rows[t] = NoRows
         /\ \A s \in Secrets : Empty(dialect).secret[s] = Unset
         /\ Empty(dialect).setting = 0
  BY MigrationAssumption DEF MigrationAssumption, Empty, Database, Secret, Unset, NoRows

LEMMA MoveAtFirst == InitMigration => MoveInv
<1> SUFFICES ASSUME InitMigration PROVE MoveInv
  OBVIOUS
<1>1. /\ dbs = [d \in {"old"} |-> Empty("sqlite")] /\ live = "old" /\ run = NoRun
      /\ ~ clean /\ ~ moved /\ ~ collided /\ edits = 0 /\ keyFile \in KeyFiles \cup {0}
      /\ clean \in BOOLEAN /\ moved \in BOOLEAN /\ collided \in BOOLEAN /\ up \in BOOLEAN
  BY DEF InitMigration
<1>2. /\ run \in [step : 0 .. 6, fixing : BOOLEAN, alone : BOOLEAN]
      /\ ~ run.fixing /\ ~ Moving
  BY <1>1 DEF NoRun, Moving
<1>3. DOMAIN dbs = {"old"} /\ dbs["old"] = Empty("sqlite") /\ ~ Opened
  BY <1>1 DEF Opened
<1>4. dbs \in [DOMAIN dbs -> Database]
  BY <1>1, EmptyIs
<1>5. MoveShape
  BY <1>1, <1>2, <1>3, <1>4 DEF MoveShape
<1>6. NumbersFollow
  BY <1>1, <1>3, EmptyIs DEF NumbersFollow, Counted, CountedIn, NoRows, Numbered
<1>7. FilledSoFar /\ SameSoFar /\ OpenInTarget
  BY <1>1, <1>3 DEF FilledSoFar, SameSoFar, OpenInTarget
<1>8. SealedAtRest
  BY <1>1, <1>3, EmptyIs DEF SealedAtRest, Unset
<1> QED BY <1>5, <1>6, <1>7, <1>8 DEF MoveInv

LEMMA OpenTargetKeeps ==
  ASSUME MoveInv, NEW dialect \in {"sqlite", "postgres"}, OpenTarget(dialect) PROVE MoveInv'
<1> DEFINE n == [step |-> 1, fixing |-> FALSE, alone |-> TRUE]
<1>1. /\ live = "old" /\ ~ Moving /\ run' = n
      /\ clean' = ~ Opened /\ moved' = FALSE
      /\ UNCHANGED <<live, up, keyFile, collided, edits>>
      /\ dbs' = IF Opened THEN dbs ELSE [d \in {"old", "new"} |->
                  IF d = "old" THEN dbs["old"] ELSE Empty(dialect)]
  BY DEF OpenTarget
<1>2. /\ n \in [step : 0 .. 6, fixing : BOOLEAN, alone : BOOLEAN]
      /\ n.step = 1 /\ ~ n.fixing
  OBVIOUS
<1> HIDE DEF n
<1>3. /\ DOMAIN dbs' = {"old", "new"} /\ dbs' \in [DOMAIN dbs' -> Database]
      /\ dbs'["old"] = dbs["old"]
      /\ Opened => dbs'["new"] = dbs["new"]
      /\ ~ Opened => dbs'["new"] = Empty(dialect)
  <2>1. CASE Opened
    BY <1>1, <2>1 DEF MoveInv, MoveShape, Opened
  <2>2. CASE ~ Opened
    BY <1>1, <2>2, EmptyIs, DatabasesAre
  <2> QED BY <2>1, <2>2
<1>4. MoveShape'
  BY <1>1, <1>2, <1>3 DEF MoveInv, MoveShape, Opened, Moving
<1>5. NumbersFollow'
  BY <1>1, <1>3 DEF MoveInv, NumbersFollow, Counted, CountedIn
<1>6. \A t \in Tables : Place[t] \in 2 .. 5 /\ ~ Done(t)' /\ ~ (run'.step > Place[t])
  BY <1>1, <1>2, StepsAre DEF Done
<1>7. FilledSoFar'
  <2>1. clean' => \A t \in Tables : dbs'["new"].rows[t] = NoRows
    BY <1>1, <1>3, EmptyIs
  <2> QED BY <1>6, <2>1 DEF FilledSoFar, Numbered
<1>8. SameSoFar'
  <2>1. clean' => /\ dbs'["new"].setting = 0
                  /\ \A s \in InMeta : dbs'["new"].secret[s].val = 0
    <3>1. InMeta \subseteq Secrets
      BY DEF InMeta
    <3>2. Unset.val = 0
      BY DEF Unset
    <3>3. ASSUME clean' PROVE dbs'["new"] = Empty(dialect)
      BY <1>1, <1>3, <3>3
    <3>4. \A s \in Secrets : Empty(dialect).secret[s].val = 0
      BY <3>2, EmptyIs
    <3> QED BY <3>1, <3>3, <3>4, EmptyIs
  <2> QED BY <1>1, <1>2, <1>6, <2>1 DEF SameSoFar
<1>9. OpenInTarget'
  BY <1>1, <1>3, EmptyIs DEF MoveInv, OpenInTarget, Unset
<1>10. SealedAtRest'
  BY <1>1, <1>3 DEF MoveInv, SealedAtRest
<1> QED BY <1>4, <1>5, <1>7, <1>8, <1>9, <1>10 DEF MoveInv

LEMMA UpgradedIs ==
  ASSUME NEW s \in Secret, NEW k \in KeyFiles \cup {0}
  PROVE  /\ Upgraded(s, k) \in Secret
         /\ k # 0 => Upgraded(s, k).val = 0 \/ Upgraded(s, k).by # 0
         /\ s.by = 0 => OpenSecret(Upgraded(s, k), k)
  BY SealedIs DEF Upgraded, OpenSecret

\* What a start does to the database it opens.
StartsOn(d, k, S) ==
  /\ DOMAIN dbs' = DOMAIN dbs /\ dbs' \in [DOMAIN dbs' -> Database]
  /\ \A y \in DOMAIN dbs \ {d} : dbs'[y] = dbs[y]
  /\ dbs'[d].rows = dbs[d].rows /\ dbs'[d].next = dbs[d].next
  /\ \A s \in S : dbs'[d].secret[s] = Upgraded(dbs[d].secret[s], k)
  /\ \A s \in Secrets \ S : dbs'[d].secret[s] = dbs[d].secret[s]
  /\ \A s \in Secrets : dbs[d].secret[s] \in Secret

LEMMA StartIs ==
  ASSUME MoveInv, NEW d \in {"old", "new"}, NEW k \in KeyFiles \cup {0}, Start(d, k)
  PROVE  /\ d \in DOMAIN dbs /\ (d = live \/ (d = "new" /\ moved))
         /\ live' = d /\ keyFile' = k /\ run' = NoRun
         /\ UNCHANGED <<clean, moved, collided, edits>>
         /\ \E S \in SUBSET Secrets : up' = (S = Secrets) /\ StartsOn(d, k, S)
<1>1. /\ d = live \/ (d = "new" /\ moved)
      /\ live' = d /\ keyFile' = k /\ run' = NoRun
      /\ UNCHANGED <<clean, moved, collided, edits>>
  BY DEF Start
<1>2. PICK S \in SUBSET Secrets :
        /\ dbs' = [dbs EXCEPT ![d].secret = [s \in Secrets |->
                     IF s \in S THEN Upgraded(@[s], k) ELSE @[s]]]
        /\ up' = (S = Secrets)
  BY DEF Start
<1>3. d \in DOMAIN dbs
  BY <1>1 DEF MoveInv, MoveShape, Opened
<1> DEFINE b == dbs[d]
           f == [s \in Secrets |-> IF s \in S THEN Upgraded(b.secret[s], k) ELSE b.secret[s]]
           e == [b EXCEPT !.secret = f]
           w == [dbs EXCEPT ![d] = e]
<1>4. b \in Database /\ \A s \in Secrets : b.secret[s] \in Secret
  BY <1>3 DEF MoveInv, MoveShape, Database
<1>5. dbs' = w
  BY <1>2
<1>6. f \in [Secrets -> Secret]
  BY <1>4, UpgradedIs
<1>7. /\ \A s \in S : f[s] = Upgraded(b.secret[s], k)
      /\ \A s \in Secrets \ S : f[s] = b.secret[s]
  OBVIOUS
<1> HIDE DEF f, b
<1>8. e \in Database /\ e.secret = f /\ e.rows = b.rows /\ e.next = b.next
  BY <1>4, <1>6, SecretsWritten
<1> HIDE DEF e
<1>9. /\ DOMAIN w = DOMAIN dbs /\ w \in [DOMAIN w -> Database]
      /\ w[d] = e /\ \A y \in DOMAIN dbs \ {d} : w[y] = dbs[y]
  BY <1>3, <1>8, OneWritten
<1> HIDE DEF w
<1>10. StartsOn(d, k, S)
  BY <1>4, <1>5, <1>7, <1>8, <1>9 DEF StartsOn, b
<1> QED BY <1>1, <1>2, <1>3, <1>10

LEMMA ProcessStartKeeps ==
  ASSUME MoveInv, NEW d \in {"old", "new"}, NEW k \in KeyFiles \cup {0}, Start(d, k)
  PROVE  MoveInv'
<1>1. /\ d \in DOMAIN dbs /\ (d = live \/ (d = "new" /\ moved))
      /\ live' = d /\ keyFile' = k /\ run' = NoRun
      /\ UNCHANGED <<clean, moved, collided, edits>>
  BY StartIs
<1>2. PICK S \in SUBSET Secrets : up' = (S = Secrets) /\ StartsOn(d, k, S)
  BY StartIs
<1>3. /\ run' \in [step : 0 .. 6, fixing : BOOLEAN, alone : BOOLEAN]
      /\ ~ run'.fixing /\ ~ Moving'
  BY <1>1 DEF NoRun, Moving
<1>4. Opened' <=> Opened
  BY <1>2 DEF StartsOn, Opened
<1>5. (d = "new" => moved) /\ (live = "new" => d = "new") /\ (moved => Opened)
  BY <1>1 DEF MoveInv, MoveShape
<1>6. MoveShape'
  <2>1. DOMAIN dbs' = DOMAIN dbs /\ dbs' \in [DOMAIN dbs' -> Database]
    BY <1>2 DEF StartsOn
  <2>2. up' \in BOOLEAN
    BY <1>2
  <2> QED BY <1>1, <1>3, <1>4, <1>5, <2>1, <2>2 DEF MoveInv, MoveShape
<1>7. NumbersFollow'
  <2>1. \A y \in DOMAIN dbs : dbs'[y].rows = dbs[y].rows /\ dbs'[y].next = dbs[y].next
    BY <1>2 DEF StartsOn
  <2>2. "old" \in DOMAIN dbs /\ (moved => "new" \in DOMAIN dbs)
    BY DEF MoveInv, MoveShape, Opened
  <2> QED BY <1>1, <1>5, <2>1, <2>2 DEF MoveInv, NumbersFollow, Counted, CountedIn
<1>8. FilledSoFar' /\ SameSoFar'
  BY <1>3 DEF FilledSoFar, SameSoFar
<1>9. OpenInTarget'
  <2> SUFFICES ASSUME d = "old", Opened
               PROVE  \A s \in Secrets : dbs'["new"].secret[s].by = 0
    BY <1>1, <1>4 DEF OpenInTarget
  <2>1. live = "old" /\ dbs'["new"] = dbs["new"]
    BY <1>1, <1>2 DEF StartsOn, Opened
  <2> QED BY <2>1 DEF MoveInv, OpenInTarget
<1>10. SealedAtRest'
  <2> SUFFICES ASSUME up', k # 0, NEW s \in Secrets
               PROVE  dbs'[d].secret[s].val = 0 \/ dbs'[d].secret[s].by # 0
    BY <1>1 DEF SealedAtRest
  <2>1. dbs'[d].secret[s] = Upgraded(dbs[d].secret[s], k) /\ dbs[d].secret[s] \in Secret
    BY <1>2 DEF StartsOn
  <2> QED BY <2>1, UpgradedIs
<1> QED BY <1>6, <1>7, <1>8, <1>9, <1>10 DEF MoveInv

\* - The theorems -----------------------------------------------------------

LEMMA MoveNext == MoveInv /\ [NextMigration]_moveVars => MoveInv'
<1> SUFFICES ASSUME MoveInv, [NextMigration]_moveVars PROVE MoveInv'
  OBVIOUS
<1>1. edits + 1 \in Nat /\ edits + 1 # 0
  BY DEF MoveInv, MoveShape
<1>2. {"certificates", "api_keys", "threat_intel_sources"} \subseteq Numbered
  BY DEF Numbered, Tables
<1>3. CASE AddCertificate
  BY <1>2, <1>3, InsertKeeps DEF AddCertificate
<1>4. CASE AddSource
  BY <1>1, <1>2, <1>4, InsertKeeps DEF AddSource
<1>5. CASE \E v \in {1, 2} : CreateAPIKey(v)
  BY <1>2, <1>5, InsertKeeps DEF CreateAPIKey
<1>6. CASE \E t \in Numbered, i \in Ids : Remove(t, i)
  BY <1>6, RemoveKeeps
<1>7. CASE SetMeta \/ (\E i \in Ids : SyncStores(i)) \/ (\E s \in Secrets : SetSecretMeta(s))
  BY <1>7, SetMetaKeeps, SyncStoresKeeps, SetSecretKeeps
<1>8. CASE \E dialect \in {"sqlite", "postgres"} : OpenTarget(dialect)
  BY <1>8, OpenTargetKeeps
<1>9. CASE \E step \in {"meta", "webhook_config"} : CopySecrets(step) \/ CopySecretsFails(step)
  BY <1>9, CopySecretsKeeps, CopySecretsFailsKeeps
<1>10. CASE \E t \in Tables : CopyRows(t) \/ CopyRowsFails(t)
  BY <1>10, CopyRowsKeeps, CopyRowsFailsKeeps
<1>11. CASE FixPostgresIdentitySequence \/ FixFails
  BY <1>11, FixKeeps, FixFailsKeeps
<1>12. CASE \E d \in {"old", "new"}, k \in KeyFiles \cup {0} : Start(d, k)
  BY <1>12, ProcessStartKeeps
<1>13. CASE UNCHANGED moveVars
  <2>1. UNCHANGED <<dbs, live, up, keyFile, run, clean, moved, collided, edits>>
    BY <1>13 DEF moveVars
  <2> QED BY <2>1 DEF MoveInv, MoveShape, NumbersFollow, FilledSoFar, SameSoFar, OpenInTarget,
                      SealedAtRest, Counted, CountedIn, Done, Moving, Opened, Taken, Present
<1> QED BY <1>3, <1>4, <1>5, <1>6, <1>7, <1>8, <1>9, <1>10, <1>11, <1>12, <1>13
        DEF NextMigration

\* moved becomes true only with the secret of the webhook, which comes last.
LEMMA OnlyTheLastStepMoves ==
  MoveInv /\ [NextMigration]_moveVars /\ ~ moved /\ moved' => CopySecrets("webhook_config")
<1> SUFFICES ASSUME MoveInv, [NextMigration]_moveVars, ~ moved, moved'
             PROVE  CopySecrets("webhook_config")
  OBVIOUS
<1>1. \A d : ~ Editing(d)
  BY DEF Editing
<1>2. \A d, fault : ~ Ending(d, fault)
  BY DEF Ending
<1>3. ASSUME NEW d, NEW next, Writing(d, next) PROVE next = NoRun
  BY <1>3 DEF Writing
<1>4. CASE CopySecrets("meta")
  <2>1. Moving /\ run.step = 1
    BY <1>4, StepsAre, RunFacts DEF CopySecrets, AtStep
  <2>2. Following = Over /\ Over.step = 2
    BY <2>1, StepsAre, RunGoesOn DEF Following, Over
  <2>3. Following = NoRun
    BY <1>3, <1>4 DEF CopySecrets
  <2> QED BY <2>2, <2>3 DEF NoRun
<1>5. ASSUME NEW t \in Tables, CopyRows(t) PROVE FALSE
  <2>1. Moving /\ run.step \in 1 .. 5
    BY <1>5, StepsAre, RunFacts DEF CopyRows, AtStep
  <2>2. Following = Over /\ Over.step # 0 /\ Fixing.step # 0
    BY <2>1, StepsAre, RunGoesOn DEF Following, Over
  <2>3. Following = NoRun \/ Fixing = NoRun
    BY <1>3, <1>5 DEF CopyRows, Fixing
  <2> QED BY <2>2, <2>3 DEF NoRun
<1>6. CASE FixPostgresIdentitySequence
  <2>1. run.step \in 1 .. 5 /\ run.fixing
    BY <1>6 DEF FixPostgresIdentitySequence, MoveInv, MoveShape
  <2>2. Following = Over /\ Fixed.step # 0
    BY <2>1, StepsAre, RunGoesOn DEF Following, Over
  <2>3. Fixed = NoRun
    BY <1>3, <1>6, <2>2 DEF FixPostgresIdentitySequence, Fixed
  <2> QED BY <2>2, <2>3 DEF NoRun
<1>7. \A dialect : ~ OpenTarget(dialect)
  BY DEF OpenTarget
<1>8. \A d, k : ~ Start(d, k)
  BY DEF Start
<1>9. ~ UNCHANGED moveVars
  BY DEF moveVars
<1>10. ~ (\/ AddCertificate \/ AddSource \/ SetMeta
          \/ \E v \in {1, 2} : CreateAPIKey(v)
          \/ \E t \in Numbered, i \in Ids : Remove(t, i)
          \/ \E i \in Ids : SyncStores(i)
          \/ \E s \in Secrets : SetSecretMeta(s))
  BY <1>1 DEF AddCertificate, AddSource, CreateAPIKey, SetMeta, Insert, Remove, SyncStores,
              SetSecretMeta
<1>11. \A step : ~ CopySecretsFails(step)
  BY <1>2 DEF CopySecretsFails
<1>12. (\A t : ~ CopyRowsFails(t)) /\ ~ FixFails
  BY <1>2 DEF CopyRowsFails, FixFails
<1> QED BY <1>4, <1>5, <1>6, <1>7, <1>8, <1>9, <1>10, <1>11, <1>12 DEF NextMigration

LEMMA LastStepCompletes ==
  ASSUME MoveInv, CopySecrets("webhook_config"), clean, run.alone
  PROVE  /\ dbs'["new"].setting = dbs["old"].setting
         /\ \A s \in Secrets : dbs'["new"].secret[s].val = dbs["old"].secret[s].val
         /\ \A t \in Tables : Present(dbs'["new"], t) = Present(dbs["old"], t)
         /\ \A t \in Tables \ {"api_keys"} : dbs'["new"].rows[t] = dbs["old"].rows[t]
<1> DEFINE o == dbs["old"]
           b == dbs["new"]
           T == SecretsOf("webhook_config") \cap Secrets
           d == Stored(T, FALSE)
<1>1. Moving /\ ~ run.fixing /\ run.step = 6
  BY StepsAre, RunFacts DEF CopySecrets, AtStep
<1>2. Stored(SecretsOf("webhook_config"), "webhook_config" = "meta") = d
  BY DEF Stored
<1>3. Writing(d, Following)
  BY <1>2 DEF CopySecrets
<1>4. /\ d \in Database /\ d.rows = b.rows
      /\ \A s \in Secrets : d.secret[s].by = 0
      /\ \A s \in T : d.secret[s].val = IF HasRow(s) THEN o.secret[s].val ELSE b.secret[s].val
      /\ \A s \in Secrets \ T : d.secret[s] = b.secret[s]
      /\ d.setting = b.setting
  BY <1>1, StoredIs
<1> HIDE DEF d
<1>5. dbs'["new"] = d
  BY <1>1, <1>3, <1>4, TargetWritten DEF Writing
<1>6. /\ b.setting = o.setting
      /\ \A s \in InMeta : b.secret[s].val = o.secret[s].val
      /\ \A t \in Tables : Done(t) =>
           b.rows[t] = [i \in Ids |-> IF o.rows[t][i] = 0 THEN 0 ELSE Value(t, o.rows[t][i])]
  BY <1>1 DEF MoveInv, SameSoFar
<1>7. \A t \in Tables : Done(t)
  BY <1>1, StepsAre DEF Done
<1>8. \A s \in Secrets : (s \in T /\ HasRow(s)) \/ (s \notin T /\ s \in InMeta)
  BY DEF SecretsOf, InMeta, HasRow
<1>9. \A s \in Secrets : d.secret[s].val = o.secret[s].val
  BY <1>4, <1>6, <1>8
<1>10. ASSUME NEW t \in Tables, NEW i \in Ids PROVE d.rows[t][i] # 0 <=> o.rows[t][i] # 0
  <2>1. b.rows[t] = [j \in Ids |-> IF o.rows[t][j] = 0 THEN 0 ELSE Value(t, o.rows[t][j])]
    BY <1>6, <1>7
  <2>2. d.rows[t][i] = IF o.rows[t][i] = 0 THEN 0 ELSE Value(t, o.rows[t][i])
    BY <1>4, <2>1
  <2> QED BY <2>2 DEF Value
<1>11. ASSUME NEW t \in Tables \ {"api_keys"} PROVE d.rows[t] = o.rows[t]
  <2>1. o.rows[t] \in [Ids -> Nat]
    BY <1>1, RunFacts DEF Database
  <2>2. d.rows[t] = [i \in Ids |-> IF o.rows[t][i] = 0 THEN 0 ELSE Value(t, o.rows[t][i])]
    BY <1>4, <1>6, <1>7
  <2>3. \A i \in Ids : Value(t, o.rows[t][i]) = o.rows[t][i]
    BY DEF Value
  <2> QED BY <2>1, <2>2, <2>3
<1>12. \A t \in Tables : Present(d, t) = Present(o, t)
  BY <1>10 DEF Present
<1> QED BY <1>4, <1>5, <1>6, <1>9, <1>11, <1>12

LEMMA MoveTypes == MoveInv => TypeOKMigration /\ FreshIds
<1> SUFFICES ASSUME MoveInv PROVE TypeOKMigration /\ FreshIds
  OBVIOUS
<1>1. live \in DOMAIN dbs /\ DOMAIN dbs \subseteq {"old", "new"} /\ run.step \in 0 .. Len(Steps)
  BY DatabasesAre, StepsAre DEF MoveInv, MoveShape
<1>2. \A d \in DOMAIN dbs : \A t \in Tables : dbs[d].next[t] \in 0 .. MaxId
  BY DEF MoveInv, MoveShape, Database
<1> QED BY <1>1, <1>2 DEF TypeOKMigration, MoveInv, NumbersFollow, FreshIds

\* A move to an empty database that ran alone and reported success is complete,
\* and a row that is added afterwards, on either database, has a new id
\* (MigrateConfigTo, copyTable, fixPostgresIdentitySequence).
THEOREM MovesWholeHolds == SpecMigration => MovesWhole
<1>1. MoveInv /\ [NextMigration]_moveVars =>
        [(~ moved /\ moved' /\ clean /\ run.alone) =>
           /\ dbs'["new"].setting = dbs["old"].setting
           /\ \A s \in Secrets : dbs'["new"].secret[s].val = dbs["old"].secret[s].val
           /\ \A t \in Tables : Present(dbs'["new"], t) = Present(dbs["old"], t)
           /\ \A t \in Tables \ {"api_keys"} : dbs'["new"].rows[t] = dbs["old"].rows[t]]_moveVars
  BY OnlyTheLastStepMoves, LastStepCompletes
<1> QED BY <1>1, MoveAtFirst, MoveNext, MoveTypes, PTL DEF SpecMigration, MovesWhole, CopiedExactly

\* The first start on the target reads every secret, whatever key files the two
\* processes were given, and a process that serves with a key leaves none of
\* them open in its database (EnableSecretEncryption, migrateSecrets).
THEOREM SecretsStayReadableHolds == SpecMigration => SecretsStayReadable
<1>1. MoveInv /\ [NextMigration]_moveVars =>
        [(live = "old" /\ live' = "new") =>
           \A s \in Secrets : OpenSecret(dbs'["new"].secret[s], keyFile')]_moveVars
  <2> SUFFICES ASSUME MoveInv, [NextMigration]_moveVars, live = "old", live' = "new",
                      NEW s \in Secrets
               PROVE  OpenSecret(dbs'["new"].secret[s], keyFile')
    OBVIOUS
  <2>1. PICK d \in {"old", "new"}, k \in KeyFiles \cup {0} : Start(d, k)
    <3>1. live' # live
      OBVIOUS
    <3>2. /\ \A d : ~ Editing(d)
          /\ \A d, fault : ~ Ending(d, fault)
          /\ \A d, next : ~ Writing(d, next)
      BY <3>1 DEF Editing, Ending, Writing
    <3>3. ~ (\/ AddCertificate \/ AddSource \/ SetMeta
             \/ \E v \in {1, 2} : CreateAPIKey(v)
             \/ \E t \in Numbered, i \in Ids : Remove(t, i)
             \/ \E i \in Ids : SyncStores(i)
             \/ \E z \in Secrets : SetSecretMeta(z))
      BY <3>2 DEF AddCertificate, AddSource, CreateAPIKey, SetMeta, Insert, Remove, SyncStores,
                  SetSecretMeta
    <3>4. \A dialect : ~ OpenTarget(dialect)
      BY <3>1 DEF OpenTarget
    <3>5. \A step : ~ CopySecrets(step) /\ ~ CopySecretsFails(step)
      BY <3>2 DEF CopySecrets, CopySecretsFails
    <3>6. \A t : ~ CopyRows(t) /\ ~ CopyRowsFails(t)
      BY <3>2 DEF CopyRows, CopyRowsFails
    <3>7. ~ FixPostgresIdentitySequence /\ ~ FixFails
      BY <3>2 DEF FixPostgresIdentitySequence, FixFails
    <3>8. ~ UNCHANGED moveVars
      BY <3>1 DEF moveVars
    <3> QED BY <3>3, <3>4, <3>5, <3>6, <3>7, <3>8 DEF NextMigration
  <2>2. d = "new" /\ keyFile' = k /\ d \in DOMAIN dbs
    BY <2>1, StartIs
  <2>3. PICK S \in SUBSET Secrets : StartsOn(d, k, S)
    BY <2>1, StartIs
  <2>4. dbs["new"].secret[s].by = 0 /\ dbs["new"].secret[s] \in Secret
    BY <2>2, <2>3 DEF MoveInv, OpenInTarget, Opened, StartsOn
  <2>5. CASE s \in S
    BY <2>2, <2>3, <2>4, <2>5, UpgradedIs DEF StartsOn
  <2>6. CASE s \notin S
    BY <2>2, <2>3, <2>4, <2>6 DEF StartsOn, OpenSecret
  <2> QED BY <2>5, <2>6
<1>2. MoveInv => SealedAtRest
  BY DEF MoveInv
<1> QED BY <1>1, <1>2, MoveAtFirst, MoveNext, PTL
        DEF SpecMigration, SecretsStayReadable, SwitchedSecretsOpen
=============================================================================
