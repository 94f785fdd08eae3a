------------------------------ MODULE Migration ------------------------------
(***************************************************************************)
(* A move of the configuration to another database: the admin's handlers   *)
(* that change the live one, MigrateConfigTo that copies it table by table *)
(* without a transaction, the restart that switches to the target, the     *)
(* identity columns that number new rows there, and the secrets, which are *)
(* sealed under the key file of the process, if it has one.                *)
(*                                                                         *)
(* A table is a function from ids to values, 0 where there is no row.      *)
(* Three tables stand for all: "certificates" for those whose rows concern *)
(* nobody else, and the sources of threat intelligence with their          *)
(* addresses, which name a source by its id.                               *)
(***************************************************************************)
EXTENDS Integers, FiniteSets, Sequences

CONSTANTS
  Secrets,        \* values sealed at rest: rows of meta, the webhook's secret
  KeyFiles,       \* keys a process may be started with, positive numbers
  MaxId,          \* bound: ids
  MaxEdits,       \* bound: changes by the admin
  MaxRuns,        \* bound: runs of the migration
  MaxStarts,      \* bound: starts of the process
  MaxMoveFaults   \* bound: failing statements

ASSUME MigrationAssumption == MaxId \in Nat

VARIABLES
  dbs,      \* the old and the new database
  live,     \* which of them the process has open
  up,       \* whether the process serves
  keyFile,  \* its key, 0 for none
  run,      \* the migration: its next step and its history
  clean,    \* history: the target was empty when the last run came to it
  moved,    \* history: the last run reported success
  collided, \* history: a new row was refused because its id was taken
  edits, runs, startups, moveFaults \* history: how many

moveVars == <<dbs, live, up, keyFile, run, clean, moved, collided, edits, runs,
              startups, moveFaults>>

Ids == 1 .. MaxId
Tables == {"certificates", "api_keys", "threat_intel_sources", "threat_intel_ips"}

\* Mutant: the sources are not numbered on after a move.
NumberedButSources == Tables \ {"threat_intel_sources", "threat_intel_ips"}

\* hasIdentitySeq.
Numbered == Tables \ {"threat_intel_ips"}

Steps == <<"meta", "certificates", "api_keys", "threat_intel_sources",
           "threat_intel_ips", "webhook_config">>

NoRows == [i \in Ids |-> 0]
Unset == [val |-> 0, by |-> 0]
NoRun == [step |-> 0, fixing |-> FALSE, alone |-> FALSE]

\* OpenWithDriver creates the tables.
Empty(dialect) ==
  [dialect |-> dialect, setting |-> 0, secret |-> [s \in Secrets |-> Unset],
   rows |-> [t \in Tables |-> NoRows], next |-> [t \in Tables |-> 0]]

Present(d, t) == {i \in Ids : d.rows[t][i] # 0}

Highest(S) == CHOOSE i \in S : \A j \in S : j <= i

\* -- Secrets ---------------------------------------------------------------

\* sealSecret, openSecret: a value that is not sealed is read as it is.
SealSecret(s, k) == IF k = 0 \/ s.val = 0 THEN s ELSE [s EXCEPT !.by = k]

OpenSecret(s, k) == s.by \in {0, k}

\* migrateSecrets leaves a sealed value alone.
Upgraded(s, k) == IF s.by # 0 THEN s ELSE SealSecret(s, k)

\* -- Changes by the admin --------------------------------------------------

Editing(d) ==
  /\ up /\ edits < MaxEdits /\ edits' = edits + 1
  /\ dbs' = [dbs EXCEPT ![live] = d]
  /\ run' = [run EXCEPT !.alone = FALSE]
  /\ UNCHANGED <<live, up, keyFile, clean, moved, runs, startups, moveFaults>>

\* insertReturningID: the table's counter gives the id, taken or not.
Insert(t, v) ==
  LET d == dbs[live]
      i == d.next[t] + 1
  IN /\ i \in Ids
     /\ collided' = (collided \/ d.rows[t][i] # 0)
     /\ Editing([d EXCEPT !.next[t] = i,
                          !.rows[t][i] = IF @ # 0 THEN @ ELSE v])

AddCertificate == Insert("certificates", 1)

\* A key for reading only is 2, any other 1.
CreateAPIKey(v) == Insert("api_keys", v)

\* Every source has a list of its own.
AddSource == Insert("threat_intel_sources", edits + 1)

Remove(t, i) ==
  /\ i \in Present(dbs[live], t)
  /\ Editing([dbs[live] EXCEPT !.rows[t][i] = 0])
  /\ UNCHANGED collided

\* ReplaceThreatIntelIPs.
SyncStores(i) ==
  /\ i \in Present(dbs[live], "threat_intel_sources")
  /\ Editing([dbs[live] EXCEPT !.rows["threat_intel_ips"][i] =
                dbs[live].rows["threat_intel_sources"][i]])
  /\ UNCHANGED collided

SetMeta == Editing([dbs[live] EXCEPT !.setting = edits + 1]) /\ UNCHANGED collided

SetSecretMeta(s) ==
  /\ Editing([dbs[live] EXCEPT !.secret[s] = SealSecret([val |-> edits + 1, by |-> 0], keyFile)])
  /\ UNCHANGED collided

\* -- MigrateConfigTo -------------------------------------------------------

Moving == run.step # 0
AtStep(step) == Moving /\ ~ run.fixing /\ Steps[run.step] = step

Opened == "new" \in DOMAIN dbs

OpenTarget(dialect) ==
  /\ up /\ live = "old" /\ ~ Moving /\ runs < MaxRuns /\ runs' = runs + 1
  /\ Opened => dbs["new"].dialect = dialect
  /\ dbs' = IF Opened THEN dbs ELSE [d \in {"old", "new"} |->
              IF d = "old" THEN dbs["old"] ELSE Empty(dialect)]
  /\ run' = [step |-> 1, fixing |-> FALSE, alone |-> TRUE]
  /\ clean' = ~ Opened /\ moved' = FALSE
  /\ UNCHANGED <<live, up, keyFile, collided, edits, startups, moveFaults>>

Writing(d, next) ==
  /\ dbs' = [dbs EXCEPT !["new"] = d]
  /\ run' = next
  /\ moved' = (next = NoRun)
  /\ UNCHANGED <<live, up, keyFile, clean, collided, edits, runs, startups, moveFaults>>

\* The run ends with an error; what was written stays.
Ending(d, fault) ==
  /\ dbs' = [dbs EXCEPT !["new"] = d]
  /\ run' = NoRun
  /\ fault => moveFaults < MaxMoveFaults
  /\ moveFaults' = IF fault THEN moveFaults + 1 ELSE moveFaults
  /\ UNCHANGED <<live, up, keyFile, clean, moved, collided, edits, runs, startups>>

Following == IF run.step = Len(Steps) THEN NoRun ELSE [run EXCEPT !.step = @ + 1]

\* Mutant: a secret is copied as it is stored.
CopiedSealed(s) == dbs["old"].secret[s]

\* The target has no key: a secret is opened and stored as it is.
Resealed(s) == [val |-> dbs["old"].secret[s].val, by |-> 0]

Hook == CHOOSE s \in Secrets : TRUE
InMeta == Secrets \ {Hook}

\* The table meta has no row of what was never set; the webhook's row is always
\* there.
HasRow(s) == s = Hook \/ dbs["old"].secret[s].val # 0

\* The secrets of S, and for the table meta the settings as well: an upsert of
\* the rows there are.
Stored(S, settings) ==
  [dbs["new"] EXCEPT
     !.secret = [s \in Secrets |-> IF s \in S /\ HasRow(s) THEN Resealed(s) ELSE @[s]],
     !.setting = IF settings /\ dbs["old"].setting # 0 THEN dbs["old"].setting ELSE @]

Opens(S) == \A s \in S : OpenSecret(dbs["old"].secret[s], keyFile)

SecretsOf(step) == IF step = "meta" THEN InMeta ELSE {Hook}

CopySecrets(step) ==
  /\ AtStep(step) /\ Opens(SecretsOf(step))
  /\ Writing(Stored(SecretsOf(step), step = "meta"), Following)

\* A secret that does not open, or a statement that fails, after some rows.
CopySecretsFails(step) ==
  /\ AtStep(step)
  /\ \E S \in SUBSET SecretsOf(step), settings \in BOOLEAN :
       /\ Opens(S) /\ (settings => step = "meta")
       /\ Ending(Stored(S, settings), Opens(SecretsOf(step)))

\* Rows with their ids; only Postgres does not count them.
Inserted(t, S) ==
  LET d == dbs["new"]
  IN [d EXCEPT !.rows[t] = [i \in Ids |-> IF i \in S THEN dbs["old"].rows[t][i] ELSE @[i]],
               !.next[t] = IF d.dialect = "postgres" \/ S = {} THEN @
                           ELSE Highest(S \cup {@})]

Here == Present(dbs["old"], Steps[run.step])
Taken == Present(dbs["new"], Steps[run.step])

\* A key is copied without its read_only column.
Value(t, v) == IF t = "api_keys" THEN 1 ELSE v

Copied(t, S) ==
  [Inserted(t, S) EXCEPT !.rows[t] = [i \in Ids |-> IF i \in S THEN Value(t, @[i]) ELSE @[i]]]

CopyRows(t) ==
  /\ AtStep(t) /\ Here \cap Taken = {}
  /\ Writing(Copied(t, Here),
             IF dbs["new"].dialect = "postgres" /\ t \in Numbered /\ Here # {}
             THEN [run EXCEPT !.fixing = TRUE] ELSE Following)

\* A duplicate key, or a statement that fails, after some rows.
CopyRowsFails(t) ==
  /\ AtStep(t)
  /\ \E S \in SUBSET (Here \ Taken) : Ending(Copied(t, S), Here \cap Taken = {})

FixPostgresIdentitySequence ==
  /\ run.fixing
  /\ LET t == Steps[run.step]
     IN Writing([dbs["new"] EXCEPT !.next[t] = Highest(Taken)],
                [Following EXCEPT !.fixing = FALSE])

FixFails == run.fixing /\ Ending(dbs["new"], TRUE)

\* -- Starts ----------------------------------------------------------------

\* EnableSecretEncryption, one secret after the other; a process that ends in
\* the middle seals the rest at its next start.
Start(d, k) ==
  /\ startups < MaxStarts /\ startups' = startups + 1
  /\ d = live \/ (d = "new" /\ moved)
  /\ live' = d /\ keyFile' = k
  /\ \E S \in SUBSET Secrets :
       /\ dbs' = [dbs EXCEPT ![d].secret = [s \in Secrets |->
                    IF s \in S THEN Upgraded(@[s], k) ELSE @[s]]]
       /\ up' = (S = Secrets)
  /\ run' = NoRun
  /\ UNCHANGED <<clean, moved, collided, edits, runs, moveFaults>>

InitMigration ==
  /\ dbs = [d \in {"old"} |-> Empty("sqlite")] /\ live = "old"
  /\ up = TRUE /\ keyFile \in KeyFiles \cup {0}
  /\ run = NoRun /\ clean = FALSE /\ moved = FALSE /\ collided = FALSE
  /\ edits = 0 /\ runs = 0 /\ startups = 0 /\ moveFaults = 0

NextMigration ==
  \/ AddCertificate \/ AddSource \/ SetMeta
  \/ \E v \in {1, 2} : CreateAPIKey(v)
  \/ \E t \in Numbered, i \in Ids : Remove(t, i)
  \/ \E i \in Ids : SyncStores(i)
  \/ \E s \in Secrets : SetSecretMeta(s)
  \/ \E dialect \in {"sqlite", "postgres"} : OpenTarget(dialect)
  \/ \E step \in {"meta", "webhook_config"} : CopySecrets(step) \/ CopySecretsFails(step)
  \/ \E t \in Tables : CopyRows(t) \/ CopyRowsFails(t)
  \/ FixPostgresIdentitySequence \/ FixFails
  \/ \E d \in {"old", "new"}, k \in KeyFiles \cup {0} : Start(d, k)

SpecMigration == InitMigration /\ [][NextMigration]_moveVars

\* -- Properties ------------------------------------------------------------

TypeOKMigration ==
  /\ live \in DOMAIN dbs /\ DOMAIN dbs \subseteq {"old", "new"}
  /\ run.step \in 0 .. Len(Steps)
  /\ \A d \in DOMAIN dbs : \A t \in Tables : dbs[d].next[t] \in 0 .. MaxId

\* A run that came to an empty target, met no change of the configuration and
\* reported success has copied everything, whatever failed before and however
\* the secrets are sealed on either side.
CopiedExactly ==
  [][(~ moved /\ moved' /\ clean /\ run.alone) =>
       /\ dbs'["new"].setting = dbs["old"].setting
       /\ \A s \in Secrets : dbs'["new"].secret[s].val = dbs["old"].secret[s].val
       /\ \A t \in Tables : Present(dbs'["new"], t) = Present(dbs["old"], t)
       /\ \A t \in Tables \ {"api_keys"} : dbs'["new"].rows[t] = dbs["old"].rows[t]]_moveVars

\* No new row is refused for its id, before or after the switch, on a target
\* that was empty when it was filled.
FreshIds == clean => ~ collided

\* The first start on the target reads every secret, with any key file.
SwitchedSecretsOpen ==
  [][(live = "old" /\ live' = "new") =>
       \A s \in Secrets : OpenSecret(dbs'["new"].secret[s], keyFile')]_moveVars

\* A process that serves with a key has no secret lying open in its database.
SealedAtRest ==
  (up /\ keyFile # 0) => \A s \in Secrets : dbs[live].secret[s].val = 0 \/ dbs[live].secret[s].by # 0

\* ListThreatIntelIPs' comment: "returns all distinct IPs/CIDRs from enabled
\* sources": the addresses listed for a source were fetched from it.
ListedFromItsSource ==
  \A i \in Present(dbs[live], "threat_intel_sources") :
    dbs[live].rows["threat_intel_ips"][i] \in {0, dbs[live].rows["threat_intel_sources"][i]}

\* MigrateConfigTo's comment: the configuration is "everything that makes the
\* WAF behave the same on a new backend".
KeysKeepTheirScope ==
  [][(~ moved /\ moved' /\ clean /\ run.alone) =>
       dbs'["new"].rows["api_keys"] = dbs["old"].rows["api_keys"]]_moveVars

\* MigrateDBConfig's comment: a second run against a migrated target "fails on
\* duplicate keys rather than overwriting".
SecondRunKeeps ==
  [][(Moving /\ ~ clean /\ dbs["new"].setting # 0) =>
       dbs'["new"].setting = dbs["new"].setting]_moveVars
=============================================================================
