----------------------------- MODULE Migrations -----------------------------
(***************************************************************************)
(* The migration runner, scripts/migrate.ts: any number of deployments,    *)
(* of one release or of different ones, run it against one database, and   *)
(* each may stop or lose its connection between any two statements.        *)
(*                                                                         *)
(* A name stands for its place in the order that sort() gives the file     *)
(* names.  What a transaction has not committed nobody else sees, and a    *)
(* connection that ends takes its transaction and its advisory lock along. *)
(***************************************************************************)
EXTENDS Naturals, Sequences, FiniteSets

CONSTANTS
  Runners,   \* executions of the script
  Names,     \* file names, by their place in the order
  Texts,     \* what a file can say, line ends aside
  Null       \* no such file, no such row, nobody

ASSUME NamesAssumption == Names \subseteq Nat

File == [text : Texts, crlf : BOOLEAN]

ASSUME MigrationNullAssumption == Null \notin Texts /\ Null \notin Runners /\ Null \notin File

VARIABLES
  directory,    \* the migrations/ directory of each runner's release
  runners,      \* where each runner is, and the files it still has to visit
  lockHolder,   \* pg_advisory_lock(hashtext('lf_auth_migrations'))
  recorded,     \* schema_migrations: the checksum under each filename
  schema        \* observation: the scripts whose effects were committed

migVars == <<directory, runners, lockHolder, recorded, schema>>

\* Mutant: the line ends are hashed as they are on disk.
Checksum_OfBytes(file) == file

\* CRLF becomes LF; SHA-256 is injective, so it stands for what it hashes.
Checksum(file) == [file EXCEPT !.crlf = FALSE]

FilesOf(r) == {n \in Names : directory[r][n] # Null}

\* Mutant: the files come in the order of the directory.
Visits_Unsorted(r, n) == n \in runners[r].todo

\* The file the loop visits next.
Visits(r, n) == n \in runners[r].todo /\ \A m \in runners[r].todo : n <= m

Goes(r, place) == runners' = [runners EXCEPT ![r].at = place]

\* Mutant: the unlock is skipped and the client stays in the pool.
Leaves_KeepsLock(r, place) == Goes(r, place) /\ UNCHANGED lockHolder

\* Mutant: the lock is cleared to something that is nobody.
Leaves_Flag(r, place) ==
  /\ Goes(r, place)
  /\ lockHolder' = IF lockHolder = r THEN FALSE ELSE lockHolder

\* The connection ends: by release and pool.end, or with the process.
Leaves(r, place) ==
  /\ Goes(r, place)
  /\ lockHolder' = IF lockHolder = r THEN Null ELSE lockHolder

----------------------------------------------------------------------------

\* Mutant: there is no advisory lock.
TakeLock_Unlocked(r) ==
  /\ runners[r].at = "waiting"
  /\ lockHolder' = r
  /\ runners' = [runners EXCEPT ![r] = [at |-> "visiting", todo |-> FilesOf(r)]]
  /\ UNCHANGED <<directory, recorded, schema>>

\* The lock, CREATE TABLE IF NOT EXISTS, and the list of files.
TakeLock(r) ==
  /\ runners[r].at = "waiting"
  /\ lockHolder = Null
  /\ lockHolder' = r
  /\ runners' = [runners EXCEPT ![r] = [at |-> "visiting", todo |-> FilesOf(r)]]
  /\ UNCHANGED <<directory, recorded, schema>>

SkipApplied(r, n) ==
  /\ runners[r].at = "visiting"
  /\ Visits(r, n)
  /\ recorded[n] = Checksum(directory[r][n])
  /\ runners' = [runners EXCEPT ![r].todo = @ \ {n}]
  /\ UNCHANGED <<directory, lockHolder, recorded, schema>>

\* "Applied migration was modified"
RejectModified(r, n) ==
  /\ runners[r].at = "visiting"
  /\ Visits(r, n)
  /\ recorded[n] \notin {Null, Checksum(directory[r][n])}
  /\ Leaves(r, "modified")
  /\ UNCHANGED <<directory, recorded, schema>>

\* The SELECT finds no row; BEGIN, and the script.
RunScript(r, n) ==
  /\ runners[r].at = "visiting"
  /\ Visits(r, n)
  /\ recorded[n] = Null
  /\ Goes(r, "ran")
  /\ UNCHANGED <<directory, lockHolder, recorded, schema>>

\* INSERT, which the primary key allows once.
InsertRow(r, n) ==
  /\ runners[r].at = "ran"
  /\ Visits(r, n)
  /\ recorded[n] = Null
  /\ Goes(r, "inserted")
  /\ UNCHANGED <<directory, lockHolder, recorded, schema>>

\* Mutant: the row is not part of the script's transaction.
Committed_Script(r, n) ==
  /\ schema' = Append(schema, [name |-> n, text |-> directory[r][n].text])
  /\ UNCHANGED recorded

Committed(r, n) ==
  /\ schema' = Append(schema, [name |-> n, text |-> directory[r][n].text])
  /\ recorded' = [recorded EXCEPT ![n] = Checksum(directory[r][n])]

Commit(r, n) ==
  /\ runners[r].at = "inserted"
  /\ Visits(r, n)
  /\ Committed(r, n)
  /\ runners' = [runners EXCEPT ![r] = [at |-> "visiting", todo |-> @.todo \ {n}]]
  /\ UNCHANGED <<directory, lockHolder>>

\* The database commits and the connection or the process is lost before the
\* runner knows.
CommitUnseen(r, n) ==
  /\ runners[r].at = "inserted"
  /\ Visits(r, n)
  /\ Committed(r, n)
  /\ Leaves(r, "failed")
  /\ UNCHANGED directory

Finish(r) ==
  /\ runners[r].at = "visiting"
  /\ runners[r].todo = {}
  /\ Leaves(r, "succeeded")
  /\ UNCHANGED <<directory, recorded, schema>>

\* An error in a statement or the end of the process: ROLLBACK, by the code
\* or by the database, and the lock goes in any case.
Stop(r) ==
  /\ runners[r].at \in {"waiting", "visiting", "ran", "inserted"}
  /\ Leaves(r, "failed")
  /\ UNCHANGED <<directory, recorded, schema>>

----------------------------------------------------------------------------

MigInit ==
  /\ directory \in [Runners -> [Names -> File \cup {Null}]]
  /\ runners = [r \in Runners |-> [at |-> "waiting", todo |-> {}]]
  /\ lockHolder = Null
  /\ recorded = [n \in Names |-> Null]
  /\ schema = <<>>

\* What the script does as long as nothing goes wrong around it.
Proceeds(r) ==
  \/ TakeLock(r)
  \/ \E n \in Names :
       \/ SkipApplied(r, n)
       \/ RejectModified(r, n)
       \/ RunScript(r, n)
       \/ InsertRow(r, n)
       \/ Commit(r, n)
  \/ Finish(r)

MigNext ==
  \E r \in Runners :
    \/ Proceeds(r)
    \/ \E n \in Names : CommitUnseen(r, n)
    \/ Stop(r)

MigSpec == MigInit /\ [][MigNext]_migVars

\* PostgreSQL hands a lock to the waiters in their order, and a run that is
\* not interrupted executes its next statement.
FairMigSpec == MigSpec /\ \A r \in Runners : SF_migVars(Proceeds(r))

----------------------------------------------------------------------------
(* Properties *)

Places == {"waiting", "visiting", "ran", "inserted", "succeeded", "modified", "failed"}

\* Every variable has its type.
MigTypeOK ==
  /\ directory \in [Runners -> [Names -> File \cup {Null}]]
  /\ runners \in [Runners -> [at : Places, todo : SUBSET Names]]
  /\ lockHolder \in Runners \cup {Null}
  /\ recorded \in [Names -> File \cup {Null}]
  /\ schema \in Seq([name : Names, text : Texts])

\* However runs overlap, fail or stop, the rows of schema_migrations say
\* exactly which scripts the database has gone through, each once.
RecordIsSchema ==
  /\ \A n \in Names : recorded[n] # Null <=> \E i \in DOMAIN schema : schema[i].name = n
  /\ \A i \in DOMAIN schema : recorded[schema[i].name].text = schema[i].text
  /\ \A i, j \in DOMAIN schema : schema[i].name = schema[j].name => i = j

\* Two deployments at once do not make each other fail: nobody else records
\* the file whose script a run has executed.
RunsDoNotCollide ==
  \A r \in Runners, n \in Names :
    runners[r].at \in {"ran", "inserted"} /\ Visits(r, n) => recorded[n] = Null

\* A run complains of a modified migration only when the release says
\* something else than the script that was applied, line ends aside.
ModifiedMeansChanged ==
  \A r \in Runners : runners[r].at = "modified" =>
    \E n \in FilesOf(r), i \in DOMAIN schema :
      schema[i].name = n /\ schema[i].text # directory[r][n].text

Wanted == [r \in Runners |->
             [n \in Names |-> IF directory[r][n] = Null THEN Null ELSE directory[r][n].text]]

Outcome == [r \in Runners |->
              IF runners[r].at = "succeeded" THEN "succeeded"
              ELSE IF runners[r].at \in {"modified", "failed"} THEN "failed"
              ELSE "running"]

Log == INSTANCE MigrationLog WITH log <- schema, wanted <- Wanted, outcome <- Outcome

\* The runner keeps the promise of MigrationLog: scripts enter in the order
\* of their release, and a run that succeeds leaves its whole release in the
\* database even when other releases migrate at the same time.
ImplementsLog == Log!LogSpec

\* Every run ends: nobody waits for a lock that is never given up.
EveryRunEnds == Log!RunsEnd

=============================================================================
