-------------------------- MODULE Migrations_proofs --------------------------
(***************************************************************************)
(* Proofs about Migrations, for any number of runs, releases and files.    *)
(***************************************************************************)
EXTENDS Migrations, WellFoundedInduction, TLAPS

RunnerState == [at : Places, todo : SUBSET Names]

Inside(r) == runners[r].at \in {"visiting", "ran", "inserted"}

\* The advisory lock is what keeps the loops apart.
Exclusive == \A r \in Runners : Inside(r) => lockHolder = r

\* What a run has passed by is in the table as its release has it.
Visited ==
  \A r \in Runners : Inside(r) =>
    /\ runners[r].todo \subseteq FilesOf(r)
    /\ \A n \in FilesOf(r) \ runners[r].todo : recorded[n] = Checksum(directory[r][n])

Normalized == \A n \in Names : recorded[n] # Null => recorded[n].crlf = FALSE

Inductive ==
  /\ MigTypeOK
  /\ RecordIsSchema
  /\ Normalized
  /\ Exclusive
  /\ Visited
  /\ RunsDoNotCollide
  /\ ModifiedMeansChanged

----------------------------------------------------------------------------
(* Shapes of steps *)

\* Only r moves.
Only(r) == \A s \in Runners \ {r} : runners'[s] = runners[s]

\* The database is as it was.
Quiet == directory' = directory /\ recorded' = recorded /\ schema' = schema

LEMMA GoesType ==
  ASSUME MigTypeOK, NEW r \in Runners, NEW place \in Places, Goes(r, place)
  PROVE  /\ runners' \in [Runners -> RunnerState]
         /\ runners'[r].at = place
         /\ runners'[r].todo = runners[r].todo
         /\ Only(r)
<1>1. runners[r] \in RunnerState
  BY DEF MigTypeOK, RunnerState
<1>2. [runners[r] EXCEPT !.at = place] \in RunnerState
  BY <1>1 DEF RunnerState
<1>3. /\ [runners[r] EXCEPT !.at = place].at = place
      /\ [runners[r] EXCEPT !.at = place].todo = runners[r].todo
  BY <1>1 DEF RunnerState
<1>4. runners \in [Runners -> RunnerState]
  BY DEF MigTypeOK, RunnerState
<1> QED
  BY <1>2, <1>3, <1>4 DEF Goes, Only

LEMMA SetType ==
  ASSUME MigTypeOK, NEW r \in Runners, NEW state \in RunnerState,
         runners' = [runners EXCEPT ![r] = state]
  PROVE  /\ runners' \in [Runners -> RunnerState]
         /\ runners'[r] = state
         /\ Only(r)
BY DEF MigTypeOK, RunnerState, Only

\* A step that leaves the database alone and moves one run, inside only if
\* it was inside before.
LEMMA QuietStep ==
  ASSUME Inductive, NEW r \in Runners, Quiet, Only(r),
         runners' \in [Runners -> RunnerState],
         lockHolder' \in Runners \cup {Null},
         \A s \in Runners \ {r} : lockHolder = s => lockHolder' = s,
         Inside(r)' => lockHolder' = r,
         Inside(r)' => /\ runners'[r].todo \subseteq FilesOf(r)
                       /\ \A n \in FilesOf(r) \ runners'[r].todo :
                            recorded[n] = Checksum(directory[r][n]),
         runners'[r].at \in {"ran", "inserted"} =>
           \A n \in Names : Visits(r, n)' => recorded[n] = Null,
         runners'[r].at = "modified" =>
           \E n \in FilesOf(r), i \in DOMAIN schema :
             schema[i].name = n /\ schema[i].text # directory[r][n].text
  PROVE  Inductive'
<1>1. MigTypeOK'
  BY DEF Inductive, MigTypeOK, Quiet, RunnerState
<1>2. RecordIsSchema' /\ Normalized'
  BY DEF Inductive, RecordIsSchema, Normalized, Quiet
<1>3. \A s \in Runners : FilesOf(s)' = FilesOf(s)
  BY DEF FilesOf, Quiet
<1>4. Exclusive'
  BY DEF Inductive, Exclusive, Inside, Only
<1>5. Visited'
  BY <1>3 DEF Inductive, Visited, Inside, Only, Quiet, Checksum
<1>6. RunsDoNotCollide'
  BY DEF Inductive, RunsDoNotCollide, Visits, Only, Quiet
<1>7. ModifiedMeansChanged'
  BY <1>3 DEF Inductive, ModifiedMeansChanged, Only, Quiet
<1> QED
  BY <1>1, <1>2, <1>4, <1>5, <1>6, <1>7 DEF Inductive

\* A run whose connection ends.
LEMMA LeavesStep ==
  ASSUME Inductive, NEW r \in Runners, NEW place \in {"succeeded", "modified", "failed"},
         Leaves(r, place), Quiet,
         place = "modified" =>
           \E n \in FilesOf(r), i \in DOMAIN schema :
             schema[i].name = n /\ schema[i].text # directory[r][n].text
  PROVE  Inductive'
<1>1. MigTypeOK /\ Goes(r, place) /\ place \in Places
  BY DEF Inductive, Leaves, Places
<1>2. /\ runners' \in [Runners -> RunnerState]
      /\ runners'[r].at = place
      /\ Only(r)
  BY <1>1, GoesType
<1>3. lockHolder' \in Runners \cup {Null}
  BY <1>1 DEF Leaves, MigTypeOK
<1>4. \A s \in Runners \ {r} : lockHolder = s => lockHolder' = s
  BY DEF Leaves
<1>5. ~Inside(r)' /\ runners'[r].at \notin {"ran", "inserted"}
  BY <1>2 DEF Inside
<1> QED
  BY <1>2, <1>3, <1>4, <1>5, QuietStep

----------------------------------------------------------------------------
(* The COMMIT *)

LEMMA SeqElement ==
  ASSUME NEW S, NEW seq \in Seq(S), NEW i \in DOMAIN seq
  PROVE  seq[i] \in S
OBVIOUS

LEMMA AppendFacts ==
  ASSUME NEW S, NEW seq \in Seq(S), NEW x \in S
  PROVE  /\ Append(seq, x) \in Seq(S)
         /\ DOMAIN seq = 1 .. Len(seq) /\ Len(seq) \in Nat
         /\ \A i \in DOMAIN seq : seq[i] \in S
         /\ DOMAIN Append(seq, x) = 1 .. (Len(seq) + 1)
         /\ \A i \in DOMAIN seq : Append(seq, x)[i] = seq[i]
         /\ Append(seq, x)[Len(seq) + 1] = x
OBVIOUS

LEMMA ChecksumFacts ==
  ASSUME NEW file \in File
  PROVE  /\ Checksum(file) \in File
         /\ Checksum(file).text = file.text
         /\ Checksum(file).crlf = FALSE
         /\ Checksum(file) # Null
BY MigrationNullAssumption DEF Checksum, File

\* The row and the effects of a script that was not recorded arrive together.
LEMMA CommittedStep ==
  ASSUME Inductive, NEW r \in Runners, NEW n \in Names,
         directory[r][n] \in File, recorded[n] = Null, Committed(r, n)
  PROVE  /\ recorded' \in [Names -> File \cup {Null}]
         /\ schema' \in Seq([name : Names, text : Texts])
         /\ recorded'[n] = Checksum(directory[r][n])
         /\ \A m \in Names \ {n} : recorded'[m] = recorded[m]
         /\ DOMAIN schema \subseteq DOMAIN schema'
         /\ \A i \in DOMAIN schema : schema'[i] = schema[i]
         /\ RecordIsSchema'
         /\ Normalized'
<1> DEFINE entry == [name |-> n, text |-> directory[r][n].text]
           last == Len(schema) + 1
           Entries == [name : Names, text : Texts]
<1>1. entry \in Entries /\ entry.name = n
  BY DEF File
<1>2. schema \in Seq(Entries)
  BY DEF Inductive, MigTypeOK
<1>3. schema' = Append(schema, entry)
  BY DEF Committed
<1> HIDE DEF entry, Entries
<1>4. /\ schema' \in Seq(Entries)
      /\ DOMAIN schema = 1 .. Len(schema) /\ Len(schema) \in Nat
      /\ \A i \in DOMAIN schema : schema[i] \in Entries
      /\ DOMAIN schema' = 1 .. last
      /\ \A i \in DOMAIN schema : schema'[i] = schema[i]
      /\ schema'[last] = entry
  BY <1>1, <1>2, <1>3, AppendFacts
<1>5. DOMAIN schema' = DOMAIN schema \cup {last} /\ last \notin DOMAIN schema
  BY <1>4
<1> HIDE DEF last
<1>6. /\ recorded' \in [Names -> File \cup {Null}]
      /\ recorded'[n] = Checksum(directory[r][n])
      /\ \A m \in Names \ {n} : recorded'[m] = recorded[m]
  BY ChecksumFacts DEF Committed, Inductive, MigTypeOK
<1>7. \A i \in DOMAIN schema : schema[i].name # n
  BY DEF Inductive, RecordIsSchema
<1>8. \A i \in DOMAIN schema : schema[i].name \in Names
  BY <1>4 DEF Entries
<1>9. entry.text = directory[r][n].text
  BY DEF entry
<1>10. Checksum(directory[r][n]).text = entry.text /\ Checksum(directory[r][n]) # Null
  BY <1>9, ChecksumFacts
<1>11. RecordIsSchema'
  <2>1. \A m \in Names : recorded'[m] # Null <=> \E i \in DOMAIN schema' : schema'[i].name = m
    <3>1. ASSUME NEW m \in Names, m # n
          PROVE  recorded'[m] # Null <=> \E i \in DOMAIN schema' : schema'[i].name = m
      <4>1. recorded[m] # Null <=> \E i \in DOMAIN schema : schema[i].name = m
        BY DEF Inductive, RecordIsSchema
      <4>2. recorded'[m] = recorded[m]
        BY <1>6, <3>1
      <4>3. (\E i \in DOMAIN schema' : schema'[i].name = m)
              <=> \E i \in DOMAIN schema : schema[i].name = m
        BY <1>1, <1>4, <1>5, <3>1
      <4> QED
        BY <4>1, <4>2, <4>3
    <3>2. recorded'[n] # Null /\ \E i \in DOMAIN schema' : schema'[i].name = n
      BY <1>1, <1>4, <1>5, <1>6, <1>10
    <3> QED
      BY <3>1, <3>2
  <2>2. \A i \in DOMAIN schema' : recorded'[schema'[i].name].text = schema'[i].text
    <3>1. recorded'[schema'[last].name].text = schema'[last].text
      BY <1>1, <1>4, <1>6, <1>10
    <3>2. ASSUME NEW i \in DOMAIN schema
          PROVE  recorded'[schema'[i].name].text = schema'[i].text
      <4>1. recorded[schema[i].name].text = schema[i].text
        BY DEF Inductive, RecordIsSchema
      <4> QED
        BY <1>4, <1>6, <1>7, <1>8, <4>1
    <3> QED
      BY <1>5, <3>1, <3>2
  <2>3. \A i, j \in DOMAIN schema' : schema'[i].name = schema'[j].name => i = j
    <3>1. \A i, j \in DOMAIN schema : schema[i].name = schema[j].name => i = j
      BY DEF Inductive, RecordIsSchema
    <3> QED
      BY <1>1, <1>4, <1>5, <1>7, <3>1
  <2> QED
    BY <2>1, <2>2, <2>3 DEF RecordIsSchema
<1>12. Normalized'
  <2>1. recorded'[n].crlf = FALSE
    BY <1>6, ChecksumFacts
  <2>2. \A m \in Names \ {n} : recorded'[m] # Null => recorded'[m].crlf = FALSE
    BY <1>6 DEF Inductive, Normalized
  <2> QED
    BY <2>1, <2>2 DEF Normalized
<1> QED
  BY <1>4, <1>5, <1>6, <1>11, <1>12 DEF Entries

\* What holds where a run is about to commit.
LEMMA AtCommit ==
  ASSUME Inductive, NEW r \in Runners, NEW n \in Names,
         runners[r].at = "inserted", Visits(r, n)
  PROVE  /\ MigTypeOK
         /\ Inside(r)
         /\ n \in runners[r].todo
         /\ directory[r][n] \in File
         /\ recorded[n] = Null
         /\ \A s \in Runners \ {r} : ~Inside(s)
<1>1. Inside(r)
  BY DEF Inside
<1>2. n \in runners[r].todo
  BY DEF Visits
<1>3. n \in FilesOf(r)
  BY <1>1, <1>2 DEF Inductive, Visited
<1>4. directory[r][n] \in File
  BY <1>3 DEF FilesOf, Inductive, MigTypeOK
<1>5. recorded[n] = Null
  BY DEF Inductive, RunsDoNotCollide
<1>6. \A s \in Runners \ {r} : ~Inside(s)
  BY <1>1 DEF Inductive, Exclusive
<1> QED
  BY <1>1, <1>2, <1>4, <1>5, <1>6 DEF Inductive

\* What a commit does to the invariant, wherever it leaves its run.
LEMMA CommitStep ==
  ASSUME Inductive, NEW r \in Runners, NEW n \in Names,
         runners[r].at = "inserted", Visits(r, n), Committed(r, n),
         directory' = directory, Only(r),
         runners' \in [Runners -> RunnerState],
         lockHolder' \in Runners \cup {Null},
         \/ runners'[r].at = "failed"
         \/ /\ runners'[r] = [at |-> "visiting", todo |-> runners[r].todo \ {n}]
            /\ lockHolder' = lockHolder
  PROVE  Inductive'
<1>1. /\ MigTypeOK
      /\ Inside(r)
      /\ n \in runners[r].todo
      /\ directory[r][n] \in File
      /\ recorded[n] = Null
      /\ \A s \in Runners \ {r} : ~Inside(s)
  BY AtCommit
<1>2. /\ recorded' \in [Names -> File \cup {Null}]
      /\ schema' \in Seq([name : Names, text : Texts])
      /\ recorded'[n] = Checksum(directory[r][n])
      /\ \A m \in Names \ {n} : recorded'[m] = recorded[m]
      /\ DOMAIN schema \subseteq DOMAIN schema'
      /\ \A i \in DOMAIN schema : schema'[i] = schema[i]
      /\ RecordIsSchema'
      /\ Normalized'
  BY <1>1, CommittedStep
<1>3. MigTypeOK'
  BY <1>1, <1>2 DEF MigTypeOK, RunnerState
<1>4. \A s \in Runners : FilesOf(s)' = FilesOf(s)
  BY DEF FilesOf
<1>5. \A s \in Runners \ {r} : ~Inside(s)'
  BY <1>1 DEF Inside, Only
<1>6. Inside(r)' => /\ runners'[r].at = "visiting"
                    /\ runners'[r].todo = runners[r].todo \ {n}
                    /\ lockHolder' = r
  BY <1>1 DEF Inside, Inductive, Exclusive
<1>7. Exclusive'
  BY <1>5, <1>6 DEF Exclusive
<1>8. Visited'
  <2>1. /\ runners[r].todo \subseteq FilesOf(r)
        /\ \A m \in FilesOf(r) \ runners[r].todo : recorded[m] = Checksum(directory[r][m])
    BY <1>1 DEF Inductive, Visited
  <2>2. FilesOf(r) \subseteq Names
    BY DEF FilesOf
  <2>3. ASSUME Inside(r)', NEW m \in FilesOf(r) \ runners'[r].todo
        PROVE  recorded'[m] = Checksum(directory[r][m])
    BY <1>1, <1>2, <1>6, <2>1, <2>2, <2>3
  <2> QED
    BY <1>4, <1>5, <1>6, <2>1, <2>3 DEF Visited, Checksum
<1>9. RunsDoNotCollide'
  <2>1. \A s \in Runners : runners'[s].at \notin {"ran", "inserted"}
    BY <1>5, <1>6 DEF Inside
  <2> QED
    BY <2>1 DEF RunsDoNotCollide
<1>10. ModifiedMeansChanged'
  <2>1. runners'[r].at # "modified"
    OBVIOUS
  <2>2. ASSUME NEW s \in Runners, runners'[s].at = "modified"
        PROVE  \E m \in FilesOf(s), i \in DOMAIN schema' :
                 schema'[i].name = m /\ schema'[i].text # directory[s][m].text
    <3>1. s # r /\ runners[s].at = "modified"
      BY <2>1, <2>2 DEF Only
    <3>2. PICK m \in FilesOf(s), i \in DOMAIN schema :
            schema[i].name = m /\ schema[i].text # directory[s][m].text
      BY <3>1 DEF Inductive, ModifiedMeansChanged
    <3> QED
      BY <1>2, <3>2
  <2> QED
    BY <1>4, <2>2 DEF ModifiedMeansChanged
<1> QED
  BY <1>2, <1>3, <1>7, <1>8, <1>9, <1>10 DEF Inductive

----------------------------------------------------------------------------
(* The steps *)

LEMMA TakeLockStep ==
  ASSUME Inductive, NEW r \in Runners, TakeLock(r)
  PROVE  Inductive'
<1>1. FilesOf(r) \subseteq Names
  BY DEF FilesOf
<1>2. [at |-> "visiting", todo |-> FilesOf(r)] \in RunnerState
  BY <1>1 DEF RunnerState, Places
<1>3. /\ runners' \in [Runners -> RunnerState]
      /\ runners'[r] = [at |-> "visiting", todo |-> FilesOf(r)]
      /\ Only(r)
  BY <1>2, SetType DEF TakeLock, Inductive
<1>4. Quiet /\ lockHolder = Null /\ lockHolder' = r
  BY DEF TakeLock, Quiet
<1>5. \A s \in Runners \ {r} : lockHolder = s => lockHolder' = s
  BY <1>4, MigrationNullAssumption
<1> QED
  BY <1>3, <1>4, <1>5, QuietStep

LEMMA SkipAppliedStep ==
  ASSUME Inductive, NEW r \in Runners, NEW n \in Names, SkipApplied(r, n)
  PROVE  Inductive'
<1>1. runners[r] \in RunnerState /\ runners[r].at = "visiting"
  BY DEF SkipApplied, Inductive, MigTypeOK, RunnerState
<1> DEFINE state == [runners[r] EXCEPT !.todo = runners[r].todo \ {n}]
<1>2. state \in RunnerState /\ state.at = "visiting" /\ state.todo = runners[r].todo \ {n}
  BY <1>1 DEF RunnerState
<1>3. runners' = [runners EXCEPT ![r] = state]
  BY DEF SkipApplied
<1> HIDE DEF state
<1>4. /\ runners' \in [Runners -> RunnerState]
      /\ runners'[r] = state
      /\ Only(r)
  BY <1>2, <1>3, SetType DEF Inductive
<1>5. Quiet /\ lockHolder' = lockHolder /\ recorded[n] = Checksum(directory[r][n])
  BY DEF SkipApplied, Quiet
<1>6. Inside(r)
  BY <1>1 DEF Inside
<1>7. lockHolder = r /\ lockHolder \in Runners \cup {Null}
  BY <1>6 DEF Inductive, Exclusive, MigTypeOK
<1>8. /\ runners[r].todo \subseteq FilesOf(r)
      /\ \A m \in FilesOf(r) \ runners[r].todo : recorded[m] = Checksum(directory[r][m])
  BY <1>6 DEF Inductive, Visited
<1>9. /\ runners'[r].todo \subseteq FilesOf(r)
      /\ \A m \in FilesOf(r) \ runners'[r].todo : recorded[m] = Checksum(directory[r][m])
  BY <1>2, <1>4, <1>5, <1>8
<1> QED
  BY <1>2, <1>4, <1>5, <1>7, <1>9, QuietStep

\* RunScript and InsertRow: on with the same file, which has no row.
LEMMA AdvanceStep ==
  ASSUME Inductive, NEW r \in Runners, NEW n \in Names, NEW place \in {"ran", "inserted"},
         Inside(r), Visits(r, n), recorded[n] = Null, Goes(r, place),
         UNCHANGED <<directory, lockHolder, recorded, schema>>
  PROVE  Inductive'
<1>1. MigTypeOK /\ place \in Places
  BY DEF Inductive, Places
<1>2. /\ runners' \in [Runners -> RunnerState]
      /\ runners'[r].at = place
      /\ runners'[r].todo = runners[r].todo
      /\ Only(r)
  BY <1>1, GoesType
<1>3. Quiet /\ lockHolder' = lockHolder
  BY DEF Quiet
<1>4. lockHolder = r /\ lockHolder \in Runners \cup {Null}
  BY DEF Inductive, Exclusive, MigTypeOK
<1>5. /\ runners'[r].todo \subseteq FilesOf(r)
      /\ \A m \in FilesOf(r) \ runners'[r].todo : recorded[m] = Checksum(directory[r][m])
  BY <1>2 DEF Inductive, Visited
<1>6. \A m \in Names : Visits(r, m)' => recorded[m] = Null
  <2>1. \A m \in Names : Visits(r, m)' => m \in runners[r].todo /\ \A k \in runners[r].todo : m <= k
    BY <1>2 DEF Visits
  <2>2. runners[r].todo \subseteq Nat /\ Names \subseteq Nat
    BY <1>1, NamesAssumption DEF MigTypeOK
  <2>3. \A m \in Names : Visits(r, m)' => m = n
    BY <2>1, <2>2 DEF Visits
  <2> QED
    BY <2>3
<1>7. runners'[r].at # "modified"
  BY <1>2
<1> QED
  BY <1>2, <1>3, <1>4, <1>5, <1>6, <1>7, QuietStep

\* A checksum that differs belongs to a script that differs.
LEMMA RejectModifiedStep ==
  ASSUME Inductive, NEW r \in Runners, NEW n \in Names, RejectModified(r, n)
  PROVE  Inductive'
<1>1. /\ runners[r].at = "visiting"
      /\ n \in runners[r].todo
      /\ recorded[n] # Null
      /\ recorded[n] # Checksum(directory[r][n])
      /\ Leaves(r, "modified")
      /\ Quiet
  BY DEF RejectModified, Visits, Quiet
<1>2. n \in FilesOf(r)
  BY <1>1 DEF Inductive, Visited, Inside
<1>3. directory[r][n] \in File /\ recorded[n] \in File /\ recorded[n].crlf = FALSE
  BY <1>1, <1>2 DEF FilesOf, Inductive, MigTypeOK, Normalized
<1>4. recorded[n].text # directory[r][n].text
  BY <1>1, <1>3 DEF Checksum, File
<1>5. PICK i \in DOMAIN schema : schema[i].name = n
  BY <1>1 DEF Inductive, RecordIsSchema
<1>6. schema[i].text = recorded[n].text
  BY <1>5 DEF Inductive, RecordIsSchema
<1>7. \E m \in FilesOf(r), j \in DOMAIN schema :
        schema[j].name = m /\ schema[j].text # directory[r][m].text
  BY <1>2, <1>4, <1>5, <1>6
<1> QED
  BY <1>1, <1>7, LeavesStep

LEMMA CommitKeepsInvariant ==
  ASSUME Inductive, NEW r \in Runners, NEW n \in Names,
         Commit(r, n) \/ CommitUnseen(r, n)
  PROVE  Inductive'
<1>1. MigTypeOK /\ runners[r] \in RunnerState
  BY DEF Inductive, MigTypeOK, RunnerState
<1>2. CASE Commit(r, n)
  <2> DEFINE state == [at |-> "visiting", todo |-> runners[r].todo \ {n}]
  <2>1. state \in RunnerState
    BY <1>1 DEF RunnerState, Places
  <2>2. runners' = [runners EXCEPT ![r] = state]
    BY <1>2 DEF Commit
  <2> HIDE DEF state
  <2>3. /\ runners' \in [Runners -> RunnerState]
        /\ runners'[r] = state
        /\ Only(r)
    BY <1>1, <2>1, <2>2, SetType
  <2>4. runners'[r] = [at |-> "visiting", todo |-> runners[r].todo \ {n}]
    BY <2>3 DEF state
  <2>5. /\ runners[r].at = "inserted" /\ Visits(r, n) /\ Committed(r, n)
        /\ directory' = directory /\ lockHolder' = lockHolder
    BY <1>2 DEF Commit
  <2>6. lockHolder' \in Runners \cup {Null}
    BY <1>1, <2>5 DEF MigTypeOK
  <2> QED
    BY <2>3, <2>4, <2>5, <2>6, CommitStep
<1>3. CASE CommitUnseen(r, n)
  <2>1. /\ runners[r].at = "inserted" /\ Visits(r, n) /\ Committed(r, n)
        /\ directory' = directory /\ Leaves(r, "failed")
    BY <1>3 DEF CommitUnseen
  <2>2. /\ runners' \in [Runners -> RunnerState]
        /\ runners'[r].at = "failed"
        /\ Only(r)
    BY <1>1, <2>1, GoesType DEF Leaves, Places
  <2>3. lockHolder' \in Runners \cup {Null}
    BY <1>1, <2>1 DEF Leaves, MigTypeOK
  <2> QED
    BY <2>1, <2>2, <2>3, CommitStep
<1> QED
  BY <1>2, <1>3

LEMMA NextKeepsInvariant ==
  ASSUME Inductive, MigNext
  PROVE  Inductive'
<1>1. PICK r \in Runners :
        Proceeds(r) \/ (\E n \in Names : CommitUnseen(r, n)) \/ Stop(r)
  BY DEF MigNext
<1>2. CASE TakeLock(r)
  BY <1>2, TakeLockStep
<1>3. ASSUME NEW n \in Names, SkipApplied(r, n)
      PROVE  Inductive'
  BY <1>3, SkipAppliedStep
<1>4. ASSUME NEW n \in Names, RejectModified(r, n)
      PROVE  Inductive'
  BY <1>4, RejectModifiedStep
<1>5. ASSUME NEW n \in Names, RunScript(r, n) \/ InsertRow(r, n)
      PROVE  Inductive'
  BY <1>5, AdvanceStep DEF RunScript, InsertRow, Inside
<1>6. ASSUME NEW n \in Names, Commit(r, n) \/ CommitUnseen(r, n)
      PROVE  Inductive'
  BY <1>6, CommitKeepsInvariant
<1>7. CASE Finish(r)
  BY <1>7, LeavesStep DEF Finish, Quiet
<1>8. CASE Stop(r)
  BY <1>8, LeavesStep DEF Stop, Quiet
<1> QED
  BY <1>1, <1>2, <1>3, <1>4, <1>5, <1>6, <1>7, <1>8 DEF Proceeds

LEMMA InductiveHolds == MigSpec => []Inductive
<1>1. ASSUME MigInit
      PROVE  Inductive
  <2>1. \A r \in Runners : runners[r].at = "waiting"
    BY <1>1 DEF MigInit
  <2>2. MigTypeOK
    <3>1. \A r \in Runners : runners[r] \in [at : Places, todo : SUBSET Names]
      BY <1>1 DEF MigInit, Places
    <3>2. runners \in [Runners -> [at : Places, todo : SUBSET Names]]
      BY <1>1, <3>1 DEF MigInit
    <3> QED
      BY <1>1, <3>2 DEF MigInit, MigTypeOK
  <2>3. RecordIsSchema /\ Normalized
    BY <1>1 DEF MigInit, RecordIsSchema, Normalized
  <2> QED
    BY <2>1, <2>2, <2>3
       DEF Inductive, Exclusive, Visited, Inside, RunsDoNotCollide, ModifiedMeansChanged
<1>2. ASSUME Inductive, UNCHANGED migVars
      PROVE  Inductive'
  BY <1>2 DEF Inductive, migVars, MigTypeOK, RecordIsSchema, Normalized, Exclusive, Visited,
              Inside, FilesOf, Checksum, RunsDoNotCollide, Visits, ModifiedMeansChanged
<1>3. Inductive /\ [MigNext]_migVars => Inductive'
  BY <1>2, NextKeepsInvariant
<1> QED
  BY <1>1, <1>3, PTL DEF MigSpec

----------------------------------------------------------------------------

\* Type correctness.
THEOREM MigrationTypes == MigSpec => []MigTypeOK
<1>1. Inductive => MigTypeOK
  BY DEF Inductive
<1> QED
  BY <1>1, InductiveHolds, PTL

\* The transaction around script and row, and the lock around the loop, keep
\* schema_migrations the exact record of what the database went through.
THEOREM RecordIsExact == MigSpec => []RecordIsSchema
<1>1. Inductive => RecordIsSchema
  BY DEF Inductive
<1> QED
  BY <1>1, InductiveHolds, PTL

\* No run ever meets a row that another inserted under it.
THEOREM NoCollision == MigSpec => []RunsDoNotCollide
<1>1. Inductive => RunsDoNotCollide
  BY DEF Inductive
<1> QED
  BY <1>1, InductiveHolds, PTL

\* A complaint about a modified migration is never about line ends.
THEOREM ComplaintsAreTrue == MigSpec => []ModifiedMeansChanged
<1>1. Inductive => ModifiedMeansChanged
  BY DEF Inductive
<1> QED
  BY <1>1, InductiveHolds, PTL

----------------------------------------------------------------------------
(* The refinement *)

\* A row of the table is a script of the log.
LEMMA RecordedIsLogged ==
  ASSUME Inductive, NEW r \in Runners, NEW n \in FilesOf(r),
         recorded[n] = Checksum(directory[r][n])
  PROVE  Log!LoggedAs(n, Wanted[r][n])
<1>1. n \in Names /\ directory[r][n] \in File /\ directory[r][n] # Null
  BY DEF FilesOf, Inductive, MigTypeOK
<1>2. recorded[n] # Null /\ recorded[n].text = directory[r][n].text
  BY <1>1, ChecksumFacts
<1>3. PICK i \in DOMAIN schema : schema[i].name = n
  BY <1>1, <1>2 DEF Inductive, RecordIsSchema
<1>4. schema[i].text = directory[r][n].text
  BY <1>2, <1>3 DEF Inductive, RecordIsSchema
<1>5. schema[i] \in [name : Names, text : Texts]
  <2>1. schema \in Seq([name : Names, text : Texts])
    BY DEF Inductive, MigTypeOK
  <2> QED
    BY <1>3, <2>1, SeqElement
<1>6. schema[i] = [name |-> n, text |-> directory[r][n].text]
  BY <1>3, <1>4, <1>5
<1>7. Wanted[r][n] = directory[r][n].text
  BY <1>1 DEF Wanted
<1> QED
  BY <1>6, <1>7 DEF Log!LoggedAs

LEMMA WantedFacts ==
  ASSUME Inductive, NEW r \in Runners, NEW n \in Names
  PROVE  /\ Wanted[r][n] # Null <=> n \in FilesOf(r)
         /\ n \in FilesOf(r) => Wanted[r][n] = directory[r][n].text
<1>1. directory[r][n] \in File \cup {Null}
  BY DEF Inductive, MigTypeOK
<1> QED
  BY <1>1, MigrationNullAssumption DEF Wanted, FilesOf, File

LEMMA OutcomeOf ==
  ASSUME NEW r \in Runners, MigTypeOK
  PROVE  /\ runners[r].at = "succeeded" => Outcome[r] = "succeeded"
         /\ runners[r].at \in {"modified", "failed"} => Outcome[r] = "failed"
         /\ runners[r].at \in {"waiting", "visiting", "ran", "inserted"} => Outcome[r] = "running"
BY DEF Outcome

\* What becomes of Outcome when r alone moves.
LEMMA OutcomeStep ==
  ASSUME MigTypeOK, MigTypeOK', NEW r \in Runners, Only(r)
  PROVE  Outcome' = [Outcome EXCEPT ![r] = Outcome[r]']
<1>1. \A s \in Runners \ {r} : Outcome[s]' = Outcome[s]
  BY DEF Outcome, Only
<1> QED
  BY <1>1 DEF Outcome

\* The same scripts, the same outcomes: a stutter of the log.
LEMMA LogStutters ==
  ASSUME Quiet, Outcome' = Outcome
  PROVE  UNCHANGED Log!logVars
BY DEF Quiet, Log!logVars, Wanted

LEMMA LeavingImplementsLog ==
  ASSUME Inductive, Inductive', NEW r \in Runners, NEW place \in {"succeeded", "modified", "failed"},
         Leaves(r, place), Quiet,
         runners[r].at \in {"waiting", "visiting", "ran", "inserted"},
         place = "succeeded" =>
           \A n \in Names : Wanted[r][n] # Null => Log!LoggedAs(n, Wanted[r][n])
  PROVE  Log!LogNext
<1>1. MigTypeOK /\ MigTypeOK' /\ Goes(r, place) /\ place \in Places
  BY DEF Inductive, Leaves, Places
<1>2. runners'[r].at = place /\ Only(r)
  BY <1>1, GoesType
<1>3. Outcome[r] = "running"
  BY <1>1, OutcomeOf
<1>4. Outcome[r]' = IF place = "succeeded" THEN "succeeded" ELSE "failed"
  BY <1>2 DEF Outcome
<1>5. Outcome' = [Outcome EXCEPT ![r] = IF place = "succeeded" THEN "succeeded" ELSE "failed"]
  BY <1>1, <1>2, <1>4, OutcomeStep
<1>6. UNCHANGED <<schema, Wanted>>
  BY DEF Quiet, Wanted
<1>7. CASE place = "succeeded"
  <2>1. Log!Succeeds(r)
    BY <1>3, <1>5, <1>6, <1>7 DEF Log!Succeeds
  <2> QED
    BY <2>1 DEF Log!LogNext
<1>8. CASE place # "succeeded"
  <2>1. Log!Fails(r)
    BY <1>3, <1>5, <1>6, <1>8 DEF Log!Fails
  <2> QED
    BY <2>1 DEF Log!LogNext
<1> QED
  BY <1>7, <1>8

\* A commit enters its script in the log, after the earlier ones of the
\* release.
LEMMA CommitImplementsLog ==
  ASSUME Inductive, Inductive', NEW r \in Runners, NEW n \in Names,
         runners[r].at = "inserted", Visits(r, n), Committed(r, n),
         directory' = directory, Only(r),
         runners'[r].at \in {"visiting", "failed"}
  PROVE  Log!LogNext
<1>1. /\ MigTypeOK
      /\ Inside(r)
      /\ n \in runners[r].todo
      /\ directory[r][n] \in File
      /\ recorded[n] = Null
  BY AtCommit
<1>2. n \in FilesOf(r) /\ runners[r].todo \subseteq Names /\ FilesOf(r) \subseteq Names
  BY <1>1, MigrationNullAssumption DEF FilesOf, MigTypeOK
<1>3. Outcome[r] = "running"
  BY <1>1, OutcomeOf
<1>4. Wanted[r][n] # Null /\ Wanted[r][n] = directory[r][n].text
  BY <1>2, WantedFacts
<1>5. ~Log!Logged(n)
  BY <1>1 DEF Inductive, RecordIsSchema, Log!Logged
<1>6. ASSUME NEW m \in Names, m < n, Wanted[r][m] # Null
      PROVE  Log!LoggedAs(m, Wanted[r][m])
  <2>1. m \in FilesOf(r)
    BY <1>6, WantedFacts
  <2>2. m \notin runners[r].todo
    BY <1>6, NamesAssumption DEF Visits
  <2>3. recorded[m] = Checksum(directory[r][m])
    BY <1>1, <2>1, <2>2 DEF Inductive, Visited
  <2> QED
    BY <2>1, <2>3, RecordedIsLogged
<1>7. schema' = Append(schema, [name |-> n, text |-> Wanted[r][n]])
  BY <1>4 DEF Committed
<1>8. Outcome' \in {Outcome, [Outcome EXCEPT ![r] = "failed"]}
  <2>1. Outcome' = [Outcome EXCEPT ![r] = Outcome[r]']
    BY <1>1, OutcomeStep DEF Inductive
  <2>2. Outcome[r]' \in {"running", "failed"}
    BY DEF Outcome
  <2>3. [Outcome EXCEPT ![r] = "running"] = Outcome
    BY <1>3 DEF Outcome
  <2> QED
    BY <2>1, <2>2, <2>3
<1>9. Wanted' = Wanted
  BY DEF Wanted
<1>10. Log!Enter(r, n)
  BY <1>3, <1>4, <1>5, <1>6, <1>7 DEF Log!Enter
<1>11. Log!Enters(r, n)
  BY <1>8, <1>9, <1>10 DEF Log!Enters
<1> QED
  BY <1>11 DEF Log!LogNext

\* A run that moves on without committing or ending is not seen.
LEMMA MovingOnStutters ==
  ASSUME Inductive, Inductive', NEW r \in Runners, Only(r), Quiet,
         runners[r].at \in {"waiting", "visiting", "ran", "inserted"},
         runners'[r].at \in {"waiting", "visiting", "ran", "inserted"}
  PROVE  UNCHANGED Log!logVars
<1>1. MigTypeOK /\ MigTypeOK'
  BY DEF Inductive
<1>2. Outcome[r] = "running" /\ Outcome[r]' = "running"
  BY DEF Outcome
<1>3. Outcome' = [Outcome EXCEPT ![r] = "running"]
  BY <1>1, <1>2, OutcomeStep
<1>4. Outcome' = Outcome
  BY <1>2, <1>3 DEF Outcome
<1> QED
  BY <1>4, LogStutters

LEMMA NextImplementsLog ==
  ASSUME Inductive, Inductive', MigNext
  PROVE  [Log!LogNext]_(Log!logVars)
<1>0. MigTypeOK
  BY DEF Inductive
<1>1. PICK r \in Runners :
        Proceeds(r) \/ (\E n \in Names : CommitUnseen(r, n)) \/ Stop(r)
  BY DEF MigNext
<1>2. CASE TakeLock(r)
  <2>1. Quiet /\ Only(r) /\ runners[r].at = "waiting" /\ runners'[r].at = "visiting"
    BY <1>0, <1>2 DEF TakeLock, Quiet, Only, MigTypeOK
  <2> QED
    BY <2>1, MovingOnStutters
<1>3. ASSUME NEW n \in Names, SkipApplied(r, n)
      PROVE  UNCHANGED Log!logVars
  <2>1. runners[r] \in RunnerState /\ runners[r].at = "visiting"
    BY <1>0, <1>3 DEF SkipApplied, MigTypeOK, RunnerState
  <2>2. [runners[r] EXCEPT !.todo = runners[r].todo \ {n}].at = "visiting"
    BY <2>1 DEF RunnerState
  <2>3. Quiet /\ Only(r) /\ runners'[r].at = "visiting"
    BY <1>0, <1>3, <2>2 DEF SkipApplied, Quiet, Only, MigTypeOK
  <2> QED
    BY <2>1, <2>3, MovingOnStutters
<1>4. ASSUME NEW n \in Names, RunScript(r, n) \/ InsertRow(r, n)
      PROVE  UNCHANGED Log!logVars
  <2>1. PICK place \in {"ran", "inserted"} : Goes(r, place)
    BY <1>4 DEF RunScript, InsertRow
  <2>2. Only(r) /\ runners'[r].at = place
    BY <1>0, <2>1, GoesType DEF Places
  <2>3. Quiet /\ runners[r].at \in {"visiting", "ran"}
    BY <1>4 DEF RunScript, InsertRow, Quiet
  <2> QED
    BY <2>2, <2>3, MovingOnStutters
<1>5. ASSUME NEW n \in Names, RejectModified(r, n)
      PROVE  Log!LogNext
  BY <1>5, LeavingImplementsLog DEF RejectModified, Quiet
<1>6. ASSUME NEW n \in Names, Commit(r, n)
      PROVE  Log!LogNext
  <2>1. Only(r) /\ runners'[r].at = "visiting"
    BY <1>0, <1>6 DEF Commit, Only, MigTypeOK
  <2> QED
    BY <1>6, <2>1, CommitImplementsLog DEF Commit
<1>7. ASSUME NEW n \in Names, CommitUnseen(r, n)
      PROVE  Log!LogNext
  <2>1. Only(r) /\ runners'[r].at = "failed"
    BY <1>0, <1>7, GoesType DEF CommitUnseen, Leaves, Places
  <2> QED
    BY <1>7, <2>1, CommitImplementsLog DEF CommitUnseen
<1>8. CASE Finish(r)
  <2>1. runners[r].at = "visiting" /\ runners[r].todo = {} /\ Leaves(r, "succeeded") /\ Quiet
    BY <1>8 DEF Finish, Quiet
  <2>2. \A n \in FilesOf(r) : recorded[n] = Checksum(directory[r][n])
    BY <2>1 DEF Inductive, Visited, Inside
  <2>3. \A n \in Names : Wanted[r][n] # Null => Log!LoggedAs(n, Wanted[r][n])
    BY <2>2, WantedFacts, RecordedIsLogged
  <2> QED
    BY <2>1, <2>3, LeavingImplementsLog
<1>9. CASE Stop(r)
  BY <1>9, LeavingImplementsLog DEF Stop, Quiet
<1> QED
  BY <1>1, <1>2, <1>3, <1>4, <1>5, <1>6, <1>7, <1>8, <1>9 DEF Proceeds

\* The runner refines the log, for any number of runs of any releases:
\* scripts enter once and in order, and success means that the whole release
\* is in the database.
THEOREM RunnerImplementsLog == MigSpec => ImplementsLog
<1>1. MigInit => Log!LogInit
  <2> SUFFICES ASSUME MigInit
               PROVE  Log!LogInit
    OBVIOUS
  <2>1. Wanted \in [Runners -> [Names -> Texts \cup {Null}]]
    BY DEF MigInit, Wanted, File
  <2>2. Outcome = [r \in Runners |-> "running"]
    BY DEF MigInit, Outcome
  <2> QED
    BY <2>1, <2>2 DEF MigInit, Log!LogInit
<1>2. UNCHANGED migVars => UNCHANGED Log!logVars
  BY DEF migVars, Log!logVars, Wanted, Outcome
<1>3. Inductive /\ Inductive' /\ [MigNext]_migVars => [Log!LogNext]_(Log!logVars)
  BY <1>2, NextImplementsLog
<1> QED
  BY <1>1, <1>3, InductiveHolds, PTL DEF MigSpec, ImplementsLog, Log!LogSpec

----------------------------------------------------------------------------
(* Every run goes on *)

Over == {"succeeded", "modified", "failed"}

\* Nobody holds the lock but a run that is inside the loop.
LockIsInUse == lockHolder # Null => Inside(lockHolder)

\* Between the script and its COMMIT there is a file being visited.
Unfinished == \A r \in Runners : runners[r].at \in {"ran", "inserted"} => runners[r].todo # {}

\* The guards of Proceeds(r).
CanProceed(r) ==
  \/ runners[r].at = "waiting" /\ lockHolder = Null
  \/ runners[r].at = "visiting" /\ runners[r].todo = {}
  \/ \E n \in Names : /\ Visits(r, n)
                      /\ \/ runners[r].at \in {"visiting", "inserted"}
                         \/ runners[r].at = "ran" /\ recorded[n] = Null

\* A run that is not over can execute its next statement, or waits for the lock
\* of one that can.
RunsGoOn ==
  \A r \in Runners : runners[r].at \notin Over =>
    \/ CanProceed(r)
    \/ lockHolder \in Runners \ {r} /\ Inside(lockHolder) /\ CanProceed(lockHolder)

\* What a step does to a run: it takes the lock, executes a statement of the
\* first file, is done with that file, which is then recorded as its release has
\* it, or ends.
Forward(r) ==
  \/ /\ runners[r].at = "waiting"
     /\ runners'[r] = [at |-> "visiting", todo |-> FilesOf(r)]
  \/ runners[r].at = "visiting" /\ runners'[r] = [at |-> "ran", todo |-> runners[r].todo]
  \/ runners[r].at = "ran" /\ runners'[r] = [at |-> "inserted", todo |-> runners[r].todo]
  \/ /\ runners[r].at \in {"visiting", "inserted"}
     /\ \E n \in Names : /\ Visits(r, n)
                         /\ recorded'[n] = Checksum(directory[r][n])
                         /\ runners'[r] = [at |-> "visiting", todo |-> runners[r].todo \ {n}]
  \/ runners[r].at \notin Over /\ runners'[r].at \in Over

OnlyForward == [][\A r \in Runners : runners'[r] # runners[r] => Forward(r)]_migVars

LEMMA RunnerFields ==
  ASSUME MigTypeOK, NEW r \in Runners
  PROVE  /\ runners[r] = [at |-> runners[r].at, todo |-> runners[r].todo]
         /\ \A place : [runners[r] EXCEPT !.at = place] = [at |-> place, todo |-> runners[r].todo]
         /\ \A todo : [runners[r] EXCEPT !.todo = todo] = [at |-> runners[r].at, todo |-> todo]
BY DEF MigTypeOK

\* What the steps of a run do to it and to the lock.
LEMMA StepShape ==
  ASSUME Inductive, NEW r \in Runners,
         Proceeds(r) \/ (\E n \in Names : CommitUnseen(r, n)) \/ Stop(r)
  PROVE  /\ Only(r) /\ Forward(r)
         /\ \/ lockHolder' = r /\ Inside(r)'
            \/ lockHolder' = lockHolder /\ (Inside(r) => Inside(r)')
            \/ /\ runners'[r].at \in Over
               /\ lockHolder' = IF lockHolder = r THEN Null ELSE lockHolder
<1>1. runners \in [Runners -> RunnerState] /\ runners[r] \in RunnerState
  BY DEF Inductive, MigTypeOK, RunnerState
<1>2. ASSUME NEW place \in Places, Goes(r, place)
      PROVE  Only(r) /\ runners'[r] = [at |-> place, todo |-> runners[r].todo]
  BY <1>1, <1>2, RunnerFields DEF Goes, Only, Inductive
<1>3. ASSUME NEW place \in Over, Leaves(r, place), runners[r].at \notin Over
      PROVE  /\ Only(r) /\ Forward(r) /\ runners'[r].at \in Over
             /\ lockHolder' = IF lockHolder = r THEN Null ELSE lockHolder
  BY <1>2, <1>3 DEF Leaves, Forward, Over, Places
<1>4. CASE TakeLock(r)
  <2>1. Only(r) /\ runners'[r] = [at |-> "visiting", todo |-> FilesOf(r)] /\ lockHolder' = r
    BY <1>1, <1>4 DEF TakeLock, Only
  <2> QED
    BY <1>4, <2>1 DEF TakeLock, Forward, Inside
<1>5. ASSUME NEW n \in Names, SkipApplied(r, n)
      PROVE  /\ Only(r) /\ Forward(r)
             /\ lockHolder' = lockHolder /\ Inside(r)'
  <2>1. /\ Only(r) /\ runners[r].at = "visiting"
        /\ runners'[r] = [at |-> "visiting", todo |-> runners[r].todo \ {n}]
    BY <1>1, <1>5, RunnerFields DEF SkipApplied, Only, Inductive
  <2>2. Visits(r, n) /\ recorded'[n] = Checksum(directory[r][n])
    BY <1>5 DEF SkipApplied
  <2>3. Forward(r)
    BY <2>1, <2>2 DEF Forward
  <2> QED
    BY <1>5, <2>1, <2>3 DEF SkipApplied, Inside
<1>6. ASSUME NEW n \in Names, RunScript(r, n) \/ InsertRow(r, n)
      PROVE  /\ Only(r) /\ Forward(r)
             /\ lockHolder' = lockHolder /\ Inside(r)'
  BY <1>2, <1>6 DEF RunScript, InsertRow, Forward, Inside, Places
<1>7. ASSUME NEW n \in Names, Commit(r, n)
      PROVE  /\ Only(r) /\ Forward(r)
             /\ lockHolder' = lockHolder /\ Inside(r)'
  <2>1. /\ Only(r) /\ runners[r].at = "inserted"
        /\ runners'[r] = [at |-> "visiting", todo |-> runners[r].todo \ {n}]
    BY <1>1, <1>7 DEF Commit, Only
  <2>2. Visits(r, n) /\ recorded'[n] = Checksum(directory[r][n])
    BY <1>7 DEF Commit, Committed, Inductive, MigTypeOK
  <2>3. Forward(r)
    BY <2>1, <2>2 DEF Forward
  <2> QED
    BY <1>7, <2>1, <2>3 DEF Commit, Inside
<1>8. ASSUME NEW n \in Names, CommitUnseen(r, n)
      PROVE  Leaves(r, "failed") /\ runners[r].at \notin Over
  BY <1>8 DEF CommitUnseen, Over
<1>9. ASSUME NEW n \in Names, RejectModified(r, n)
      PROVE  Leaves(r, "modified") /\ runners[r].at \notin Over
  BY <1>9 DEF RejectModified, Over
<1>10. ASSUME Finish(r) \/ Stop(r)
       PROVE  \E place \in Over : Leaves(r, place) /\ runners[r].at \notin Over
  BY <1>10 DEF Finish, Stop, Over
<1>11. CASE \E place \in Over : Leaves(r, place) /\ runners[r].at \notin Over
  BY <1>3, <1>11
<1> QED
  BY <1>4, <1>5, <1>6, <1>7, <1>8, <1>9, <1>10, <1>11 DEF Proceeds, Over

LEMMA StepLockInUse ==
  ASSUME Inductive, LockIsInUse, [MigNext]_migVars
  PROVE  LockIsInUse'
<1>1. CASE UNCHANGED migVars
  BY <1>1 DEF migVars, LockIsInUse, Inside
<1>2. CASE MigNext
  <2>1. PICK r \in Runners :
          Proceeds(r) \/ (\E n \in Names : CommitUnseen(r, n)) \/ Stop(r)
    BY <1>2 DEF MigNext
  <2>2. Only(r)
    BY <2>1, StepShape
  <2>3. \A s \in Runners \ {r} : Inside(s) => Inside(s)'
    BY <2>2 DEF Only, Inside
  <2>4. lockHolder \in Runners \cup {Null}
    BY DEF Inductive, MigTypeOK
  <2>5. CASE lockHolder' = r /\ Inside(r)'
    BY <2>5 DEF LockIsInUse, Inside
  <2>6. CASE lockHolder' = lockHolder /\ (Inside(r) => Inside(r)')
    BY <2>3, <2>4, <2>6 DEF LockIsInUse, Inside
  <2>7. CASE lockHolder' = IF lockHolder = r THEN Null ELSE lockHolder
    BY <2>3, <2>4, <2>7 DEF LockIsInUse, Inside
  <2> QED
    BY <2>1, <2>5, <2>6, <2>7, StepShape
<1> QED
  BY <1>1, <1>2

LEMMA StepUnfinished ==
  ASSUME Inductive, Unfinished, [MigNext]_migVars
  PROVE  Unfinished'
<1>1. CASE UNCHANGED migVars
  BY <1>1 DEF migVars, Unfinished
<1>2. CASE MigNext
  <2>1. PICK r \in Runners :
          Proceeds(r) \/ (\E n \in Names : CommitUnseen(r, n)) \/ Stop(r)
    BY <1>2 DEF MigNext
  <2>2. Only(r) /\ Forward(r)
    BY <2>1, StepShape
  <2>3. runners'[r].at \in {"ran", "inserted"} => runners'[r].todo # {}
    <3>1. CASE \E n \in Names : RunScript(r, n) \/ InsertRow(r, n)
      <4>1. runners'[r].todo = runners[r].todo /\ runners[r].todo # {}
        BY <3>1, GoesType DEF RunScript, InsertRow, Visits, Inductive, Places
      <4> QED
        BY <4>1
    <3>2. CASE ~\E n \in Names : RunScript(r, n) \/ InsertRow(r, n)
      <4>1. ASSUME NEW place \in Over, Leaves(r, place)
            PROVE  runners'[r].at \in Over
        BY <4>1, GoesType DEF Leaves, Inductive, Over, Places
      <4>2. ASSUME NEW n \in Names, SkipApplied(r, n)
            PROVE  runners'[r].at = "visiting"
        BY <4>2, RunnerFields DEF SkipApplied, Inductive, MigTypeOK
      <4>3. ASSUME TakeLock(r) \/ \E n \in Names : Commit(r, n)
            PROVE  runners'[r].at = "visiting"
        BY <4>3 DEF TakeLock, Commit, Inductive, MigTypeOK
      <4>4. CASE \/ Finish(r) \/ Stop(r)
                 \/ \E n \in Names : RejectModified(r, n) \/ CommitUnseen(r, n)
        BY <4>1, <4>4 DEF Finish, Stop, RejectModified, CommitUnseen, Over
      <4> QED
        BY <2>1, <3>2, <4>2, <4>3, <4>4 DEF Proceeds, Over
    <3> QED
      BY <3>1, <3>2
  <2> QED
    BY <2>2, <2>3 DEF Only, Unfinished
<1> QED
  BY <1>1, <1>2

LEMMA LockHolds == MigSpec => [](Inductive /\ LockIsInUse /\ Unfinished)
<1>1. MigInit => LockIsInUse /\ Unfinished
  BY DEF MigInit, LockIsInUse, Unfinished
<1>2. Inductive /\ LockIsInUse /\ Unfinished /\ [MigNext]_migVars => LockIsInUse' /\ Unfinished'
  BY StepLockInUse, StepUnfinished
<1> QED
  BY <1>1, <1>2, InductiveHolds, PTL DEF MigSpec

LEMMA LeastName ==
  ASSUME NEW S \in SUBSET Nat, S # {}
  PROVE  \E n \in S : \A m \in S : n <= m
<1> DEFINE Below == {pair \in Nat \X Nat : pair[1] < pair[2]}
<1>1. IsWellFoundedOn(Below, Nat)
  BY NatLessThanWellFounded DEF OpToRel
<1>2. \A m, n \in Nat : m < n => <<m, n>> \in Below
  OBVIOUS
<1> HIDE DEF Below
<1>3. PICK n \in S : \A m \in S : <<m, n>> \notin Below
  BY <1>1, WFMin
<1>4. ASSUME NEW m \in S
      PROVE  n <= m
  <2>1. m \in Nat /\ n \in Nat
    OBVIOUS
  <2>2. ~(m < n)
    BY <2>1, <1>2, <1>3
  <2> QED
    BY <2>1, <2>2
<1> QED
  BY <1>4

\* A run inside the loop is never at a loss: a file it has not visited comes
\* first, and the INSERT of a script it ran finds no row.
LEMMA InsideProceeds ==
  ASSUME Inductive, Unfinished, NEW r \in Runners, Inside(r)
  PROVE  CanProceed(r)
<1>1. runners[r].todo \subseteq Names
  BY DEF Inductive, MigTypeOK
<1>2. ASSUME runners[r].todo # {}
      PROVE  \E n \in Names : Visits(r, n)
  <2>1. runners[r].todo \in SUBSET Nat
    BY <1>1, NamesAssumption
  <2>2. PICK n \in runners[r].todo : \A m \in runners[r].todo : n <= m
    BY <1>2, <2>1, LeastName
  <2> QED
    BY <1>1, <2>2 DEF Visits
<1>3. CASE runners[r].todo # {}
  BY <1>2, <1>3 DEF Inside, CanProceed, Inductive, RunsDoNotCollide
<1>4. CASE runners[r].todo = {}
  BY <1>4 DEF Inside, CanProceed, Unfinished
<1> QED
  BY <1>3, <1>4

\* The advisory lock is given up by whoever leaves, in whatever way, and the run
\* that has it is not stuck: no deployment waits behind one that is gone, and
\* every run that is not over has a statement to execute, or waits for one that
\* has.
THEOREM NoRunIsStuck == MigSpec => [](LockIsInUse /\ RunsGoOn)
<1>1. Inductive /\ LockIsInUse /\ Unfinished => RunsGoOn
  <2> SUFFICES ASSUME Inductive, LockIsInUse, Unfinished,
                      NEW r \in Runners, runners[r].at \notin Over
               PROVE  \/ CanProceed(r)
                      \/ /\ lockHolder \in Runners \ {r}
                         /\ Inside(lockHolder) /\ CanProceed(lockHolder)
    BY DEF RunsGoOn
  <2>1. runners[r].at = "waiting" \/ Inside(r)
    BY DEF Inductive, MigTypeOK, Over, Places, Inside
  <2>2. lockHolder \in Runners \cup {Null}
    BY DEF Inductive, MigTypeOK
  <2>3. CASE Inside(r)
    BY <2>3, InsideProceeds
  <2>4. CASE runners[r].at = "waiting" /\ lockHolder = Null
    BY <2>4 DEF CanProceed
  <2>5. CASE runners[r].at = "waiting" /\ lockHolder # Null
    BY <2>2, <2>5, InsideProceeds DEF LockIsInUse, Inside
  <2> QED
    BY <2>1, <2>3, <2>4, <2>5
<1> QED
  BY <1>1, LockHolds, PTL

\* A run visits each file of its release once, in order, with the script, the
\* INSERT and the COMMIT one after the other, passes one by only when the table
\* has it as the release does, and never moves again once it is over.
THEOREM RunsMoveForward == MigSpec => OnlyForward
<1>1. Inductive /\ [MigNext]_migVars =>
        [\A r \in Runners : runners'[r] # runners[r] => Forward(r)]_migVars
  <2> SUFFICES ASSUME Inductive, MigNext, NEW r \in Runners, runners'[r] # runners[r]
               PROVE  Forward(r)
    BY DEF migVars
  <2>1. PICK s \in Runners :
          Proceeds(s) \/ (\E n \in Names : CommitUnseen(s, n)) \/ Stop(s)
    BY DEF MigNext
  <2> QED
    BY <2>1, StepShape DEF Only
<1> QED
  BY <1>1, InductiveHolds, PTL DEF MigSpec, OnlyForward
=============================================================================
