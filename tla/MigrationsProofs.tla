-------------------------- MODULE MigrationsProofs --------------------------
(***************************************************************************)
(* What Migrate leaves behind, for any files and releases: induction over  *)
(* the statements that a start has passed.                                 *)
(***************************************************************************)
EXTENDS Migrations, TLAPS

(* Statement s of file f has run, was skipped, or still comes.             *)
Passed(f, s) == f < file \/ (f = file /\ s < stmt)

(* Everything that this start has passed is done, or behind an ALTER.      *)
PassedDone ==
    phase # "stopped" =>
        \A f \in Files(release) :
            \A s \in Statements(release, f) :
                Passed(f, s) => Done(f, s) \/ BehindAdd(f, s)

AllPassed == phase = "serving" => file = Len(Releases[release]) + 1

IInv == TypeOK /\ AllPassed /\ PassedDone

(* The statement that is next can run.                                     *)
Runs == Current.needs \subseteq schema /\ ~ Refused(Current)

(* A file of a release, and a statement of it. *)
LEMMA ReleaseType ==
    ASSUME NEW r \in DOMAIN Releases
    PROVE  /\ Len(Releases[r]) \in Nat
           /\ Files(r) = 1..Len(Releases[r])
           /\ \A f \in Files(r) :
                  /\ Len(Releases[r][f]) \in Nat
                  /\ \A s \in Statements(r, f) :
                         Releases[r][f][s] \in Statement
<1>1. Releases[r] \in Seq(Seq(Statement))
  BY ReleasesAssumption
<1>2. \A f \in Files(r) : Releases[r][f] \in Seq(Statement)
  BY <1>1 DEF Files
<1> QED
  BY <1>1, <1>2 DEF Files, Statements

(* A statement that does not drop is not undone by one that drops.         *)
LEMMA NothingUndone ==
    ASSUME NEW r \in DOMAIN Releases,
           NEW f \in Files(r), NEW s \in Statements(r, f),
           NEW g \in Files(r), NEW t \in Statements(r, g),
           Releases[r][f][s].does = "drop", Releases[r][g][t].does # "drop"
    PROVE  /\ Releases[r][f][s].object # Releases[r][g][t].object
           /\ Releases[r][f][s].object \notin Releases[r][g][t].columns
  BY ReleasesAssumption

LEMMA TypeInit == Init => TypeOK
<1> SUFFICES ASSUME Init PROVE TypeOK
  OBVIOUS
<1>1. Len(Releases[release]) \in Nat
  BY ReleaseType DEF Init
<1>2. file \in Files(release) => Len(Releases[release][file]) \in Nat
  BY ReleaseType DEF Init
<1> QED
  BY <1>1, <1>2, ReleasesAssumption DEF Init, TypeOK

LEMMA TypeStep == TypeOK /\ [Next]_vars => TypeOK'
<1> SUFFICES ASSUME TypeOK, [Next]_vars PROVE TypeOK'
  OBVIOUS
<1> USE ReleasesAssumption DEF TypeOK
<1>0. /\ Len(Releases[release]) \in Nat
      /\ Files(release) = 1..Len(Releases[release])
      /\ \A f \in Files(release) : Len(Releases[release][f]) \in Nat
  BY ReleaseType
<1>1. CASE Start
  BY <1>0, <1>1 DEF Start
<1>2. CASE RunStatement
  <2>1. Current \in Statement
    BY <1>2, ReleaseType DEF RunStatement, AtStatement, Current
  <2>2. schema' \subseteq Objects
    <3>1. CASE Runs
      BY <1>2, <2>1, <3>1 DEF RunStatement, Runs, After, Statement
    <3>2. CASE ~ Runs
      BY <1>2, <3>2 DEF RunStatement, Runs
    <3> QED
      BY <3>1, <3>2
  <2>3. stmt \in 1..Len(Releases[release][file])
    BY <1>2 DEF RunStatement, AtStatement, Statements
  <2>4. stmt' \in {stmt, stmt + 1} /\ phase' \in {phase, "stopped"}
    BY <1>2 DEF RunStatement
  <2>5. UNCHANGED <<conflicts, release, file, stops>>
    BY <1>2 DEF RunStatement
  <2>6. stmt' \in Nat /\ stmt' \in 1..(Len(Releases[release][file]) + 1)
    <3> HIDE DEF TypeOK
    <3>1. file \in Files(release)
      BY <1>2 DEF RunStatement, AtStatement
    <3> QED
      BY <1>0, <2>3, <2>4, <3>1
  <2>7. phase' \in {"stopped", "migrating", "serving"}
    BY <2>4
  <2> QED
    BY <2>2, <2>5, <2>6, <2>7
<1>3. CASE DuplicateColumn
  BY <1>0, <1>3 DEF DuplicateColumn, AtStatement
<1>4. CASE NextFile
  BY <1>0, <1>4 DEF NextFile
<1>5. CASE Serve
  BY <1>5 DEF Serve
<1>6. CASE Stop \/ ShutDown
  BY <1>6 DEF Stop, ShutDown, MayConflict
<1>7. CASE \E r \in DOMAIN Releases : Upgrade(r)
  <2> PICK r \in DOMAIN Releases : Upgrade(r)
    BY <1>7
  <2>1. /\ Len(Releases[r]) \in Nat
        /\ \A f \in Files(r) : Len(Releases[r][f]) \in Nat
    BY ReleaseType
  <2> QED
    BY <2>1 DEF Upgrade, Files
<1>8. CASE UNCHANGED vars
  BY <1>8 DEF vars
<1> QED
  BY <1>1, <1>2, <1>3, <1>4, <1>5, <1>6, <1>7, <1>8 DEF Next, MigrateStep

(* Every variable keeps its type: file and stmt stay within the files of   *)
(* the release, however often it is stopped, started and replaced.         *)
THEOREM TypeCorrect == Spec => []TypeOK
<1>1. Init => TypeOK
  BY TypeInit
<1>2. TypeOK /\ [Next]_vars => TypeOK'
  BY TypeStep
<1> QED
  BY <1>1, <1>2, PTL DEF Spec

(* The statement that runs is done, and undoes none of its release.        *)
LEMMA RunDoes ==
    ASSUME TypeOK, RunStatement, Runs
    PROVE  \A f \in Files(release) : \A s \in Statements(release, f) :
               f = file /\ s = stmt => Done(f, s)'
<1>1. /\ schema' = After(Current)
      /\ release' = release
  BY DEF RunStatement, Runs
<1>2. Releases[release][file][stmt] = Current
  BY DEF Current
<1>3. IF Current.does = "drop" THEN Current.object \notin schema'
      ELSE Current.object \in schema'
  BY <1>1 DEF After
<1> QED
  BY <1>1, <1>2, <1>3 DEF Done

LEMMA RunKeepsDone ==
    ASSUME TypeOK, RunStatement, Runs,
           NEW f \in Files(release), NEW s \in Statements(release, f),
           Done(f, s)
    PROVE  Done(f, s)'
<1> DEFINE this == Releases[release][f][s]
<1>1. /\ schema' = After(Current)
      /\ release' = release
      /\ release \in DOMAIN Releases
      /\ file \in Files(release)
      /\ stmt \in Statements(release, file)
      /\ Current = Releases[release][file][stmt]
  BY DEF RunStatement, Runs, AtStatement, Current, TypeOK
<1>2. CASE this.does = "drop"
  <2>1. this.object \notin schema
    BY <1>2 DEF Done
  <2>2. Current.does # "drop" =>
            this.object # Current.object /\ this.object \notin Current.columns
    BY <1>1, <1>2, NothingUndone
  <2>3. this.object \notin After(Current)
    BY <2>1, <2>2 DEF After
  <2> QED
    BY <1>1, <1>2, <2>3 DEF Done
<1>3. CASE this.does # "drop"
  <2>1. this.object \in schema
    BY <1>3 DEF Done
  <2>2. Current.does = "drop" => this.object # Current.object
    BY <1>1, <1>3, NothingUndone
  <2>3. this.object \in After(Current)
    BY <2>1, <2>2 DEF After
  <2> QED
    BY <1>1, <1>3, <2>3 DEF Done
<1> QED
  BY <1>2, <1>3

LEMMA RunKeepsPassed ==
    ASSUME TypeOK, PassedDone, RunStatement
    PROVE  PassedDone'
<1> USE DEF TypeOK
<1>1. CASE Runs
  <2>1. /\ stmt' = stmt + 1
        /\ UNCHANGED <<release, phase, file>>
        /\ phase # "stopped"
        /\ file \in Files(release)
        /\ stmt \in Statements(release, file)
    BY <1>1 DEF RunStatement, Runs, AtStatement
  <2> SUFFICES ASSUME NEW f \in Files(release), NEW s \in Statements(release, f),
                      Passed(f, s)'
               PROVE  Done(f, s)' \/ BehindAdd(f, s)'
    BY <2>1 DEF PassedDone, Files, Statements
  <2>2. BehindAdd(f, s)' <=> BehindAdd(f, s)
    BY <2>1 DEF BehindAdd, Statements
  <2>3. f \in Nat /\ s \in Nat /\ file \in Nat /\ stmt \in Nat
    BY <2>1, ReleaseType DEF Files, Statements
  <2>4. Passed(f, s) \/ (f = file /\ s = stmt)
    BY <2>1, <2>3 DEF Passed
  <2>5. CASE f = file /\ s = stmt
    BY <1>1, <2>5, RunDoes
  <2>6. CASE Passed(f, s)
    <3>1. Done(f, s) \/ BehindAdd(f, s)
      BY <2>1, <2>6 DEF PassedDone
    <3> QED
      BY <1>1, <2>2, <3>1, RunKeepsDone
  <2> QED
    BY <2>4, <2>5, <2>6
<1>2. CASE ~ Runs
  BY <1>2 DEF RunStatement, Runs, PassedDone
<1> QED
  BY <1>1, <1>2

(* A duplicate column is there; what follows in the file is behind it.     *)
LEMMA SkipKeepsPassed ==
    ASSUME TypeOK, PassedDone, DuplicateColumn
    PROVE  PassedDone'
<1> USE DEF TypeOK
<1>1. /\ file' = file + 1 /\ stmt' = 1
      /\ UNCHANGED <<schema, release, phase>>
  BY DEF DuplicateColumn
<1>2. /\ phase # "stopped"
      /\ file \in Files(release)
      /\ stmt \in Statements(release, file)
      /\ Current = Releases[release][file][stmt]
      /\ Current.does = "add" /\ Current.object \in schema
  BY DEF DuplicateColumn, AtStatement, Current, Duplicate
<1> SUFFICES ASSUME NEW f \in Files(release), NEW s \in Statements(release, f),
                    Passed(f, s)'
             PROVE  Done(f, s) \/ BehindAdd(f, s)
  BY <1>1 DEF PassedDone, Files, Statements, Done, BehindAdd
<1>3. f \in Nat /\ s \in Nat \ {0} /\ file \in Nat /\ stmt \in Nat
  BY <1>2, ReleaseType DEF Files, Statements
<1>4. Passed(f, s) \/ f = file
  BY <1>1, <1>3 DEF Passed
<1>5. CASE Passed(f, s)
  BY <1>2, <1>5 DEF PassedDone
<1>6. CASE f = file /\ ~ Passed(f, s)
  <2>1. s >= stmt
    BY <1>3, <1>6 DEF Passed
  <2>2. CASE s = stmt
    BY <1>2, <1>6, <2>2 DEF Done
  <2>3. CASE s > stmt
    BY <1>2, <1>3, <1>6, <2>3 DEF BehindAdd
  <2> QED
    BY <1>3, <2>1, <2>2, <2>3
<1> QED
  BY <1>4, <1>5, <1>6

LEMMA InductiveStep == IInv /\ [Next]_vars => IInv'
<1> SUFFICES ASSUME IInv, [Next]_vars PROVE IInv'
  OBVIOUS
<1> USE DEF IInv
<1>0. TypeOK'
  BY TypeStep
<1>1. /\ Len(Releases[release]) \in Nat
      /\ Files(release) = 1..Len(Releases[release])
      /\ \A f \in Files(release) : Len(Releases[release][f]) \in Nat
  BY ReleaseType DEF TypeOK
<1>2. CASE Start
  <2>1. PassedDone'
    BY <1>2, <1>1 DEF Start, PassedDone, Passed, Files, Statements
  <2>2. AllPassed'
    BY <1>2 DEF Start, AllPassed
  <2> QED
    BY <1>0, <2>1, <2>2
<1>3. CASE RunStatement
  <2>1. PassedDone'
    BY <1>3, RunKeepsPassed
  <2>2. AllPassed'
    BY <1>3 DEF RunStatement, AtStatement, AllPassed
  <2> QED
    BY <1>0, <2>1, <2>2
<1>4. CASE DuplicateColumn
  <2>1. PassedDone'
    BY <1>4, SkipKeepsPassed
  <2>2. AllPassed'
    BY <1>4 DEF DuplicateColumn, AtStatement, AllPassed
  <2> QED
    BY <1>0, <2>1, <2>2
<1>5. CASE NextFile
  <2>1. PassedDone'
    <3>1. /\ UNCHANGED <<schema, release, phase>>
          /\ file' = file + 1
          /\ stmt' = 1
          /\ stmt = Len(Releases[release][file]) + 1
          /\ file \in Files(release)
      BY <1>5 DEF NextFile
    <3> SUFFICES ASSUME phase # "stopped", NEW f \in Files(release),
                        NEW s \in Statements(release, f), Passed(f, s)'
                 PROVE  Done(f, s) \/ BehindAdd(f, s)
      BY <3>1 DEF PassedDone, Files, Statements, Done, BehindAdd
    <3>2. Passed(f, s)
      BY <1>1, <3>1 DEF Passed, Statements
    <3> QED
      BY <3>2 DEF PassedDone
  <2>2. AllPassed'
    BY <1>5 DEF NextFile, AllPassed
  <2> QED
    BY <1>0, <2>1, <2>2
<1>6. CASE Serve
  <2>1. PassedDone'
    BY <1>6 DEF Serve, PassedDone, Passed, Done, BehindAdd, Files, Statements
  <2>2. AllPassed'
    BY <1>6, <1>1 DEF Serve, AllPassed, TypeOK
  <2> QED
    BY <1>0, <2>1, <2>2
<1>7. CASE Stop \/ ShutDown
  BY <1>0, <1>7 DEF Stop, ShutDown, PassedDone, AllPassed
<1>8. CASE \E r \in DOMAIN Releases : Upgrade(r)
  BY <1>0, <1>8 DEF Upgrade, PassedDone, AllPassed
<1>9. CASE UNCHANGED vars
  BY <1>0, <1>9 DEF vars, PassedDone, AllPassed, Passed, Done, BehindAdd,
                    Files, Statements
<1> QED
  BY <1>2, <1>3, <1>4, <1>5, <1>6, <1>7, <1>8, <1>9 DEF Next, MigrateStep

(* For any releases that do not make what they drop: a process that serves *)
(* misses nothing but what stands behind an ALTER in its own file.         *)
THEOREM MissingOnlyThere == Spec => []MissingOnlyBehindAdd
<1>1. Init => IInv
  BY TypeInit DEF Init, IInv, AllPassed, PassedDone
<1>2. IInv /\ [Next]_vars => IInv'
  BY InductiveStep
<1>3. IInv => MissingOnlyBehindAdd
  <2> SUFFICES ASSUME IInv, phase = "serving",
                      NEW f \in Files(release), NEW s \in Statements(release, f)
               PROVE  Done(f, s) \/ BehindAdd(f, s)
    BY DEF MissingOnlyBehindAdd
  <2>1. Passed(f, s)
    BY ReleaseType DEF IInv, TypeOK, AllPassed, Passed, Files
  <2> QED
    BY <2>1 DEF IInv, PassedDone
<1> QED
  BY <1>1, <1>2, <1>3, PTL DEF Spec
-----------------------------------------------------------------------------
(* Starts that run to their end.  The theorem below is about files that    *)
(* are ordered and whose additions go together; TLC finds both true of     *)
(* migrations/ in every release of MCMigrations.                           *)

(* Migrate is between the addition t and statement s of this file.         *)
Between(r, f, t, s) ==
    /\ phase = "migrating"
    /\ file = f
    /\ f \in Files(release)
    /\ Releases[release][f] = Releases[r][f]
    /\ t < stmt
    /\ stmt <= s

(* A column is there with everything that stands behind its addition.      *)
Together ==
    \A r \in DOMAIN Releases : \A f \in Files(r) :
        \A t, s \in Statements(r, f) :
            Behind(r, f, t, s) /\ Releases[r][f][t].object \in schema =>
                Releases[r][f][s].object \in schema \/ Between(r, f, t, s)

AllPassedDone ==
    phase # "stopped" =>
        \A f \in Files(release) :
            \A s \in Statements(release, f) : Passed(f, s) => Done(f, s)

CInv == IInv /\ (stops = 0 => Together /\ AllPassedDone)

(* A statement finds what it needs. *)
LEMMA NeedsThere ==
    ASSUME TypeOK, FilesOrdered, AllPassedDone, AtStatement
    PROVE  Current.needs \subseteq schema
<1>1. /\ release \in DOMAIN Releases
      /\ phase # "stopped"
      /\ file \in Files(release)
      /\ stmt \in Statements(release, file)
      /\ Current = Releases[release][file][stmt]
  BY DEF TypeOK, AtStatement, Current
<1> SUFFICES ASSUME NEW o \in Current.needs
             PROVE  o \in schema
  OBVIOUS
<1>2. PICK g \in Files(release) : \E u \in Statements(release, g) :
          /\ Passed(g, u)
          /\ Releases[release][g][u].does # "drop"
          /\ Releases[release][g][u].object = o
  BY <1>1 DEF FilesOrdered, Passed
<1>3. PICK u \in Statements(release, g) :
          /\ Passed(g, u)
          /\ Releases[release][g][u].does # "drop"
          /\ Releases[release][g][u].object = o
  BY <1>2
<1>4. Done(g, u)
  BY <1>1, <1>3 DEF AllPassedDone
<1> QED
  BY <1>3, <1>4 DEF Done

(* A statement that runs keeps columns together.                           *)
LEMMA RunKeepsTogether ==
    ASSUME TypeOK, AddsTogether, Together, RunStatement, Runs
    PROVE  Together'
<1>1. /\ schema' = After(Current)
      /\ stmt' = stmt + 1
      /\ UNCHANGED <<release, phase, file>>
      /\ phase = "migrating"
      /\ release \in DOMAIN Releases
      /\ file \in Files(release)
      /\ stmt \in Statements(release, file)
      /\ Current = Releases[release][file][stmt]
  BY DEF RunStatement, Runs, AtStatement, Current, TypeOK
<1> SUFFICES ASSUME NEW r \in DOMAIN Releases, NEW f \in Files(r),
                    NEW t \in Statements(r, f), NEW s \in Statements(r, f),
                    Behind(r, f, t, s),
                    Releases[r][f][t].object \in schema',
                    Releases[r][f][s].object \notin schema'
             PROVE  Between(r, f, t, s)'
  BY DEF Together, Behind
<1> DEFINE column == Releases[r][f][t].object
           other == Releases[r][f][s].object
<1>2. /\ Releases[r][f][s].does # "drop"
      /\ Makes(Current, column) =>
             file = f /\ stmt = t /\ Releases[release][f] = Releases[r][f]
      /\ Current.does = "drop" => Current.object # other
  BY <1>1 DEF AddsTogether
<1>3. t \in Nat /\ s \in Nat /\ stmt \in Nat /\ t < s
  BY <1>1, ReleaseType DEF Statements, Behind
<1>4. other \notin schema
  BY <1>1, <1>2 DEF After
<1>5. CASE column \in schema
  <2>1. Between(r, f, t, s)
    BY <1>4, <1>5 DEF Together
  <2>2. stmt # s
    <3> SUFFICES ASSUME stmt = s PROVE FALSE
      OBVIOUS
    <3>1. Current = Releases[r][f][s]
      BY <1>1, <2>1 DEF Between
    <3> QED
      BY <1>1, <1>2, <3>1 DEF After
  <2> QED
    BY <1>1, <1>3, <2>1, <2>2 DEF Between
<1>6. CASE column \notin schema
  <2>1. Makes(Current, column)
    BY <1>1, <1>6 DEF After, Makes
  <2> QED
    BY <1>1, <1>2, <1>3, <2>1 DEF Between
<1> QED
  BY <1>5, <1>6

LEMMA RunKeepsAll ==
    ASSUME TypeOK, AllPassedDone, RunStatement, Runs
    PROVE  AllPassedDone'
<1>1. /\ stmt' = stmt + 1
      /\ UNCHANGED <<release, phase, file>>
      /\ phase # "stopped"
      /\ file \in Files(release)
      /\ stmt \in Statements(release, file)
      /\ release \in DOMAIN Releases
  BY DEF RunStatement, Runs, AtStatement, TypeOK
<1> SUFFICES ASSUME NEW f \in Files(release), NEW s \in Statements(release, f),
                    Passed(f, s)'
             PROVE  Done(f, s)'
  BY <1>1 DEF AllPassedDone, Files, Statements
<1>2. f \in Nat /\ s \in Nat /\ file \in Nat /\ stmt \in Nat
  BY <1>1, ReleaseType DEF Files, Statements
<1>3. Passed(f, s) \/ (f = file /\ s = stmt)
  BY <1>1, <1>2 DEF Passed
<1>4. CASE Passed(f, s)
  BY <1>1, <1>4, RunKeepsDone DEF AllPassedDone
<1> QED
  BY <1>3, <1>4, RunDoes

(* What a duplicate column skips is there.                                 *)
LEMMA SkipKeepsAll ==
    ASSUME TypeOK, AddsTogether, Together, AllPassedDone, DuplicateColumn
    PROVE  Together' /\ AllPassedDone'
<1>1. /\ file' = file + 1
      /\ stmt' = 1
      /\ UNCHANGED <<schema, release, phase>>
      /\ phase = "migrating"
      /\ release \in DOMAIN Releases
      /\ file \in Files(release)
      /\ stmt \in Statements(release, file)
      /\ Releases[release][file][stmt].does = "add"
      /\ Releases[release][file][stmt].object \in schema
  BY DEF DuplicateColumn, AtStatement, Current, Duplicate, TypeOK
<1>2. stmt \in Nat /\ \A s \in Statements(release, file) : s \in Nat
  BY <1>1, ReleaseType DEF Statements
<1>3. ASSUME NEW s \in Statements(release, file), stmt <= s
      PROVE  /\ Releases[release][file][s].does # "drop"
             /\ Releases[release][file][s].object \in schema
  <2>1. CASE s = stmt
    BY <1>1, <2>1
  <2>2. CASE s # stmt
    <3>1. Behind(release, file, stmt, s)
      <4>1. s \in Nat /\ stmt \in Nat
        BY <1>2
      <4>2. stmt < s
        BY <1>3, <2>2, <4>1
      <4> QED
        BY <1>1, <4>2 DEF Behind
    <3>2. ~ Between(release, file, stmt, s)
      BY <1>2 DEF Between
    <3> QED
      BY <1>1, <3>1, <3>2 DEF Together, AddsTogether
  <2> QED
    BY <2>1, <2>2
<1>4. Together'
  <2> SUFFICES ASSUME NEW r \in DOMAIN Releases, NEW f \in Files(r),
                      NEW t \in Statements(r, f), NEW s \in Statements(r, f),
                      Behind(r, f, t, s),
                      Releases[r][f][t].object \in schema
               PROVE  Releases[r][f][s].object \in schema
    BY <1>1 DEF Together, Behind
  <2>1. CASE Between(r, f, t, s)
    <3>1. s \in Statements(release, file) /\ stmt <= s
      BY <2>1 DEF Between, Statements
    <3> QED
      BY <1>3, <2>1, <3>1 DEF Between
  <2> QED
    BY <2>1 DEF Together
<1>5. AllPassedDone'
  <2> SUFFICES ASSUME NEW f \in Files(release), NEW s \in Statements(release, f),
                      Passed(f, s)'
               PROVE  Done(f, s)
    BY <1>1 DEF AllPassedDone, Files, Statements, Done
  <2>1. f \in Nat /\ s \in Nat \ {0} /\ file \in Nat
    BY <1>1, ReleaseType DEF Files, Statements
  <2>2. Passed(f, s) \/ (f = file /\ stmt <= s)
    BY <1>1, <1>2, <2>1 DEF Passed
  <2>3. CASE Passed(f, s)
    BY <1>1, <2>3 DEF AllPassedDone
  <2>4. CASE f = file /\ stmt <= s
    BY <1>3, <2>4 DEF Done
  <2> QED
    BY <2>2, <2>3, <2>4
<1> QED
  BY <1>4, <1>5

(* A unique index that the rows refuse stands behind no addition.          *)
LEMMA RefusedKeeps ==
    ASSUME TypeOK, AddsTogether, Together, AllPassedDone, RunStatement,
           Refused(Current)
    PROVE  Together' /\ AllPassedDone'
<1>1. /\ schema' = schema
      /\ phase' = "stopped"
      /\ release \in DOMAIN Releases
      /\ file \in Files(release)
      /\ stmt \in Statements(release, file)
      /\ Current = Releases[release][file][stmt]
      /\ Current.object \in UniqueIndexes
  BY DEF RunStatement, AtStatement, Current, Refused, TypeOK
<1>2. Together'
  <2> SUFFICES ASSUME NEW r \in DOMAIN Releases, NEW f \in Files(r),
                      NEW t \in Statements(r, f), NEW s \in Statements(r, f),
                      Behind(r, f, t, s),
                      Releases[r][f][t].object \in schema
               PROVE  Releases[r][f][s].object \in schema
    BY <1>1 DEF Together, Behind
  <2>1. ~ Between(r, f, t, s)
    <3> SUFFICES ASSUME Between(r, f, t, s) PROVE FALSE
      OBVIOUS
    <3>1. Behind(release, file, t, stmt) /\ t \in Statements(release, file)
      BY DEF Between, Behind, Statements
    <3> QED
      BY <1>1, <3>1 DEF AddsTogether
  <2> QED
    BY <2>1 DEF Together
<1>3. AllPassedDone'
  BY <1>1 DEF AllPassedDone
<1> QED
  BY <1>2, <1>3

LEMMA CompleteStep ==
    ASSUME FilesOrdered, AddsTogether, CInv, [Next]_vars
    PROVE  CInv'
<1>1. IInv'
  BY InductiveStep DEF CInv
<1> SUFFICES ASSUME stops' = 0
             PROVE  Together' /\ AllPassedDone'
  BY <1>1 DEF CInv
<1>2. stops = 0
  BY DEF CInv, IInv, TypeOK, Next, MigrateStep, Start, RunStatement,
         DuplicateColumn, NextFile, Serve, Stop, ShutDown, Upgrade, vars
<1>3. /\ TypeOK
      /\ Together
      /\ AllPassedDone
      /\ AllPassed
  BY <1>2 DEF CInv, IInv
<1>4. /\ Len(Releases[release]) \in Nat
      /\ Files(release) = 1..Len(Releases[release])
      /\ \A f \in Files(release) : Len(Releases[release][f]) \in Nat
  BY <1>3, ReleaseType DEF TypeOK
<1>5. CASE Start
  <2>1. /\ schema' = schema
        /\ \A r, f, t, s : ~ Between(r, f, t, s)
        /\ file' = 1
        /\ stmt' = 1
        /\ release' = release
    BY <1>5 DEF Start, Between
  <2>2. Together'
    BY <1>3, <2>1 DEF Together, Behind
  <2>3. AllPassedDone'
    BY <1>4, <2>1 DEF AllPassedDone, Passed, Files, Statements
  <2> QED
    BY <2>2, <2>3
<1>6. CASE RunStatement
  <2>1. CASE Refused(Current)
    BY <1>3, <1>6, <2>1, RefusedKeeps
  <2>2. CASE ~ Refused(Current)
    <3>1. Runs
      BY <1>3, <1>6, <2>2, NeedsThere DEF RunStatement, Runs
    <3> QED
      BY <1>3, <1>6, <3>1, RunKeepsTogether, RunKeepsAll
  <2> QED
    BY <2>1, <2>2
<1>7. CASE DuplicateColumn
  BY <1>3, <1>7, SkipKeepsAll
<1>8. CASE NextFile
  <2>1. /\ schema' = schema
        /\ release' = release
        /\ phase' = phase
        /\ file' = file + 1
        /\ stmt' = 1
        /\ file \in Files(release)
        /\ stmt = Len(Releases[release][file]) + 1
    BY <1>8 DEF NextFile
  <2>2. \A r, f, t, s : s \in Statements(r, f) => ~ Between(r, f, t, s)
    BY <1>4, <2>1 DEF Between, Statements
  <2>3. Together'
    BY <1>3, <2>1, <2>2 DEF Together, Behind
  <2>4. AllPassedDone'
    BY <1>3, <1>4, <2>1 DEF AllPassedDone, Passed, Done, Files, Statements,
                            TypeOK
  <2> QED
    BY <2>3, <2>4
<1>9. CASE Serve
  <2>1. /\ UNCHANGED <<schema, release, file, stmt>>
        /\ phase # "stopped"
        /\ file \notin Files(release)
    BY <1>9 DEF Serve
  <2>2. \A r, f, t, s : ~ Between(r, f, t, s)
    BY <2>1 DEF Between
  <2>3. Together'
    BY <1>3, <2>1, <2>2 DEF Together, Behind
  <2>4. AllPassedDone'
    BY <1>3, <2>1 DEF AllPassedDone, Passed, Done, Files, Statements
  <2> QED
    BY <2>3, <2>4
<1>10. CASE Stop
  BY <1>2, <1>10 DEF Stop
<1>11. CASE ShutDown \/ \E r \in DOMAIN Releases : Upgrade(r)
  <2>1. /\ schema' = schema
        /\ phase' = "stopped"
        /\ \A r, f, t, s : ~ Between(r, f, t, s)
    BY <1>11 DEF ShutDown, Upgrade, Between
  <2>2. Together'
    BY <1>3, <2>1 DEF Together, Behind
  <2> QED
    BY <2>1, <2>2 DEF AllPassedDone
<1>12. CASE UNCHANGED vars
  <2>1. Together'
    BY <1>3, <1>12 DEF vars, Together, Behind, Between
  <2>2. AllPassedDone'
    BY <1>3, <1>12 DEF vars, AllPassedDone, Passed, Done, Files, Statements
  <2> QED
    BY <2>1, <2>2
<1> QED
  BY <1>5, <1>6, <1>7, <1>8, <1>9, <1>10, <1>11, <1>12 DEF Next, MigrateStep

(* For files that are ordered and whose additions go together: a process   *)
(* that serves has everything its release is to have, over whatever        *)
(* releases ran before, unless Migrate was stopped.                        *)
THEOREM CompleteStarts ==
    ASSUME FilesOrdered, AddsTogether
    PROVE  Spec => []CompleteUnlessStopped
<1>1. Init => CInv
  BY TypeInit DEF Init, CInv, IInv, AllPassed, PassedDone, Together,
                  AllPassedDone
<1>2. CInv /\ [Next]_vars => CInv'
  BY CompleteStep
<1>3. CInv => CompleteUnlessStopped
  <2> SUFFICES ASSUME CInv, phase = "serving", stops = 0,
                      NEW f \in Files(release), NEW s \in Statements(release, f)
               PROVE  Done(f, s)
    BY DEF CompleteUnlessStopped
  <2>1. Passed(f, s)
    BY ReleaseType DEF CInv, IInv, TypeOK, AllPassed, Passed, Files
  <2> QED
    BY <2>1 DEF CInv, AllPassedDone
<1> QED
  BY <1>1, <1>2, <1>3, PTL DEF Spec
=============================================================================
