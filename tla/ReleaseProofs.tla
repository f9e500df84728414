---------------------------- MODULE ReleaseProofs ----------------------------
(***************************************************************************)
(* Theorems about a release, for any number of issues, sessions and        *)
(* faults, whatever commands the owner runs in whatever order.             *)
(***************************************************************************)
EXTENDS Release, TLAPS, FiniteSetTheorems, FunctionTheorems

LEMMA ConstantTypes ==
    /\ MaxIssue \in Nat /\ MaxFaults \in Nat /\ IsFiniteSet(Session)
    /\ None \notin Nat /\ Absent \notin Nat /\ None \notin [password : Nat, login : BOOLEAN]
BY AcqConstants, RestoreConstants

LEMMA SessionCount == Cardinality(Session) \in Nat
BY ConstantTypes, FS_CardinalityType

LEMMA PasswordFacts ==
    /\ Password \subseteq Nat /\ 1 \in Password /\ None \notin Password
    /\ None \notin [password : Password, login : BOOLEAN]
<1>1. Password \subseteq Nat /\ 1 \in Password /\ None \notin Password
  BY SessionCount, ConstantTypes DEF Password
<1> QED BY <1>1, ConstantTypes

\* There is always a password that nothing holds.
LEMMA NewPasswordFacts ==
    ASSUME RestoreTypeOK
    PROVE  NewPassword \in Password /\ NewPassword \notin {file, deployed}
<1> DEFINE open == {session[s] : s \in Session}
           held == {file, deployed} \cup open \cup {role.password}
           n == Cardinality(Session)
<1>1. IsFiniteSet(open) /\ Cardinality(open) <= n
  <2>1. session \in [Session -> open] /\ \A p \in open : \E s \in Session : session[s] = p
    BY DEF RestoreTypeOK
  <2> HIDE DEF open
  <2>2. session \in Surjection(Session, open)
    BY <2>1, Fun_IsSurj
  <2> QED BY <2>2, ConstantTypes, FS_Surjection
<1>2. IsFiniteSet(held) /\ Cardinality(held) <= n + 3
  <2>1. held = ((open \cup {file}) \cup {deployed}) \cup {role.password}
    OBVIOUS
  <2> HIDE DEF open, held
  <2>2. Cardinality(open) \in Nat
    BY <1>1, FS_CardinalityType
  <2>3. IsFiniteSet(open \cup {file}) /\ Cardinality(open \cup {file}) \in Nat
        /\ Cardinality(open \cup {file}) <= n + 1
    BY <1>1, <2>2, SessionCount, FS_AddElement
  <2>4. /\ IsFiniteSet((open \cup {file}) \cup {deployed})
        /\ Cardinality((open \cup {file}) \cup {deployed}) \in Nat
        /\ Cardinality((open \cup {file}) \cup {deployed}) <= n + 2
    BY <2>3, SessionCount, FS_AddElement
  <2> QED BY <2>1, <2>4, SessionCount, FS_AddElement
<1>3. IsFiniteSet(Password) /\ Cardinality(Password) = n + 4
  BY SessionCount, FS_Interval DEF Password
<1>4. ~(Password \subseteq held)
  <2> HIDE DEF held
  <2> SUFFICES ASSUME Password \subseteq held PROVE FALSE
    OBVIOUS
  <2>1. Cardinality(Password) <= Cardinality(held) /\ Cardinality(held) \in Nat
    BY <1>2, FS_Subset, FS_CardinalityType
  <2> QED BY <1>2, <1>3, <2>1, SessionCount
<1>5. PICK p \in Password : p \notin held
  BY <1>4
<1> QED BY <1>5 DEF NewPassword

-----------------------------------------------------------------------------
(* The owner's files. *)

LEMMA AcqPreserves ==
    ASSUME AcqTypeOK, ChainInv, AcqStep
    PROVE  AcqTypeOK' /\ ChainInv'
<1>1. CASE \E force \in BOOLEAN : StartDownload(force) \/ StartExtract(force)
  BY <1>1 DEF StartDownload, StartExtract, AcqIdle, files, AcqTypeOK, ChainInv
<1>2. CASE Fetch
  BY <1>2, ConstantTypes DEF Fetch, AcqTypeOK, ChainInv, Issue
<1>3. CASE Hash
  BY <1>3 DEF Hash, RecordDownload, AcqTypeOK, ChainInv
<1>4. CASE Unpack
  BY <1>4 DEF Unpack, AcqTypeOK, ChainInv
<1>5. CASE Count
  BY <1>5 DEF Count, files, AcqTypeOK, ChainInv
<1>6. CASE Load
  BY <1>6 DEF Load, files, AcqIdle, AcqTypeOK, ChainInv, Loaded
<1>7. CASE Reissue
  BY <1>7, ConstantTypes DEF Reissue, files, AcqTypeOK, ChainInv, Issue
<1>8. CASE PlaceByHand
  BY <1>8, ConstantTypes DEF PlaceByHand, AcqIdle, AcqTypeOK, ChainInv, Issue
<1>9. CASE AcqDies
  BY <1>9 DEF AcqDies, files, AcqTypeOK, ChainInv
<1> QED BY <1>1, <1>2, <1>3, <1>4, <1>5, <1>6, <1>7, <1>8, <1>9 DEF AcqStep

-----------------------------------------------------------------------------
(* The restore. *)

\* What the restore's steps say of a run.
RestoreInv == RestoreTypeOK /\ RunInv /\ PasswordsInv

\* A run that is accepted begins with nothing known.
LEMMA StartPreserves ==
    ASSUME RestoreInv, NEW rolesOnly \in BOOLEAN, NEW rotate \in BOOLEAN,
           Start(rolesOnly, rotate)
    PROVE  RestoreInv'
<1>1. run' = [at |-> IF rolesOnly THEN "password" ELSE "restore", rolesOnly |-> rolesOnly,
              rotate |-> rotate, existed |-> (role # None), password |-> None,
              changed |-> FALSE]
  BY DEF Start, NoRun
<1>2. rolesOnly => rotate \/ file # None \/ role = None
  BY DEF Start, Accepted
<1>3. UNCHANGED <<artifact, served, analyzed, role, file, deployed, session, faults>> /\ passed' = FALSE
  BY DEF Start, server
<1>4. RestoreTypeOK'
  BY <1>1, <1>3 DEF RestoreInv, RestoreTypeOK
<1>5. RunInv'
  BY <1>1, <1>2, <1>3 DEF RestoreInv, RunInv
<1>6. PasswordsInv'
  BY <1>3 DEF RestoreInv, PasswordsInv
<1> QED BY <1>4, <1>5, <1>6 DEF RestoreInv

LEMMA PgRestorePreserves ==
    ASSUME RestoreInv, PgRestore
    PROVE  RestoreInv'
BY DEF PgRestore, RestoreInv, RestoreTypeOK, RunInv, PasswordsInv

LEMMA PickPreserves ==
    ASSUME RestoreInv, PickPassword
    PROVE  RestoreInv'
<1> DEFINE password == IF run.rotate \/ file = None THEN NewPassword ELSE file
           changed == password # file
           at == IF LocksOut(changed, run.existed) THEN "lock" ELSE "roles"
<1>1. run' = [run EXCEPT !.password = password, !.changed = changed, !.at = at]
  BY DEF PickPassword
<1>2. /\ password \in Password
      /\ IF changed THEN password \notin {file, deployed} ELSE password = file
      /\ changed <=> run.rotate \/ file = None
  BY NewPasswordFacts DEF RestoreInv, RestoreTypeOK
<1>3. UNCHANGED <<artifact, served, analyzed, role, file, deployed, session, passed, faults>>
  BY DEF PickPassword, server
<1>4. /\ run.at = "password" /\ (run.existed <=> role # None)
      /\ run.rolesOnly /\ ~run.rotate => file # None \/ role = None
  BY DEF PickPassword, RestoreInv, RunInv
<1>5. at = IF changed /\ run.existed THEN "lock" ELSE "roles"
  BY DEF LocksOut
<1>6. \A s \in Session : role = None => session[s] = None
  BY DEF RestoreInv, PasswordsInv
<1> HIDE DEF password, changed, at
<1>7. changed \in BOOLEAN
  BY DEF changed
<1>8. /\ run'.at = at /\ run'.password = password /\ run'.changed = changed
      /\ run'.rolesOnly = run.rolesOnly /\ run'.rotate = run.rotate /\ run'.existed = run.existed
  BY <1>1 DEF RestoreInv, RestoreTypeOK
<1>9. RestoreTypeOK'
  BY <1>1, <1>2, <1>3, <1>5, <1>7 DEF RestoreInv, RestoreTypeOK
<1>10. RunInv'
  BY <1>2, <1>3, <1>4, <1>5, <1>6, <1>8 DEF RunInv
<1>11. PasswordsInv'
  BY <1>3 DEF RestoreInv, PasswordsInv
<1> QED BY <1>9, <1>10, <1>11 DEF RestoreInv

LEMMA LockOutPreserves ==
    ASSUME RestoreInv, LockOut
    PROVE  RestoreInv'
<1>1. role # None
  BY DEF LockOut, RestoreInv, RunInv
<1>2. /\ role' \in [password : Password, login : BOOLEAN]
      /\ role'.password = role.password /\ role'.login = FALSE /\ role' # None
  BY <1>1, PasswordFacts DEF LockOut, RestoreInv, RestoreTypeOK
<1> QED BY <1>1, <1>2 DEF LockOut, RestoreInv, RestoreTypeOK, RunInv, PasswordsInv

LEMMA EndSessionsPreserves ==
    ASSUME RestoreInv, EndSessions
    PROVE  RestoreInv'
BY DEF EndSessions, server, RestoreInv, RestoreTypeOK, RunInv, PasswordsInv

LEMMA RolesSqlPreserves ==
    ASSUME RestoreInv, RolesSql
    PROVE  RestoreInv'
<1>1. /\ run.password \in Password /\ run.at = "roles"
      /\ IF run.changed THEN run.password \notin {file, deployed} ELSE run.password = file
  BY DEF RolesSql, RestoreInv, RunInv
<1>2. role' = [password |-> run.password, login |-> TRUE] /\ run' = [run EXCEPT !.at = "write"]
  BY DEF RolesSql
<1>3. UNCHANGED <<artifact, served, analyzed, file, deployed, session, passed, faults>>
  BY DEF RolesSql
<1>4. /\ run'.at = "write" /\ run'.password = run.password /\ role'.password = run.password
      /\ role' \in [password : Password, login : BOOLEAN]
  BY <1>1, <1>2 DEF RestoreInv, RestoreTypeOK
<1>5. role' # None
  BY <1>4, PasswordFacts
<1>6. /\ \A s \in Session : session[s] # None => role # None /\ session[s] = role.password
      /\ role # None /\ file # None /\ role.password # file =>
            \A s \in Session : session[s] = None
      /\ run.changed => \A s \in Session : session[s] = None
  BY <1>1 DEF RestoreInv, RunInv, PasswordsInv
<1>7. \A s \in Session : session[s] # None => session[s] = run.password
  <2>1. CASE run.changed
    BY <1>6, <2>1
  <2>2. CASE ~run.changed
    <3>1. run.password = file /\ file # None
      BY <1>1, <2>2, PasswordFacts
    <3> QED BY <1>6, <3>1
  <2> QED BY <2>1, <2>2
<1>8. file # None /\ run.password # file =>
         deployed # run.password /\ \A s \in Session : session[s] = None
  BY <1>1, <1>6
<1>9. RestoreTypeOK'
  BY <1>2, <1>3, <1>4 DEF RestoreInv, RestoreTypeOK
<1>10. RunInv'
  BY <1>4, <1>5 DEF RunInv
<1>11. PasswordsInv'
  BY <1>3, <1>4, <1>5, <1>7, <1>8 DEF PasswordsInv
<1> QED BY <1>9, <1>10, <1>11 DEF RestoreInv

LEMMA LastStepsPreserve ==
    ASSUME RestoreInv, WriteFile \/ Vacuum \/ Check
    PROVE  RestoreInv'
<1>1. CASE WriteFile
  BY <1>1 DEF WriteFile, server, RestoreInv, RestoreTypeOK, RunInv, PasswordsInv
<1>2. CASE Vacuum
  BY <1>2 DEF Vacuum, server, RestoreInv, RestoreTypeOK, RunInv, PasswordsInv
<1>3. CASE Check
  BY <1>3 DEF Check, NoRun, server, RestoreInv, RestoreTypeOK, RunInv, PasswordsInv
<1> QED BY <1>1, <1>2, <1>3

LEMMA DiesPreserves ==
    ASSUME RestoreInv, RunDies
    PROVE  RestoreInv'
BY ConstantTypes DEF RunDies, RunIdle, NoRun, server, RestoreInv, RestoreTypeOK, RunInv, PasswordsInv

LEMMA DeployPreserves ==
    ASSUME RestoreInv, Deploy
    PROVE  RestoreInv'
BY DEF Deploy, RunIdle, NoRun, server, RestoreInv, RestoreTypeOK, RunInv, PasswordsInv

LEMMA SessionsPreserve ==
    ASSUME RestoreInv, NEW s \in Session, Connect(s) \/ Disconnect(s)
    PROVE  RestoreInv'
<1>1. CASE Connect(s)
  BY <1>1 DEF Connect, Works, server, RestoreInv, RestoreTypeOK, RunInv, PasswordsInv
<1>2. CASE Disconnect(s)
  BY <1>2 DEF Disconnect, server, RestoreInv, RestoreTypeOK, RunInv, PasswordsInv
<1> QED BY <1>1, <1>2

LEMMA RestorePreserves ==
    ASSUME RestoreInv, RestoreStep
    PROVE  RestoreInv'
BY StartPreserves, PgRestorePreserves, PickPreserves, LockOutPreserves, EndSessionsPreserves,
   RolesSqlPreserves, LastStepsPreserve, DiesPreserves, DeployPreserves, SessionsPreserve
   DEF RestoreStep, RunGoesOn

-----------------------------------------------------------------------------
(* The whole release. *)

LEMMA InitInv == Init => ReleaseInv
<1> SUFFICES ASSUME Init PROVE ReleaseInv
  OBVIOUS
<1>1. AcqTypeOK /\ ChainInv
  BY ConstantTypes DEF Init, AcqInit, AcqTypeOK, ChainInv, Issue
<1>2. artifact = None /\ served = None /\ run = NoRun /\ analyzed = FALSE /\ passed = FALSE
      /\ faults = 0 /\ session = [s \in Session |-> None]
  BY DEF Init, RestoreInit
<1>3. PICK live \in BOOLEAN, atHand \in BOOLEAN :
         /\ role = IF live THEN [password |-> 1, login |-> TRUE] ELSE None
         /\ deployed = IF live THEN 1 ELSE None
         /\ file = IF live /\ atHand THEN 1 ELSE None
  BY DEF Init, RestoreInit
<1>4. /\ role \in [password : Password, login : BOOLEAN] \cup {None}
      /\ {file, deployed} \subseteq Password \cup {None}
      /\ role = None => file = None /\ deployed = None
      /\ role # None /\ file # None => role.password = file
  <2> DEFINE first == [password |-> 1, login |-> TRUE]
  <2>1. /\ first \in [password : Password, login : BOOLEAN] /\ first # None
        /\ first.password = 1 /\ None # 1
    <3>1. first \in [password : Password, login : BOOLEAN] /\ first.password = 1
      BY PasswordFacts
    <3> HIDE DEF first
    <3> QED BY <3>1, PasswordFacts
  <2> HIDE DEF first
  <2>2. /\ role = (IF live THEN first ELSE None) /\ deployed = (IF live THEN 1 ELSE None)
        /\ file = (IF live /\ atHand THEN 1 ELSE None)
    BY <1>3 DEF first
  <2> QED BY <2>1, <2>2, PasswordFacts
<1>5. RestoreTypeOK
  <2>1. run \in [at : {"none", "restore", "password", "lock", "end", "roles", "write",
                      "vacuum", "check"},
                rolesOnly : BOOLEAN, rotate : BOOLEAN, existed : BOOLEAN,
                password : Password \cup {None}, changed : BOOLEAN]
    BY <1>2 DEF NoRun
  <2>2. faults \in 0 .. MaxFaults
    BY <1>2, ConstantTypes
  <2> QED BY <1>2, <1>4, <2>1, <2>2 DEF RestoreTypeOK
<1>6. RunInv /\ PasswordsInv
  BY <1>2, <1>4 DEF RunInv, PasswordsInv, NoRun
<1> QED BY <1>1, <1>2, <1>5, <1>6 DEF ReleaseInv, ProvenanceInv

LEMMA NextInv == ReleaseInv /\ [Next]_vars => ReleaseInv'
<1> SUFFICES ASSUME ReleaseInv, [Next]_vars PROVE ReleaseInv'
  OBVIOUS
<1>0. RestoreInv /\ AcqTypeOK /\ ChainInv
  BY DEF ReleaseInv, RestoreInv
<1>1. CASE RunIdle /\ AcqStep /\ UNCHANGED restoreVars
  <2>1. AcqTypeOK' /\ ChainInv'
    BY <1>0, <1>1, AcqPreserves
  <2>2. RestoreTypeOK' /\ RunInv' /\ PasswordsInv'
    BY <1>0, <1>1 DEF RestoreInv, RestoreTypeOK, RunInv, PasswordsInv, restoreVars, server
  <2> QED BY <1>1, <2>1, <2>2 DEF ReleaseInv, ProvenanceInv, restoreVars, server
<1>2. CASE AcqIdle /\ RestoreStep /\ UNCHANGED acqVars
  <2>1. RestoreInv'
    BY <1>0, <1>2, RestorePreserves
  <2>2. AcqTypeOK' /\ ChainInv'
    BY <1>0, <1>2 DEF AcqTypeOK, ChainInv, acqVars, files
  <2>3. artifact' = artifact /\ served' \in {served, artifact}
    BY <1>2 DEF RestoreStep, Start, RunGoesOn, PgRestore, PickPassword, LockOut, EndSessions,
                RolesSql, WriteFile, Vacuum, Check, RunDies, Deploy, Connect, Disconnect, server
  <2> QED BY <2>1, <2>2, <2>3 DEF ReleaseInv, ProvenanceInv, RestoreInv
<1>3. CASE Build
  <2>1. RestoreTypeOK' /\ RunInv' /\ PasswordsInv' /\ AcqTypeOK' /\ ChainInv'
    BY <1>0, <1>3 DEF Build, RestoreInv, RestoreTypeOK, RunInv, PasswordsInv, AcqTypeOK,
                      ChainInv, acqVars, files, server
  <2>2. database \in Loaded /\ (database.sound => database.recorded = database.rows)
    BY <1>0, <1>3 DEF Build, AcqTypeOK, ChainInv
  <2> QED BY <1>3, <2>1, <2>2 DEF Build, server, ReleaseInv, ProvenanceInv
<1>4. CASE NewDatabase
  <2>1. AcqTypeOK' /\ ChainInv'
    BY <1>0, <1>4 DEF NewDatabase, AcqTypeOK, ChainInv, acqVars, files
  <2>2. RestoreTypeOK'
    BY <1>0, <1>4 DEF NewDatabase, RestoreInv, RestoreTypeOK
  <2>3. RunInv' /\ PasswordsInv'
    BY <1>0, <1>4 DEF NewDatabase, RestoreInv, RunInv, PasswordsInv
  <2> QED BY <1>4, <2>1, <2>2, <2>3 DEF NewDatabase, ReleaseInv, ProvenanceInv
<1>5. CASE UNCHANGED vars
  BY <1>5 DEF vars, acqVars, restoreVars, files, server, ReleaseInv, AcqTypeOK, RestoreTypeOK,
              ChainInv, ProvenanceInv, RunInv, PasswordsInv
<1> QED BY <1>1, <1>2, <1>3, <1>4, <1>5 DEF Next

-----------------------------------------------------------------------------
(* Theorems. *)

\* Spec => []ReleaseInv: the inductive invariant holds.
THEOREM ReleaseInvariant == Spec => []ReleaseInv
BY InitInv, NextInv, PTL DEF Spec

\* Spec => []NoStaleSession: no session of the API is open under another password than
\* the role's (restore.py, _end_api_sessions before roles.sql).
THEOREM NoStaleSessionHolds == Spec => []NoStaleSession
<1>1. ReleaseInv => NoStaleSession
  BY DEF ReleaseInv, PasswordsInv, NoStaleSession
<1> QED BY <1>1, ReleaseInvariant, PTL

\* Spec => []ServedIsRecorded: the served provenance is that of the served rows, where
\* the archive was recorded and then extracted (manifest.py).
THEOREM ServedIsRecordedHolds == Spec => []ServedIsRecorded
<1>1. ReleaseInv => ServedIsRecorded
  BY DEF ReleaseInv, ProvenanceInv, ServedIsRecorded
<1> QED BY <1>1, ReleaseInvariant, PTL

\* Spec => UnaskedHarmless: a --roles-only run without a rotation never makes the
\* deployed connection string stop working (restore.py).
THEOREM UnaskedHarmlessHolds == Spec => UnaskedHarmless
<1>1. ASSUME ReleaseInv, [Next]_vars
      PROVE  [run.rolesOnly /\ ~run.rotate /\ Works(deployed) => Works(deployed)']_vars
  <2> SUFFICES ASSUME run.rolesOnly, ~run.rotate, Works(deployed), Next
               PROVE  Works(deployed)'
    BY <1>1
  <2>1. /\ run.at # "none" /\ run # NoRun /\ role # None /\ role.login
        /\ role.password = deployed
    BY <1>1 DEF ReleaseInv, RunInv, NoRun, Works
  <2>2. CASE LockOut
    BY <1>1, <2>2 DEF LockOut, ReleaseInv, RunInv
  <2>3. CASE RolesSql
    <3>1. ~run.changed /\ run.password = file /\ file # None
      BY <1>1, <2>1, <2>3, PasswordFacts DEF RolesSql, ReleaseInv, RunInv
    <3>2. role.password = file
      BY <1>1, <2>1, <3>1 DEF ReleaseInv, PasswordsInv
    <3>3. /\ role' = [password |-> file, login |-> TRUE] /\ deployed' = file /\ file \in Password
      BY <1>1, <2>1, <2>3, <3>1, <3>2 DEF RolesSql, ReleaseInv, RunInv
    <3>4. role'.password = deployed' /\ role'.login
      BY <3>3
    <3>5. role' # None
      <4>1. role' \in [password : Password, login : BOOLEAN]
        BY <3>3
      <4> QED BY <4>1, PasswordFacts
    <3> QED BY <3>4, <3>5 DEF Works
  <2>4. CASE ~LockOut /\ ~RolesSql
    <3>1. role' = role /\ deployed' = deployed
      BY <2>1, <2>4 DEF Next, AcqStep, RestoreStep, Start, RunGoesOn, PgRestore, PickPassword,
         EndSessions, WriteFile, Vacuum, Check, RunDies, Deploy, Connect, Disconnect, Build,
         NewDatabase, RunIdle, restoreVars, server
    <3> QED BY <2>1, <3>1 DEF Works
  <2> QED BY <2>2, <2>3, <2>4
<1> QED BY <1>1, ReleaseInvariant, PTL DEF Spec, UnaskedHarmless
==============================================================================
