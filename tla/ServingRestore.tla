--------------------------- MODULE ServingRestore ---------------------------
(***************************************************************************)
(* `atus restore-serving-db`: a release artifact goes into a new, empty    *)
(* database, roles.sql gives the API's role its password and privileges,   *)
(* and the owner's secrets file gets the password and the API's URL.  A    *)
(* run may fail or die between any two steps; --roles-only finishes it or  *)
(* re-applies the roles, --rotate-api-password replaces the password.      *)
(* Meanwhile the deployed API opens and closes sessions under the password *)
(* it was deployed with.  One run at a time.                               *)
(***************************************************************************)
EXTENDS Naturals, FiniteSets
CONSTANTS
    None,
    Session,     \* the API's database sessions
    MaxFaults    \* how often a step may fail or the run die
ASSUME RestoreConstants ==
    /\ MaxFaults \in Nat /\ IsFiniteSet(Session)
    /\ None \notin Nat /\ None \notin [password : Nat, login : BOOLEAN]

\* Passwords differ; which ones they are does not matter.  As many are kept apart
\* as the role, the file, the deployment, the run and the sessions can hold.
Password == 1..(Cardinality(Session) + 4)

VARIABLES
    artifact,  \* what the release's dump holds, or None: no release yet
    served,    \* what the target database holds, or None: empty
    analyzed,  \* its tables have planner statistics
    role,      \* the API role: None, or its password and LOGIN
    file,      \* ATUS_API_DB_PASSWORD and _URL in the secrets file, or None
    deployed,  \* the password of the URL the API is deployed with, or None
    session,   \* the password each open session was opened under, or None
    run,       \* the running restore
    passed,    \* the last run ended with "Restore passed."
    faults

server == <<served, analyzed, role>>
restoreVars == <<artifact, server, file, deployed, session, run, passed, faults>>

NoRun == [at |-> "none", rolesOnly |-> FALSE, rotate |-> FALSE, existed |-> FALSE,
          password |-> None, changed |-> FALSE]
RunIdle == run = NoRun

RestoreTypeOK ==
    /\ analyzed \in BOOLEAN /\ passed \in BOOLEAN
    /\ role \in [password : Password, login : BOOLEAN] \cup {None}
    /\ {file, deployed} \subseteq Password \cup {None}
    /\ session \in [Session -> Password \cup {None}]
    /\ run \in [at : {"none", "restore", "password", "lock", "end", "roles", "write",
                      "vacuum", "check"},
                rolesOnly : BOOLEAN, rotate : BOOLEAN, existed : BOOLEAN,
                password : Password \cup {None}, changed : BOOLEAN]
    /\ faults \in 0..MaxFaults

Works(password) == role # None /\ role.login /\ role.password = password

\* A release in service, or none; its secrets file at hand, or another; the target
\* the database in service or a new one in the same cluster.
RestoreInit ==
    /\ artifact = None
    /\ \E live \in BOOLEAN, atHand \in BOOLEAN :
         /\ role = IF live THEN [password |-> 1, login |-> TRUE] ELSE None
         /\ deployed = IF live THEN 1 ELSE None
         /\ file = IF live /\ atHand THEN 1 ELSE None
    /\ served = None /\ analyzed = FALSE
    /\ session = [s \in Session |-> None]
    /\ run = NoRun /\ passed = FALSE /\ faults = 0

-----------------------------------------------------------------------------
(* A run. *)

\* A plausible bug: the stored password is not asked for.
AcceptedWithoutPassword(rolesOnly, rotate) ==
    IF rolesOnly THEN served # None ELSE served = None /\ artifact # None

\* Each release goes into an empty database; --roles-only needs a restored one, and
\* never makes up a password for a role that exists.
Accepted(rolesOnly, rotate) ==
    IF rolesOnly
    THEN served # None /\ (rotate \/ file # None \/ role = None)
    ELSE served = None /\ artifact # None

Start(rolesOnly, rotate) ==
    /\ RunIdle /\ Accepted(rolesOnly, rotate)
    /\ run' = [NoRun EXCEPT !.at = IF rolesOnly THEN "password" ELSE "restore",
                            !.rolesOnly = rolesOnly, !.rotate = rotate,
                            !.existed = role # None]
    /\ passed' = FALSE
    /\ UNCHANGED <<artifact, server, file, deployed, session, faults>>

\* pg_restore --single-transaction.
PgRestore ==
    /\ run.at = "restore"
    /\ served' = artifact /\ analyzed' = FALSE
    /\ run' = [run EXCEPT !.at = "password"]
    /\ UNCHANGED <<artifact, role, file, deployed, session, passed, faults>>

NewPassword ==
    CHOOSE p \in Password :
        /\ p \notin {file, deployed} \cup {session[s] : s \in Session}
        /\ role # None => p # role.password

\* A role whose password is about to change is locked out first.
LocksOut(changed, existed) == changed /\ existed

PickPassword ==
    /\ run.at = "password"
    /\ LET password == IF run.rotate \/ file = None THEN NewPassword ELSE file
           changed == password # file
       IN  run' = [run EXCEPT !.password = password, !.changed = changed,
                              !.at = IF LocksOut(changed, run.existed) THEN "lock" ELSE "roles"]
    /\ UNCHANGED <<artifact, server, file, deployed, session, passed, faults>>

\* A plausible bug: the sessions are ended with the role still able to log in.
LockOutNobody ==
    /\ run.at = "lock"
    /\ run' = [run EXCEPT !.at = "end"]
    /\ UNCHANGED <<artifact, server, file, deployed, session, passed, faults>>

\* ALTER ROLE ... NOLOGIN: it ends no session.
LockOut ==
    /\ run.at = "lock"
    /\ role' = [role EXCEPT !.login = FALSE]
    /\ run' = [run EXCEPT !.at = "end"]
    /\ UNCHANGED <<artifact, served, analyzed, file, deployed, session, passed, faults>>

EndSessions ==
    /\ run.at = "end"
    /\ session' = [s \in Session |-> None]
    /\ run' = [run EXCEPT !.at = "roles"]
    /\ UNCHANGED <<artifact, server, file, deployed, passed, faults>>

\* One transaction: the role (made if need be), LOGIN, its password, privileges.
RolesSql ==
    /\ run.at = "roles"
    /\ role' = [password |-> run.password, login |-> TRUE]
    /\ run' = [run EXCEPT !.at = "write"]
    /\ UNCHANGED <<artifact, served, analyzed, file, deployed, session, passed, faults>>

WriteFile ==
    /\ run.at = "write"
    /\ file' = run.password
    /\ run' = [run EXCEPT !.at = "vacuum"]
    /\ UNCHANGED <<artifact, server, deployed, session, passed, faults>>

\* A plausible bug: --roles-only leaves the tables as they are.
NeedsVacuumAfterRestore == ~run.rolesOnly

NeedsVacuum == ~run.rolesOnly \/ ~analyzed

Vacuum ==
    /\ run.at = "vacuum"
    /\ analyzed' = (analyzed \/ NeedsVacuum)
    /\ run' = [run EXCEPT !.at = "check"]
    /\ UNCHANGED <<artifact, served, role, file, deployed, session, passed, faults>>

\* The serving checks, planner statistics among them, and a session as the API role.
Check ==
    /\ run.at = "check"
    /\ passed' = (analyzed /\ Works(run.password))
    /\ run' = NoRun
    /\ UNCHANGED <<artifact, server, file, deployed, session, faults>>

RunGoesOn ==
    \/ PgRestore \/ PickPassword \/ LockOut \/ EndSessions \/ RolesSql
    \/ WriteFile \/ Vacuum \/ Check

\* A step fails (roles.sql is refused, a session cannot be ended, the file cannot be
\* written), or the run is killed: what it did so far stays.
RunDies ==
    /\ ~RunIdle /\ faults < MaxFaults
    /\ run' = NoRun /\ faults' = faults + 1
    /\ UNCHANGED <<artifact, server, file, deployed, session, passed>>

-----------------------------------------------------------------------------
(* Around the runs. *)

\* The owner copies the file's URL to the API's host.
Deploy ==
    /\ RunIdle /\ file # None /\ deployed # file
    /\ deployed' = file
    /\ UNCHANGED <<artifact, server, file, session, run, passed, faults>>

Connect(s) ==
    /\ session[s] = None /\ deployed # None /\ Works(deployed)
    /\ session' = [session EXCEPT ![s] = deployed]
    /\ UNCHANGED <<artifact, server, file, deployed, run, passed, faults>>

Disconnect(s) ==
    /\ session[s] # None
    /\ session' = [session EXCEPT ![s] = None]
    /\ UNCHANGED <<artifact, server, file, deployed, run, passed, faults>>

\* What the run's own messages tell the owner to do next.
Advised ==
    \/ served = None /\ Start(FALSE, FALSE)
    \/ served # None /\ Accepted(TRUE, FALSE) /\ Start(TRUE, FALSE)
    \/ served # None /\ ~Accepted(TRUE, FALSE) /\ Start(TRUE, TRUE)

RestoreStep ==
    \/ \E rolesOnly \in BOOLEAN, rotate \in BOOLEAN : Start(rolesOnly, rotate)
    \/ RunGoesOn \/ RunDies \/ Deploy
    \/ \E s \in Session : Connect(s) \/ Disconnect(s)

-----------------------------------------------------------------------------
(* The invariant behind the passwords. *)

\* Before its write a run knows whether the role existed, and has the file's password,
\* or one that nobody was given; then the role cannot log in, and no session is left.
RunInv ==
    /\ run.at \in {"restore", "password", "lock", "end", "roles"} =>
          /\ run.existed <=> role # None
          /\ run.rolesOnly /\ ~run.rotate => file # None \/ role = None
    /\ run.at \in {"lock", "end"} => run.changed /\ run.existed
    /\ run.at \in {"lock", "end", "roles"} =>
          /\ run.password \in Password
          /\ IF run.changed THEN run.password \notin {file, deployed} ELSE run.password = file
          /\ run.changed /\ run.existed /\ run.rolesOnly => run.rotate
    /\ run.at = "end" \/ (run.at = "roles" /\ run.changed /\ run.existed) => ~role.login
    /\ run.at = "roles" /\ run.changed => \A s \in Session : session[s] = None
    /\ run.at = "write" => role # None /\ role.password = run.password
    /\ run.at = "none" => ~run.rolesOnly

\* Sessions are of the role's password; and a run that died between roles.sql and the
\* file left a password that nobody was given.
PasswordsInv ==
    /\ role = None => file = None /\ deployed = None
    /\ \A s \in Session : session[s] # None => role # None /\ session[s] = role.password
    /\ role # None /\ file # None /\ role.password # file =>
          deployed # role.password /\ \A s \in Session : session[s] = None
=============================================================================
