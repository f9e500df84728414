------------------------------ MODULE Release ------------------------------
(***************************************************************************)
(* A release from the publisher's archive to the database the API reads:   *)
(* Acquisition, the serving build and ServingRestore on the owner's        *)
(* machine.  The owner runs one command at a time, in any order.           *)
(***************************************************************************)
EXTENDS Acquisition, ServingRestore

vars == <<acqVars, restoreVars>>

\* `atus build-serving-db`: one transaction, the rows and the provenance of the
\* latest successful load.
Build ==
    /\ AcqIdle /\ RunIdle /\ database # Absent
    /\ artifact' = database
    /\ UNCHANGED <<acqVars, server, file, deployed, session, run, passed, faults>>

\* A new project for the next release: an empty database.
NewDatabase ==
    /\ RunIdle /\ served # None /\ artifact # served
    /\ served' = None /\ analyzed' = FALSE /\ passed' = FALSE
    /\ UNCHANGED <<acqVars, artifact, role, file, deployed, session, run, faults>>

Init == AcqInit /\ RestoreInit
Next ==
    \/ RunIdle /\ AcqStep /\ UNCHANGED restoreVars
    \/ AcqIdle /\ RestoreStep /\ UNCHANGED acqVars
    \/ Build \/ NewDatabase

Spec == Init /\ [][Next]_vars

\* A command that runs goes on, and the owner of a release that is not in service
\* does what the last run told them.
FairSpec ==
    /\ Spec
    /\ WF_vars(RunGoesOn /\ UNCHANGED acqVars)
    /\ WF_vars((Fetch \/ Hash \/ Unpack \/ Count) /\ UNCHANGED restoreVars)
    /\ SF_vars(Advised /\ UNCHANGED acqVars)

-----------------------------------------------------------------------------
(* Properties. *)

\* restore.py, step 5: a new password ends no session, so whenever roles.sql sets one
\* no session under an earlier password is left and none has started since.
NoStaleSession == \A s \in Session : session[s] # None => role.password = session[s]

\* Review r2: a --roles-only run that was not asked to rotate never makes the deployed
\* connection string stop working.
UnaskedHarmless ==
    [][run.rolesOnly /\ ~run.rotate /\ Works(deployed) => Works(deployed)']_vars

\* Review r1: wherever a run fails or dies, doing what it says finishes the restore: no
\* state is one that no documented command leads out of.
FinishedByAdvice == artifact # None ~> passed

\* manifest.py: the database can say which file its rows came from.  It does, down to
\* the serving database, when the archive was recorded and then extracted; it need not
\* when `extract` kept a staged file or a command died in between.
ServedIsRecorded == served # None /\ served.sound => served.recorded = served.rows

\* The inductive invariant.
ProvenanceInv ==
    \A rows \in {artifact, served} : rows # None /\ rows.sound => rows.recorded = rows.rows

ReleaseInv ==
    /\ AcqTypeOK /\ RestoreTypeOK
    /\ {artifact, served} \subseteq Loaded \cup {None}
    /\ ChainInv /\ ProvenanceInv /\ RunInv /\ PasswordsInv
=============================================================================
