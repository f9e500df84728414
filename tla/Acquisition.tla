---------------------------- MODULE Acquisition ----------------------------
(***************************************************************************)
(* From the publisher's archive to the loaded database: `atus download`,   *)
(* `atus extract` and `atus load` on the owner's machine, one command at a *)
(* time, each of which may die between any two of its steps.  A release's  *)
(* files are handled one by one and alike; this is one of them.  A file is *)
(* named by the issue of the archive its content comes from: the publisher *)
(* reissues archives under the same name.  What a load does inside is      *)
(* ReloadSwitch; here it succeeds or leaves the database as it was.        *)
(***************************************************************************)
EXTENDS Naturals
CONSTANTS Absent, MaxIssue
ASSUME AcqConstants == MaxIssue \in Nat /\ Absent \notin Nat

Issue == 0..MaxIssue

VARIABLES
    published,  \* the issue the publisher serves
    raw,        \* data/raw: the archive, or Absent
    staged,     \* data/staging: the data file extracted, or Absent
    manifest,   \* data/manifest.json: the issue whose SHA-256 it records, or Absent
    command,    \* the step the running command is at
    database,   \* the loaded rows' issue, the recorded one, and `sound`
    chain       \* what was done to the archive as it now is (history, see below)

acqVars == <<published, raw, staged, manifest, command, database, chain>>
files == <<raw, staged, manifest>>

AcqIdle == command = "none"

Loaded == [rows : Issue, recorded : Issue, sound : BOOLEAN]

AcqTypeOK ==
    /\ published \in Issue
    /\ {raw, staged, manifest} \subseteq Issue \cup {Absent}
    /\ command \in {"none", "fetch", "hash", "unpack", "count"}
    /\ database \in Loaded \cup {Absent}
    /\ chain \in {"none", "recorded", "unpacked", "extracted"}

AcqInit ==
    /\ published = 0
    /\ raw = Absent /\ staged = Absent /\ manifest = Absent
    /\ command = "none" /\ database = Absent /\ chain = "none"

-----------------------------------------------------------------------------
(* `atus download [--force]`. *)

\* An archive that is there is kept unless forced, and only hashed again.
StartDownload(force) ==
    /\ AcqIdle
    /\ command' = IF raw # Absent /\ ~force THEN "hash" ELSE "fetch"
    /\ UNCHANGED <<published, files, database, chain>>

\* The whole body goes to <name>.part, which then replaces the archive.
Fetch ==
    /\ command = "fetch"
    /\ raw' = published /\ command' = "hash" /\ chain' = "none"
    /\ UNCHANGED <<published, staged, manifest, database>>

\* A plausible bug: an archive that was there already is not recorded again.
RecordIfUnrecorded ==
    /\ manifest' = IF manifest = Absent THEN raw ELSE manifest
    /\ chain' = IF chain = "extracted" THEN chain ELSE "recorded"

\* Any archive present is hashed and recorded, fetched by this run or not.
RecordDownload ==
    /\ manifest' = raw
    /\ chain' = IF chain = "extracted" THEN chain ELSE "recorded"

Hash ==
    /\ command = "hash"
    /\ RecordDownload
    /\ command' = "none"
    /\ UNCHANGED <<published, raw, staged, database>>

-----------------------------------------------------------------------------
(* `atus extract [--force]`, which refuses to start without the archive. *)

StartExtract(force) ==
    /\ AcqIdle /\ raw # Absent
    /\ command' = IF staged # Absent /\ ~force THEN "count" ELSE "unpack"
    /\ UNCHANGED <<published, files, database, chain>>

Unpack ==
    /\ command = "unpack"
    /\ staged' = raw /\ command' = "count"
    /\ chain' = IF chain = "recorded" THEN "unpacked" ELSE chain
    /\ UNCHANGED <<published, raw, manifest, database>>

\* record_staging: raises when no download of the file is recorded.
Count ==
    /\ command = "count"
    /\ command' = "none"
    /\ chain' = IF chain = "unpacked" THEN "extracted" ELSE chain
    /\ UNCHANGED <<published, files, database>>

-----------------------------------------------------------------------------
(* `atus load`, which needs the staged file and a manifest entry. *)

Load ==
    /\ AcqIdle /\ staged # Absent /\ manifest # Absent
    /\ database' = [rows |-> staged, recorded |-> manifest, sound |-> chain = "extracted"]
    /\ UNCHANGED <<published, files, command, chain>>

-----------------------------------------------------------------------------
(* Around the commands. *)

Reissue ==
    /\ published < MaxIssue
    /\ published' = published + 1
    /\ UNCHANGED <<files, command, database, chain>>

\* A file fetched in a browser is dropped into data/raw.
PlaceByHand ==
    /\ AcqIdle
    /\ raw' = published /\ chain' = "none"
    /\ UNCHANGED <<published, staged, manifest, command, database>>

\* A failed request, a full disk, a kill: the command ends where it is.
AcqDies ==
    /\ ~AcqIdle
    /\ command' = "none"
    /\ chain' = IF chain = "unpacked" THEN "none" ELSE chain
    /\ UNCHANGED <<published, files, database>>

AcqStep ==
    \/ \E force \in BOOLEAN : StartDownload(force) \/ StartExtract(force)
    \/ Fetch \/ Hash \/ Unpack \/ Count
    \/ Load
    \/ Reissue \/ PlaceByHand \/ AcqDies

\* What the chain says is so: the manifest has the archive, the staged file is its.
ChainInv ==
    /\ command \in {"hash", "unpack"} => raw # Absent
    /\ chain # "none" => raw # Absent /\ manifest = raw
    /\ chain \in {"unpacked", "extracted"} => staged = raw
    /\ database # Absent /\ database.sound => database.recorded = database.rows
=============================================================================
