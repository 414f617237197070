----------------------------- MODULE HostDeploy -----------------------------
(***************************************************************************)
(* What an agent does on its host with one task after the other            *)
(* (cmd/agent/handler.go, safety.go): the phases of a deploy task and of a *)
(* rollback task, the files under deploy_path and nginx_path, the          *)
(* snapshots under .previous/{release}, and the configuration nginx runs.  *)
(* The process may die between two phases and between two files; AgentFleet*)
(* shows that a task is not executed a second time.  Names AgentFleet uses *)
(* as well begin with Host here, so that one module can speak of both.     *)
(***************************************************************************)
EXTENDS Integers, FiniteSets

CONSTANTS
    Releases,   \* releases, numbered from 1 in the order of their creation
    Html,       \* files that go to deploy_path
    FilesOf,    \* the manifest of a release: some of Html, and perhaps "conf"
    Signed,     \* releases the agent's key accepts; all of them without a key
    BadConf,    \* contents of the nginx configuration that nginx -t refuses
    Types,      \* task types that deploy
    MaxTasks    \* bound: tasks the agent receives

ASSUME HostAssumption ==
    /\ Releases \subseteq Nat \ {0}
    /\ "conf" \notin Html
    /\ FilesOf \in [Releases -> SUBSET (Html \cup {"conf"})]
    /\ Signed \subseteq Releases
    /\ BadConf \subseteq Releases \cup {-2}
    /\ Types \subseteq {"deploy_html", "deploy_nginx", "deploy_full"}
    /\ MaxTasks \in Nat

VARIABLES
    disk,      \* the release each file on disk comes from, 0 without a file
    loaded,    \* the release whose configuration nginx runs, 0 at first
    previous,  \* .previous/{release}: the files it holds, NoSnapshot without it
    staging,   \* the staging directory of the task
    task,      \* the task: its type, its release, and whether the envelope
               \* defers or forbids the reload
    pc,        \* the phase handleTask is in, "idle" between tasks
    todo,      \* files still to be copied in this phase
    result,    \* status of the last report
    received   \* number of tasks received

hostVars == <<disk, loaded, previous, staging, task, pc, todo, result, received>>

Files == Html \cup {"conf"}

(* What a file holds beside the content of a release: altered bytes, or the *)
(* first part of a genuine file whose copy was cut off.                     *)
Corrupt == -1

Torn == -2

Contents == Releases \cup {0, Corrupt, Torn}

NoSnapshot == [f \in Html |-> Corrupt]

(* The files that the walk of snapshotPrevious finds.                       *)
Webroot == [f \in Html |-> disk[f]]

NoTask == [type |-> "none", release |-> 0, defer |-> FALSE]

-----------------------------------------------------------------------------
HostInit ==
    /\ disk = [f \in Files |-> 0]
    /\ loaded = 0
    /\ previous = [r \in Releases |-> NoSnapshot]
    /\ staging = [f \in Files |-> 0]
    /\ task = NoTask
    /\ pc = "idle"
    /\ todo = {}
    /\ result = "none"
    /\ received = 0

(* handleTask begins.  ExecuteRollback gives the rollback of a release that *)
(* release's own id as target_release_id; a rollback starts at "restore".   *)
Receive(type, r, defer) ==
    /\ pc = "idle"
    /\ received < MaxTasks
    /\ received' = received + 1
    /\ task' = [type |-> type, release |-> r, defer |-> defer]
    /\ pc' = IF type = "rollback" THEN "restore" ELSE "download"
    /\ staging' = [f \in Files |-> 0]
    /\ todo' = {}
    /\ result' = "none"
    /\ UNCHANGED <<disk, loaded, previous>>

(* How a phase ends: on to the next one, or with a failed report.           *)
Enter(phase) == pc' = phase /\ UNCHANGED result

Fail == pc' = "idle" /\ result' = "failed"

Succeed == pc' = "idle" /\ result' = "succeeded"

(* copyFile truncates its target before it copies: an error or a crash may  *)
(* leave the file it was at torn.                                           *)
Interrupted ==
    \/ UNCHANGED disk
    \/ \E f \in todo : disk' = [disk EXCEPT ![f] = Torn]

kept == <<task, received>>

(* downloadArtifact: each file of the manifest as it was stored, or cut off *)
(* or altered on the way; an error ends the task.                           *)
Download ==
    /\ pc = "download"
    /\ \/ /\ \E bad \in SUBSET FilesOf[task.release] :
                staging' = [f \in Files |->
                               IF f \in bad THEN Corrupt
                               ELSE IF f \in FilesOf[task.release]
                               THEN task.release ELSE 0]
          /\ Enter("checksum")
       \/ Fail /\ UNCHANGED staging
    /\ UNCHANGED <<disk, loaded, previous, todo, kept>>

(* Mutant: the checksum of one file stands for all of them.                 *)
ChecksumMatchesAny ==
    \/ FilesOf[task.release] = {}
    \/ \E f \in FilesOf[task.release] : staging[f] = task.release

(* verifyArtifactChecksum: over the whole staging directory.                *)
ChecksumMatches == \A f \in FilesOf[task.release] : staging[f] = task.release

VerifyChecksum ==
    /\ pc = "checksum"
    /\ IF ChecksumMatches THEN Enter("signature") ELSE Fail
    /\ UNCHANGED <<disk, loaded, previous, staging, todo, kept>>

(* verifyArtifactSignature.                                                 *)
VerifySignature ==
    /\ pc = "signature"
    /\ IF task.release \in Signed
       THEN Enter("write") /\ todo' = FilesOf[task.release]
       ELSE Fail /\ UNCHANGED todo
    /\ UNCHANGED <<disk, loaded, previous, staging, kept>>

(* hasNginx.                                                                *)
HasNginx == task.type \in {"deploy_nginx", "deploy_full"}

(* Mutant: the last file is left out.                                       *)
LastWritten == Cardinality(todo) <= 1

(* The loop over the manifest has come to its end.                          *)
AllWritten == todo = {}

(* writeArtifactFiles: the files are copied over the live ones, one by one; *)
(* an error leaves those written so far.                                    *)
WriteFile ==
    /\ pc = "write"
    /\ ~AllWritten
    /\ \/ /\ \E f \in todo : /\ disk' = [disk EXCEPT ![f] = staging[f]]
                             /\ todo' = todo \ {f}
          /\ UNCHANGED <<pc, result>>
       \/ Fail /\ Interrupted /\ UNCHANGED todo
    /\ UNCHANGED <<loaded, previous, staging, kept>>

WriteDone ==
    /\ pc = "write"
    /\ AllWritten
    /\ Enter(IF HasNginx THEN "test" ELSE "snapshot")
    /\ UNCHANGED <<disk, loaded, previous, staging, todo, kept>>

NginxAccepts == disk["conf"] \notin BadConf

(* nginx -t, which may also fail to run: a refused configuration stays on   *)
(* disk.                                                                    *)
NginxTest ==
    /\ pc = "test"
    /\ \/ NginxAccepts /\ Enter("snapshot")
       \/ Fail
    /\ UNCHANGED <<disk, loaded, previous, staging, todo, kept>>

(* The snapshot of the task's release once these files are copied into it   *)
(* and, when it was interrupted, another is torn.                           *)
SnapshotWith(done, torn) ==
    LET old == previous[task.release]
    IN  [f \in DOMAIN Webroot |->
            IF f \in torn THEN Torn
            ELSE IF f \in done THEN Webroot[f]
            ELSE IF old = NoSnapshot THEN 0 ELSE old[f]]

CutSnapshot ==
    LET present == {f \in Html : Webroot[f] # 0} IN
    \/ UNCHANGED previous
    \/ \E done \in SUBSET present : \E torn \in SUBSET (present \ done) :
          /\ Cardinality(torn) <= 1
          /\ previous' = [previous EXCEPT ![task.release] = SnapshotWith(done, torn)]

(* snapshotPrevious: deploy_path as it is now; an error is not fatal, and   *)
(* leaves the part that was copied.                                         *)
Snapshot ==
    /\ pc = "snapshot"
    /\ \/ previous' = [previous EXCEPT ![task.release] = SnapshotWith(Html, {})]
       \/ CutSnapshot
    /\ Enter(IF HasNginx /\ ~task.defer THEN "reload" ELSE "verify")
    /\ UNCHANGED <<disk, loaded, staging, todo, kept>>

(* nginx -s reload.                                                         *)
Reload ==
    /\ pc = "reload"
    /\ \/ loaded' = disk["conf"] /\ Enter("verify")
       \/ UNCHANGED loaded /\ Fail
    /\ UNCHANGED <<disk, previous, staging, todo, kept>>

(* localVerify, the last phase of both pipelines.                           *)
LocalVerify ==
    /\ pc = "verify"
    /\ Succeed \/ Fail
    /\ UNCHANGED <<disk, loaded, previous, staging, todo, kept>>

(* restoreFromSnapshot: without a snapshot the task fails; files that are   *)
(* not in the snapshot stay.  A rollback task has no nginx phases.          *)
RestoreBegin ==
    /\ pc = "restore"
    /\ IF previous[task.release] = NoSnapshot
       THEN Fail /\ UNCHANGED todo
       ELSE /\ Enter("restoring")
            /\ todo' = {f \in Html : previous[task.release][f] # 0}
    /\ UNCHANGED <<disk, loaded, previous, staging, kept>>

RestoreFile ==
    /\ pc = "restoring"
    /\ \/ /\ \E f \in todo :
                /\ disk' = [disk EXCEPT ![f] = previous[task.release][f]]
                /\ todo' = todo \ {f}
          /\ UNCHANGED <<pc, result>>
       \/ todo # {} /\ Fail /\ Interrupted /\ UNCHANGED todo
       \/ todo = {} /\ Enter("verify") /\ UNCHANGED <<disk, todo>>
    /\ UNCHANGED <<loaded, previous, staging, kept>>

(* The process dies, perhaps in the middle of a copy; its restart begins    *)
(* with an empty hand.                                                      *)
Crash ==
    /\ pc # "idle"
    /\ pc' = "idle"
    /\ result' = "none"
    /\ IF pc \in {"write", "restoring"} THEN Interrupted ELSE UNCHANGED disk
    /\ IF pc = "snapshot" THEN CutSnapshot ELSE UNCHANGED previous
    /\ UNCHANGED <<loaded, staging, todo, kept>>

HostNext ==
    \/ \E r \in Releases, defer \in BOOLEAN :
          \E type \in Types \cup {"rollback"} : Receive(type, r, defer)
    \/ Download \/ VerifyChecksum \/ VerifySignature
    \/ WriteFile \/ WriteDone \/ NginxTest \/ Snapshot \/ Reload
    \/ RestoreBegin \/ RestoreFile \/ LocalVerify \/ Crash

HostSpec == HostInit /\ [][HostNext]_hostVars

-----------------------------------------------------------------------------
(* Properties. *)

(* The variables keep their types.                                          *)
HostTypeOK ==
    /\ disk \in [Files -> Contents] /\ staging \in [Files -> Contents]
    /\ loaded \in Contents
    /\ previous \in [Releases -> [Html -> Contents]]
    /\ task \in [type : Types \cup {"rollback", "none"},
                 release : Releases \cup {0}, defer : BOOLEAN]
    /\ pc \in {"idle", "download", "checksum", "signature", "write", "test",
               "snapshot", "reload", "verify", "restore", "restoring"}
    /\ todo \subseteq Files
    /\ result \in {"none", "succeeded", "failed"}
    /\ received \in Nat

(* What may be served: a file of a signed release, its first part, nothing. *)
Genuine == Signed \cup {0, Torn}

(* Nothing that was altered on its way or is not signed gets to where it is *)
(* served from, neither by a deploy nor, later, by a rollback from a        *)
(* snapshot: what is there was a file of a signed release, or the first     *)
(* part of one (verifyArtifactChecksum, verifyArtifactSignature).  nginx    *)
(* never runs a configuration that nginx -t refuses, although refused ones  *)
(* stay on disk and reloads are deferred (handleTask).                      *)
ServesGenuine ==
    /\ \A f \in Files : disk[f] \in Genuine
    /\ loaded \in Genuine \ BadConf
    /\ \A r \in Releases : previous[r] # NoSnapshot =>
                              \A f \in Html : previous[r][f] \in Genuine

(* A deploy that reports success has every file of its manifest in place,   *)
(* and a rollback every file of the snapshot, whatever half-written deploy  *)
(* or restore was there before (handleTask, restoreFromSnapshot).           *)
SuccessIsComplete ==
    result = "succeeded" =>
        IF task.type = "rollback"
        THEN \A f \in Html : previous[task.release][f] \in {0, disk[f]}
        ELSE \A f \in FilesOf[task.release] : disk[f] = task.release

=============================================================================
