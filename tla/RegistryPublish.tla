--------------------------- MODULE RegistryPublish ---------------------------
(***************************************************************************)
(* publishDraft as the sequence of its awaits, one publication per         *)
(* administrator, and deploy/server-deploy.sh, which follows main by       *)
(* itself. Between two awaits anything else may happen; a crash of the     *)
(* process drops the publication where it stands.                          *)
(***************************************************************************)
EXTENDS RegistryStore

CONSTANTS Admins

VARIABLES pub,     \* per administrator: the publishDraft call under way
          deploy,  \* the deploy script: [pc, previous, target]
          checkout \* the commit the server's working tree is on

Idle == [pc |-> "idle", draft |-> NoDraft, id |-> External, commit |-> 0, synced |-> FALSE]

NoDeploy == [pc |-> "idle", previous |-> 1, target |-> 1]

PublishInit ==
    /\ pub = [a \in Admins |-> Idle]
    /\ deploy = NoDeploy
    /\ checkout = 1

Go(a, pc) == pub' = [pub EXCEPT ![a].pc = pc]
Finish(a) == pub' = [pub EXCEPT ![a] = Idle]
rows == <<draft, versions, active>>
deploying == <<deploy, checkout>>

\* Mutant of HoldsClaim: the revision is not compared.
HoldsSomeClaim(a) == draft[pub[a].id].status = "publishing"

(* WHERE id AND revision AND status='publishing': it names no publisher.   *)
HoldsClaim(a) == /\ draft[pub[a].id].revision = pub[a].draft.revision
                 /\ draft[pub[a].id].status = "publishing"

PublishClaim(a, d, revision) ==
    /\ pub[a].pc = "idle"
    /\ draft[d].status = "draft"
    /\ draft[d].revision = revision
    /\ draft' = [draft EXCEPT ![d].status = "publishing"]
    /\ pub' = [pub EXCEPT ![a] = [Idle EXCEPT !.pc = "read", !.draft = draft[d], !.id = d]]
    /\ UNCHANGED <<versions, active, commits, deploying>>

\* Mutant of PublishRead: the database is synchronised before the commit.
PublishReadThenSync(a) ==
    /\ pub[a].pc = "read"
    /\ MainFile = pub[a].draft.base
    /\ Go(a, "sync")
    /\ UNCHANGED <<rows, commits, deploying>>

(* getRegistryFile fails or shows another blob; or it shows the base.      *)
PublishRead(a) ==
    /\ pub[a].pc = "read"
    /\ \/ Go(a, "revert")
       \/ MainFile = pub[a].draft.base /\ Go(a, "put")
    /\ UNCHANGED <<rows, commits, deploying>>

\* Mutant of PublishPut: the file is written over whatever main holds.
PublishPutBlindly(a) ==
    /\ pub[a].pc = "put"
    /\ Len(commits) < MaxCommits
    /\ commits' = Append(commits, [document |-> pub[a].draft.document, draft |-> pub[a].id])
    /\ \/ pub' = [pub EXCEPT ![a].pc = "commit", ![a].commit = Len(commits')]
       \/ Go(a, "revert")
    /\ UNCHANGED <<rows, deploying>>

(* updateRegistryFile: GitHub takes the file only over the blob it names;  *)
(* the answer of a commit that was made may be lost.                       *)
PublishPut(a) ==
    /\ pub[a].pc = "put"
    /\ \/ Go(a, "revert") /\ UNCHANGED commits
       \/ /\ MainFile = pub[a].draft.base
          /\ Len(commits) < MaxCommits
          /\ commits' = Append(commits, [document |-> pub[a].draft.document,
                                         draft |-> pub[a].id])
          /\ \/ pub' = [pub EXCEPT ![a].pc = "commit", ![a].commit = Len(commits')]
             \/ Go(a, "revert")
    /\ UNCHANGED <<rows, deploying>>

PublishRevert(a) ==
    /\ pub[a].pc = "revert"
    /\ draft' = IF HoldsClaim(a)
                THEN [draft EXCEPT ![pub[a].id].status = "draft"]
                ELSE draft
    /\ Finish(a)
    /\ UNCHANGED <<versions, active, commits, deploying>>

PublishCommitted(a) ==
    /\ pub[a].pc = "commit"
    /\ \/ /\ HoldsClaim(a)
          /\ draft' = [draft EXCEPT ![pub[a].id].status = "committed_pending_activation",
                                    ![pub[a].id].commit = pub[a].commit]
          /\ Go(a, "sync")
       \/ ~HoldsClaim(a) /\ Finish(a) /\ UNCHANGED draft
    /\ UNCHANGED <<versions, active, commits, deploying>>

PublishSync(a) ==
    /\ pub[a].pc = "sync"
    /\ \/ /\ Synchronize(pub[a].draft.document, pub[a].commit)
          /\ pub' = [pub EXCEPT ![a].pc = "status", ![a].synced = TRUE]
       \/ Go(a, "status") /\ UNCHANGED <<rows, commits>>
    /\ UNCHANGED deploying

\* Mutant of PublishStatus: a synchronisation that failed is not told apart.
PublishStatusAnyway(a) ==
    /\ pub[a].pc = "status"
    /\ draft' = [draft EXCEPT ![pub[a].id].status =
                   IF @ = "committed_pending_activation" THEN "published" ELSE @]
    /\ Finish(a)
    /\ UNCHANGED <<versions, active, commits, deploying>>

PublishStatus(a) ==
    LET d == pub[a].id IN
    /\ pub[a].pc = "status"
    /\ draft' = IF /\ draft[d].revision = pub[a].draft.revision
                   /\ draft[d].status \in {"committed_pending_activation", "published"}
                THEN [draft EXCEPT ![d].status = IF pub[a].synced THEN "published"
                                                 ELSE "committed_pending_activation"]
                ELSE draft
    /\ Finish(a)
    /\ UNCHANGED <<versions, active, commits, deploying>>

PublisherCrashes(a) ==
    /\ pub[a].pc # "idle"
    /\ Finish(a)
    /\ UNCHANGED <<rows, commits, deploying>>

-----------------------------------------------------------------------------
DeployGo(pc) == deploy' = IF pc = "idle" THEN NoDeploy ELSE [deploy EXCEPT !.pc = pc]

(* A change of the registry file alone is imported into the running stack  *)
(* ("sync"), anything else builds and starts it again ("up").              *)
DeployStart ==
    /\ deploy.pc = "idle"
    /\ \/ /\ commits[checkout].document # MainFile
          /\ deploy' = [pc |-> "sync", previous |-> checkout, target |-> Len(commits)]
       \/ deploy' = [pc |-> "up", previous |-> checkout, target |-> Len(commits)]
    /\ checkout' = Len(commits)
    /\ UNCHANGED <<rows, commits, pub>>

(* registry_sync names the commit; the migrate container of a full         *)
(* deployment runs the same command without one.                           *)
Import(pc, index, commit, next) ==
    /\ deploy.pc = pc
    /\ Synchronize(commits[index].document, commit)
    /\ DeployGo(next)
    /\ UNCHANGED <<pub, checkout>>

DeploySync == Import("sync", deploy.target, deploy.target, "wait")
DeployUp == Import("up", deploy.target, 0, "health")
DeployRestore == \/ Import("restore", deploy.previous, deploy.previous, "idle")
                 \/ Import("rollback", deploy.previous, 0, "idle")

(* wait_for_registry asks /health for the imported hash, thirty times; a   *)
(* full deployment asks only whether the process answers.                  *)
DeploySucceeds(served) ==
    /\ \/ deploy.pc = "wait" /\ served = commits[deploy.target].document
       \/ deploy.pc = "health"
    /\ DeployGo("idle")
    /\ UNCHANGED <<rows, commits, pub, checkout>>

(* git reset --hard to the previous commit, then its registry again.       *)
DeployFails ==
    /\ \/ deploy.pc \in {"sync", "wait"} /\ DeployGo("restore")
       \/ deploy.pc \in {"up", "health"} /\ DeployGo("rollback")
    /\ checkout' = deploy.previous
    /\ UNCHANGED <<rows, commits, pub>>

(* Restoring may fail too ("|| true").                                     *)
DeployGivesUp ==
    /\ deploy.pc \in {"restore", "rollback"}
    /\ DeployGo("idle")
    /\ UNCHANGED <<rows, commits, pub, checkout>>
=============================================================================
