------------------------------ MODULE Registry ------------------------------
(***************************************************************************)
(* The registry from a draft to the processes that serve it:               *)
(* ProviderRegistryReloader in every process, beside the administrators    *)
(* and the deploy script. A notification or a poll starts a refresh; the   *)
(* poll alone must do when notifications are lost, so both are one action, *)
(* and the LISTEN connection, which only decides between them, has no      *)
(* state here.                                                             *)
(***************************************************************************)
EXTENDS RegistryPublish

CONSTANTS Processes   \* API and worker processes

VARIABLES serving, \* per process: ReloadableProviderRegistry's snapshot
          loading  \* per process: loads whose answer is not applied yet

vars == <<draft, versions, active, commits, pub, deploy, checkout, serving, loading>>
others == <<rows, commits, pub, deploying>>

Init ==
    /\ StoreInit
    /\ PublishInit
    /\ serving = [p \in Processes |-> active]
    /\ loading = [p \in Processes |-> {}]

\* Mutants of MayRefresh: loads overlap; a process loads once.
MayAlwaysRefresh(p) == p \in Processes
MayRefreshOnce(p) == loading[p] = {} /\ serving[p].at = 0

(* #refresh: a load under way answers every later call.                    *)
MayRefresh(p) == loading[p] = {}

(* loadActiveProviderRegistry; a failed load leaves everything as it was.  *)
Refresh(p) ==
    /\ MayRefresh(p)
    /\ loading' = [loading EXCEPT ![p] = @ \cup {active}]
    /\ UNCHANGED <<others, serving>>

Replace(p) ==
    \E snapshot \in loading[p] :
       /\ serving' = [serving EXCEPT ![p] = snapshot]
       /\ loading' = [loading EXCEPT ![p] = @ \ {snapshot}]
       /\ UNCHANGED others

(* A new process loads the active registry before it serves.               *)
Restart(p) ==
    /\ serving' = [serving EXCEPT ![p] = active]
    /\ loading' = [loading EXCEPT ![p] = {}]
    /\ UNCHANGED others

Edit ==
    /\ \/ \E d \in Drafts : CreateDraft(d) \/ DeleteDraft(d) \/ ListDrafts(d)
       \/ \E d \in Drafts, r \in 1..MaxRevision, doc \in Documents : UpdateDraft(d, r, doc)
       \/ \E doc \in Documents : PushToMain(doc)
    /\ UNCHANGED <<pub, deploying, serving, loading>>

Publish(a) ==
    /\ \/ \E d \in Drafts, r \in 1..MaxRevision : PublishClaim(a, d, r)
       \/ PublishRead(a) \/ PublishPut(a) \/ PublishRevert(a) \/ PublishCommitted(a)
       \/ PublishSync(a) \/ PublishStatus(a) \/ PublisherCrashes(a)
    /\ UNCHANGED <<serving, loading>>

Deploy ==
    /\ \/ DeployStart \/ DeploySync \/ DeployUp \/ DeployRestore \/ DeployFails
       \/ DeployGivesUp
       \/ \E p \in Processes : DeploySucceeds(serving[p].document)
    /\ UNCHANGED <<serving, loading>>

Next ==
    \/ Edit
    \/ \E a \in Admins : Publish(a)
    \/ Deploy
    \/ \E p \in Processes : Refresh(p) \/ Replace(p) \/ Restart(p)

(* setInterval polls every 30 s and a query is answered in the end; nobody *)
(* has to publish or deploy.                                               *)
Fairness == \A p \in Processes : WF_vars(Refresh(p)) /\ WF_vars(Replace(p))
Spec == Init /\ [][Next]_vars /\ Fairness
-----------------------------------------------------------------------------
(* A draft that carries a commit carries the commit of its own document:   *)
(* publications given up after ten minutes, edited and claimed again do    *)
(* not attach the commit of one revision to another.                       *)
CommitIsOfTheDraft ==
    \A d \in Drafts : draft[d].commit # 0 =>
        commits[draft[d].commit].document = draft[d].document

(* A draft says published only if its document has been imported.          *)
PublishedWasActivated ==
    \A d \in Drafts : draft[d].status = "published" => draft[d].document \in versions

(* One draft reaches main once, whatever answers are lost and however      *)
(* often it is published again, unless main has returned to its base.      *)
DraftIsCommittedOnce ==
    \A d \in Drafts : \A i, j \in 1..Len(commits) :
        /\ draft[d].status \notin {"none", "deleted"} /\ i < j
        /\ commits[i].draft = d /\ commits[j].draft = d
        => \E k \in i..(j - 1) : commits[k].document = draft[d].base

(* What a process serves is a document that main has held.                 *)
ServedWasCommitted ==
    \A p \in Processes : \E i \in 1..Len(commits) :
        commits[i].document = serving[p].document

(* A process never goes back to an activation older than the one it has.   *)
NeverReloadsBackwards ==
    [][\A p \in Processes : serving'[p].at >= serving[p].at]_serving

(* Every activation reaches every process, or a later one does: without    *)
(* notifications, and through restarts.                                    *)
EveryProcessCatchesUp ==
    \A p \in Processes : \A n \in 1..MaxSyncs :
        (active.at >= n) ~> (serving[p].at >= n)
=============================================================================
