---------------------------- MODULE RegistryStore ----------------------------
(***************************************************************************)
(* The rows of the provider registry (migrations/010) and the branch main  *)
(* of the repository on GitHub: the drafts an administrator edits, the     *)
(* versions that were imported, the one active version, and the commits.   *)
(* A document stands for its content hash and for its blob hash: equal     *)
(* documents have equal hashes.                                            *)
(***************************************************************************)
EXTENDS Integers, Sequences

CONSTANTS Documents,   \* registry documents
          Genesis,     \* the document of the first commit
          Drafts,      \* draft ids
          External,    \* stands for a commit that publishes no draft
          MaxRevision, \* bound: edits of one draft
          MaxCommits,  \* bound: commits on main
          MaxSyncs     \* bound: activations

ASSUME RegistryAssumption ==
    /\ Genesis \in Documents
    /\ External \notin Drafts
    /\ {MaxRevision, MaxCommits, MaxSyncs} \subseteq Nat \ {0}

VARIABLES draft,    \* provider_registry_drafts
          versions, \* documents in provider_registry_versions
          active,   \* provider_registry_state: the document, its activated_at
          commits   \* main: the document and the draft each commit publishes

NoDraft == [status |-> "none", revision |-> 0, document |-> Genesis,
            base |-> Genesis, commit |-> 0]

MainFile == commits[Len(commits)].document

StoreInit ==
    /\ draft = [d \in Drafts |-> NoDraft]
    /\ versions = {Genesis}
    /\ active = [document |-> Genesis, at |-> 0]
    /\ commits = <<[document |-> Genesis, draft |-> External]>>

(* createDraft: the file was read from GitHub before the row is inserted,  *)
(* so its base may be any earlier head; the document is that file or an    *)
(* imported version.                                                       *)
CreateDraft(d) ==
    /\ draft[d].status = "none"
    /\ \E i \in 1..Len(commits) :
         \E doc \in {commits[i].document} \cup versions :
            draft' = [draft EXCEPT ![d] =
                        [NoDraft EXCEPT !.status = "draft", !.revision = 1,
                                        !.document = doc, !.base = commits[i].document]]
    /\ UNCHANGED <<versions, active, commits>>

UpdateDraft(d, revision, doc) ==
    /\ draft[d].status = "draft"
    /\ draft[d].revision = revision
    /\ revision < MaxRevision
    /\ draft' = [draft EXCEPT ![d].document = doc, ![d].revision = revision + 1]
    /\ UNCHANGED <<versions, active, commits>>

(* The row is gone; its id, a random UUID, is not drawn again.             *)
DeleteDraft(d) ==
    /\ draft[d].status = "draft"
    /\ draft' = [draft EXCEPT ![d] = [NoDraft EXCEPT !.status = "deleted"]]
    /\ UNCHANGED <<versions, active, commits>>

(* listDrafts gives a publication up that has been silent for ten minutes; *)
(* how long one of them has been silent is not tracked.                    *)
ListDrafts(d) ==
    /\ draft[d].status = "publishing"
    /\ draft[d].commit = 0
    /\ draft' = [draft EXCEPT ![d].status = "draft"]
    /\ UNCHANGED <<versions, active, commits>>

(* main moves without a draft: a merged pull request.                      *)
PushToMain(doc) ==
    /\ Len(commits) < MaxCommits
    /\ commits' = Append(commits, [document |-> doc, draft |-> External])
    /\ UNCHANGED <<draft, versions, active>>

(* syncProviderRegistry, one transaction. Commit 0 is the missing commit,  *)
(* NULL in SQL, which equals nothing.                                      *)
Synchronize(doc, commit) ==
    /\ active.at < MaxSyncs
    /\ versions' = versions \cup {doc}
    /\ active' = [document |-> doc, at |-> active.at + 1]
    /\ draft' = [d \in Drafts |->
                   IF /\ commit # 0
                      /\ draft[d].status = "committed_pending_activation"
                      /\ draft[d].commit = commit
                   THEN [draft[d] EXCEPT !.status = "published"]
                   ELSE draft[d]]
    /\ UNCHANGED commits
=============================================================================
