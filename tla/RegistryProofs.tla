---------------------------- MODULE RegistryProofs ----------------------------
(***************************************************************************)
(* The registry for any documents, drafts, administrators and processes,   *)
(* and any bounds. A publication goes on with the draft it claimed while   *)
(* the row may have been given up, edited and claimed by somebody else: the*)
(* invariant says what the revision it remembers still tells of the row.   *)
(***************************************************************************)
EXTENDS Registry, TLAPS

Held == {commits[i].document : i \in DOMAIN commits}

Statuses == {"none", "draft", "publishing", "committed_pending_activation", "published",
             "deleted"}
PublishSteps == {"idle", "read", "put", "revert", "commit", "sync", "status"}
DeploySteps == {"idle", "sync", "up", "wait", "health", "restore", "rollback"}

DraftRow == [status : Statuses, revision : Nat, document : Documents, base : Documents,
             commit : Nat]

Publication == [pc : PublishSteps, draft : DraftRow, id : Drafts \cup {External}, commit : Nat,
                synced : BOOLEAN]

Snapshots == [document : Documents, at : Nat]

RegistryTypes ==
    /\ draft \in [Drafts -> DraftRow]
    /\ versions \subseteq Documents
    /\ active \in Snapshots
    /\ commits \in Seq([document : Documents, draft : Drafts \cup {External}])
    /\ commits # <<>>
    /\ pub \in [Admins -> Publication]
    /\ deploy \in [pc : DeploySteps, previous : DOMAIN commits, target : DOMAIN commits]
    /\ checkout \in DOMAIN commits
    /\ serving \in [Processes -> Snapshots]
    /\ loading \in [Processes -> SUBSET Snapshots]

\* What a row says of main and of the imports.
RowInv == \A d \in Drafts :
    /\ draft[d].commit # 0 =>
          /\ draft[d].status \in {"committed_pending_activation", "published"}
          /\ draft[d].commit \in DOMAIN commits
          /\ commits[draft[d].commit].document = draft[d].document
    /\ draft[d].status = "published" => draft[d].document \in versions
    /\ draft[d].status = "none" => \A i \in DOMAIN commits : commits[i].draft # d

\* A publication remembers an earlier revision or the very document, and always
\* the base of the draft.
ClaimInv == \A a \in Admins : pub[a].pc # "idle" =>
    LET d == pub[a].id IN
    /\ d \in Drafts
    /\ draft[d].status # "none"
    /\ pub[a].draft.revision > 0
    /\ draft[d].status = "deleted" => draft[d].revision = 0
    /\ draft[d].status # "deleted" =>
          /\ draft[d].base = pub[a].draft.base
          /\ draft[d].revision >= pub[a].draft.revision
    /\ draft[d].revision = pub[a].draft.revision => draft[d].document = pub[a].draft.document

\* A commit that was answered holds the document of its publication.
CommitInv == \A a \in Admins :
    /\ pub[a].pc \in {"commit", "sync", "status"} =>
          /\ pub[a].commit \in DOMAIN commits
          /\ commits[pub[a].commit].document = pub[a].draft.document
    /\ pub[a].synced => pub[a].pc = "status" /\ pub[a].draft.document \in versions

ServedInv ==
    /\ active.document \in Held
    /\ \A p \in Processes :
          /\ serving[p].document \in Held /\ serving[p].at <= active.at
          /\ \A s \in loading[p] : /\ s.document \in Held
                                   /\ serving[p].at <= s.at /\ s.at <= active.at
          /\ \A s, t \in loading[p] : s = t

RegistryInv ==
    /\ RegistryTypes /\ RowInv /\ ClaimInv /\ CommitInv /\ ServedInv /\ DraftIsCommittedOnce

\* Rows keep what publications remember of them.
RowsMoveOn == \A d \in Drafts :
    /\ draft'[d] = [draft[d] EXCEPT !.status = draft'[d].status, !.commit = draft'[d].commit]
    /\ \/ draft[d].status \in {"none", "deleted"}
       \/ draft'[d].status \in {"none", "deleted"}
       => draft'[d].status = draft[d].status
-----------------------------------------------------------------------------
(* Lemmas about the parts of the state.                                    *)

USE DEF Statuses, PublishSteps, DeploySteps

LEMMA DraftType == RegistryInv => draft \in [Drafts -> DraftRow]
  BY DEF RegistryInv, RegistryTypes

LEMMA PubType == RegistryInv => pub \in [Admins -> Publication]
  BY DEF RegistryInv, RegistryTypes

LEMMA CommitsType ==
  RegistryInv => /\ commits \in Seq([document : Documents, draft : Drafts \cup {External}])
                 /\ Len(commits) \in Nat /\ Len(commits) > 0 /\ DOMAIN commits = 1..Len(commits)
                 /\ \A i \in DOMAIN commits : /\ commits[i].document \in Documents
                                              /\ commits[i].document \in Held
<1> SUFFICES ASSUME RegistryInv
             PROVE  /\ commits \in Seq([document : Documents, draft : Drafts \cup {External}])
                    /\ Len(commits) \in Nat /\ Len(commits) > 0 /\ DOMAIN commits = 1..Len(commits)
                    /\ \A i \in DOMAIN commits : /\ commits[i].document \in Documents
                                                 /\ commits[i].document \in Held
  OBVIOUS
<1>1. /\ commits \in Seq([document : Documents, draft : Drafts \cup {External}])
      /\ commits # <<>>
  BY DEF RegistryInv, RegistryTypes
<1>2. Len(commits) \in Nat /\ Len(commits) > 0 /\ DOMAIN commits = 1..Len(commits)
  BY <1>1
<1>3. \A i \in DOMAIN commits :
         commits[i] \in [document : Documents, draft : Drafts \cup {External}]
  <2> DEFINE Commit == [document : Documents, draft : Drafts \cup {External}]
  <2>1. commits \in Seq(Commit)
    BY <1>1
  <2> HIDE DEF Commit
  <2>2. \A i \in DOMAIN commits : commits[i] \in Commit
    BY <2>1
  <2>3. QED
    BY <2>2 DEF Commit
<1>4. QED
  BY <1>1, <1>2, <1>3 DEF Held

LEMMA IdleType == Idle \in Publication /\ Idle.pc = "idle" /\ ~Idle.synced
  BY RegistryAssumption DEF Idle, NoDraft, Publication, DraftRow

LEMMA RegistryInitial == Init => RegistryInv
<1> SUFFICES ASSUME Init PROVE RegistryInv
  OBVIOUS
<1> USE RegistryAssumption DEF Init, StoreInit, PublishInit, NoDraft, Idle, NoDeploy
<1>1. /\ commits \in Seq([document : Documents, draft : Drafts \cup {External}])
      /\ commits # <<>> /\ DOMAIN commits = {1}
      /\ commits[1] = [document |-> Genesis, draft |-> External]
  OBVIOUS
<1>2. RegistryTypes
  <2>1. draft \in [Drafts -> DraftRow] /\ active \in Snapshots /\ versions \subseteq Documents
    BY DEF DraftRow, Snapshots
  <2>2. /\ pub \in [Admins -> Publication]
        /\ deploy \in [pc : DeploySteps, previous : DOMAIN commits, target : DOMAIN commits]
        /\ checkout \in DOMAIN commits
    BY <1>1, IdleType
  <2>3. /\ serving \in [Processes -> Snapshots]
        /\ loading \in [Processes -> SUBSET Snapshots]
    BY <2>1
  <2>4. QED
    BY <1>1, <2>1, <2>2, <2>3 DEF RegistryTypes
<1>3. RowInv /\ ClaimInv /\ CommitInv
  BY <1>1 DEF RowInv, ClaimInv, CommitInv
<1>4. ServedInv
  BY <1>1 DEF ServedInv, Held
<1>5. DraftIsCommittedOnce
  BY DEF DraftIsCommittedOnce
<1>6. QED
  BY <1>2, <1>3, <1>4, <1>5 DEF RegistryInv

\* main only grows, and what it held it holds.
LEMMA Appended ==
  ASSUME RegistryInv, NEW c \in [document : Documents, draft : Drafts \cup {External}],
         commits' = Append(commits, c)
  PROVE  /\ Len(commits) \in Nat /\ Len(commits) > 0
         /\ DOMAIN commits = 1..Len(commits) /\ DOMAIN commits' = 1..(Len(commits) + 1)
         /\ Len(commits') = Len(commits) + 1
         /\ \A i \in 1..Len(commits) : commits'[i] = commits[i]
         /\ commits'[Len(commits) + 1] = c
         /\ commits' \in Seq([document : Documents, draft : Drafts \cup {External}])
         /\ commits' # <<>> /\ Held \subseteq Held'
<1>1. commits \in Seq([document : Documents, draft : Drafts \cup {External}]) /\ commits # <<>>
  BY DEF RegistryInv, RegistryTypes
<1>2. /\ Len(commits) \in Nat /\ Len(commits) > 0
      /\ DOMAIN commits = 1..Len(commits) /\ DOMAIN commits' = 1..(Len(commits) + 1)
      /\ Len(commits') = Len(commits) + 1
      /\ \A i \in 1..Len(commits) : commits'[i] = commits[i]
      /\ commits'[Len(commits) + 1] = c
      /\ commits' \in Seq([document : Documents, draft : Drafts \cup {External}])
      /\ commits' # <<>>
  BY <1>1
<1>3. Held \subseteq Held'
  BY <1>2 DEF Held
<1>4. QED
  BY <1>2, <1>3

LEMMA HeadIsHeld == RegistryInv => Len(commits) \in DOMAIN commits /\ MainFile \in Held
  BY DEF RegistryInv, RegistryTypes, MainFile, Held

\* Nothing that is served changes.
LEMMA ServedStands ==
  ASSUME RegistryInv, UNCHANGED <<active, serving, loading>>, Held \subseteq Held'
  PROVE  ServedInv'
  BY DEF RegistryInv, ServedInv

\* A commit that is appended: of no draft, or over the base of its draft.
LEMMA AppendKeeps ==
  ASSUME RegistryInv, NEW c \in [document : Documents, draft : Drafts \cup {External}],
         commits' = Append(commits, c),
         UNCHANGED <<draft, versions, active, checkout, serving, loading, deploy>>,
         c.draft = External \/ (/\ draft[c.draft].status # "none"
                                /\ draft[c.draft].status # "deleted" =>
                                      MainFile = draft[c.draft].base)
  PROVE  /\ RowInv' /\ ServedInv' /\ DraftIsCommittedOnce'
         /\ \A a \in Admins : pub'[a] = pub[a] =>
               /\ pub'[a].pc \in {"commit", "sync", "status"} =>
                     /\ pub'[a].commit \in DOMAIN commits'
                     /\ commits'[pub'[a].commit].document = pub'[a].draft.document
<1>1. /\ Len(commits) \in Nat /\ Len(commits) > 0
      /\ DOMAIN commits = 1..Len(commits) /\ DOMAIN commits' = 1..(Len(commits) + 1)
      /\ Len(commits') = Len(commits) + 1
      /\ \A i \in 1..Len(commits) : commits'[i] = commits[i]
      /\ commits'[Len(commits) + 1] = c /\ Held \subseteq Held'
  BY Appended
<1>2. RowInv'
  BY <1>1, RegistryAssumption DEF RegistryInv, RowInv
<1>3. ServedInv'
  BY <1>1, ServedStands
<1>4. DraftIsCommittedOnce'
  <2>1. SUFFICES ASSUME NEW d \in Drafts, NEW i \in 1..(Len(commits) + 1),
                        NEW j \in 1..(Len(commits) + 1),
                        draft[d].status \notin {"none", "deleted"}, i < j,
                        commits'[i].draft = d, commits'[j].draft = d
                 PROVE  \E k \in i..(j - 1) : commits'[k].document = draft[d].base
    BY <1>1 DEF DraftIsCommittedOnce
  <2>2. CASE j \in 1..Len(commits)
    <3>1. PICK k \in i..(j - 1) : commits[k].document = draft[d].base
      BY <1>1, <2>1, <2>2 DEF RegistryInv, DraftIsCommittedOnce
    <3>2. QED
      BY <1>1, <2>2, <3>1
  <2>3. CASE j = Len(commits) + 1
    <3>1. c.draft = d /\ MainFile = draft[d].base
      BY <1>1, <2>1, <2>3, RegistryAssumption
    <3>2. QED
      BY <1>1, <2>1, <2>3, <3>1 DEF MainFile
  <2>4. QED
    BY <2>2, <2>3
<1>5. \A a \in Admins : pub'[a] = pub[a] =>
               /\ pub'[a].pc \in {"commit", "sync", "status"} =>
                     /\ pub'[a].commit \in DOMAIN commits'
                     /\ commits'[pub'[a].commit].document = pub'[a].draft.document
  BY <1>1 DEF RegistryInv, CommitInv
<1>6. QED
  BY <1>2, <1>3, <1>4, <1>5

\* An import of a document that main holds, under its commit or without one.
LEMMA SynchronizeKeeps ==
  ASSUME RegistryInv, NEW doc \in Documents, NEW commit \in Nat, Synchronize(doc, commit),
         doc \in Held, commit # 0 => commit \in DOMAIN commits /\ commits[commit].document = doc,
         UNCHANGED <<serving, loading>>
  PROVE  /\ RowInv' /\ ServedInv' /\ DraftIsCommittedOnce'
         /\ draft' \in [Drafts -> DraftRow] /\ versions' \subseteq Documents
         /\ active' \in Snapshots /\ doc \in versions' /\ versions \subseteq versions'
         /\ RowsMoveOn
<1> USE DEF Synchronize
<1>1. \A d \in Drafts :
         draft'[d] = IF /\ commit # 0
                        /\ draft[d].status = "committed_pending_activation"
                        /\ draft[d].commit = commit
                     THEN [draft[d] EXCEPT !.status = "published"] ELSE draft[d]
  OBVIOUS
<1>2. draft' \in [Drafts -> DraftRow] /\ versions' \subseteq Documents /\ active' \in Snapshots
  <2>1. \A d \in Drafts : draft'[d] \in DraftRow
    BY <1>1, DraftType DEF DraftRow
  <2>2. draft' \in [Drafts -> DraftRow]
    BY <2>1
  <2>3. versions' \subseteq Documents /\ active' \in Snapshots
    BY DEF RegistryInv, RegistryTypes, Snapshots
  <2>4. QED
    BY <2>2, <2>3
<1>3. RowsMoveOn
  BY <1>1, DraftType DEF DraftRow, RowsMoveOn
<1>4. RowInv'
  BY <1>1, <1>2 DEF RegistryInv, RegistryTypes, DraftRow, RowInv
<1>5. ServedInv'
  BY DEF RegistryInv, RegistryTypes, Snapshots, ServedInv, Held
<1>6. DraftIsCommittedOnce'
  <2>1. UNCHANGED commits /\ \A d \in Drafts : /\ draft'[d].base = draft[d].base
                                               /\ draft'[d].status \notin {"none", "deleted"} =>
                                                     draft[d].status \notin {"none", "deleted"}
    BY <1>1, DraftType DEF DraftRow
  <2>2. QED
    BY <2>1 DEF RegistryInv, DraftIsCommittedOnce
<1>7. QED
  BY <1>2, <1>3, <1>4, <1>5, <1>6

\* What publications remember of a row.
LEMMA RowsRemember ==
  ASSUME RegistryInv, RowsMoveOn
  PROVE  \A d \in Drafts : /\ draft'[d].base = draft[d].base
                           /\ draft'[d].revision = draft[d].revision
                           /\ draft'[d].document = draft[d].document
                           /\ \/ draft[d].status \in {"none", "deleted"}
                              \/ draft'[d].status \in {"none", "deleted"}
                              => draft'[d].status = draft[d].status
<1>1. \A d \in Drafts : draft[d] \in DraftRow
  BY DraftType
<1>2. \A d \in Drafts :
         draft'[d] = [draft[d] EXCEPT !.status = draft'[d].status, !.commit = draft'[d].commit]
  BY DEF RowsMoveOn
<1>3. \A d \in Drafts : /\ draft'[d].base = draft[d].base
                         /\ draft'[d].revision = draft[d].revision
                         /\ draft'[d].document = draft[d].document
  <2>1. SUFFICES ASSUME NEW d \in Drafts
                 PROVE  /\ draft'[d].base = draft[d].base
                        /\ draft'[d].revision = draft[d].revision
                        /\ draft'[d].document = draft[d].document
    OBVIOUS
  <2>2. draft[d] \in DraftRow
    BY <1>1
  <2>3. draft'[d] = [draft[d] EXCEPT !.status = draft'[d].status, !.commit = draft'[d].commit]
    BY <1>2
  <2> DEFINE s == draft'[d].status  n == draft'[d].commit  old == draft[d]
  <2>4. draft'[d] = [old EXCEPT !.status = s, !.commit = n] /\ old \in DraftRow
    BY <2>2, <2>3
  <2> HIDE DEF s, n, old
  <2>5. draft'[d].base = old.base /\ draft'[d].revision = old.revision
        /\ draft'[d].document = old.document
    BY <2>4 DEF DraftRow
  <2>6. QED
    BY <2>5 DEF old
<1>4. QED
  BY <1>3 DEF RowsMoveOn

\* What a publication says stands, for one that goes on.
LEMMA ClaimGoesOn ==
  ASSUME RegistryInv, RowsMoveOn, NEW a \in Admins, pub[a].pc # "idle",
         pub'[a].draft = pub[a].draft, pub'[a].id = pub[a].id
  PROVE  LET d == pub'[a].id IN
         /\ d \in Drafts
         /\ draft'[d].status # "none"
         /\ pub'[a].draft.revision > 0
         /\ draft'[d].status = "deleted" => draft'[d].revision = 0
         /\ draft'[d].status # "deleted" =>
               /\ draft'[d].base = pub'[a].draft.base
               /\ draft'[d].revision >= pub'[a].draft.revision
         /\ draft'[d].revision = pub'[a].draft.revision =>
               draft'[d].document = pub'[a].draft.document
<1> DEFINE d == pub[a].id
<1>1. /\ d \in Drafts
      /\ draft[d].status # "none"
      /\ pub[a].draft.revision > 0
      /\ draft[d].status = "deleted" => draft[d].revision = 0
      /\ draft[d].status # "deleted" =>
            /\ draft[d].base = pub[a].draft.base
            /\ draft[d].revision >= pub[a].draft.revision
      /\ draft[d].revision = pub[a].draft.revision => draft[d].document = pub[a].draft.document
  BY DEF RegistryInv, ClaimInv
<1> HIDE DEF d
<1>2. /\ draft'[d].base = draft[d].base
      /\ draft'[d].revision = draft[d].revision
      /\ draft'[d].document = draft[d].document
      /\ \/ draft[d].status \in {"none", "deleted"}
         \/ draft'[d].status \in {"none", "deleted"}
         => draft'[d].status = draft[d].status
  BY <1>1, RowsRemember
<1>3. pub'[a].id = d
  BY DEF d
<1>4. QED
  BY <1>1, <1>2, <1>3

\* It stands when rows change their status and their commit only.
LEMMA ClaimStands ==
  ASSUME RegistryInv,
         RowsMoveOn,
         \A a \in Admins : pub'[a].pc = "idle" \/ (/\ pub[a].pc # "idle"
                                                   /\ pub'[a].draft = pub[a].draft
                                                   /\ pub'[a].id = pub[a].id)
  PROVE  ClaimInv'
<1>1. SUFFICES ASSUME NEW a \in Admins, pub'[a].pc # "idle"
               PROVE  LET d == pub'[a].id IN
                      /\ d \in Drafts
                      /\ draft'[d].status # "none"
                      /\ pub'[a].draft.revision > 0
                      /\ draft'[d].status = "deleted" => draft'[d].revision = 0
                      /\ draft'[d].status # "deleted" =>
                            /\ draft'[d].base = pub'[a].draft.base
                            /\ draft'[d].revision >= pub'[a].draft.revision
                      /\ draft'[d].revision = pub'[a].draft.revision =>
                            draft'[d].document = pub'[a].draft.document
  BY DEF ClaimInv
<1>2. /\ pub[a].pc # "idle"
      /\ pub'[a].draft = pub[a].draft /\ pub'[a].id = pub[a].id
  BY <1>1
<1>3. QED
  BY <1>2, ClaimGoesOn
-----------------------------------------------------------------------------
(* The edits.                                                              *)

LEMMA CreateDraftKeeps ==
  ASSUME RegistryInv, NEW d \in Drafts, CreateDraft(d),
         UNCHANGED <<pub, deploying, serving, loading>>
  PROVE  RegistryInv'
<1>1. /\ draft[d].status = "none"
      /\ UNCHANGED <<versions, active, commits, pub, deploy, checkout, serving, loading>>
  BY DEF CreateDraft, deploying
<1>2. PICK doc \in Documents, base \in Documents :
         draft' = [draft EXCEPT ![d] = [NoDraft EXCEPT !.status = "draft", !.revision = 1,
                                                       !.document = doc, !.base = base]]
  <2>1. versions \subseteq Documents
    BY DEF RegistryInv, RegistryTypes
  <2>2. QED
    BY <2>1, CommitsType DEF CreateDraft
<1>3. /\ draft' \in [Drafts -> DraftRow]
      /\ draft'[d] = [NoDraft EXCEPT !.status = "draft", !.revision = 1,
                                     !.document = doc, !.base = base]
      /\ draft'[d].status = "draft" /\ draft'[d].commit = 0
      /\ \A e \in Drafts : e # d => draft'[e] = draft[e]
  BY <1>2, DraftType DEF DraftRow, NoDraft
<1>4. RegistryTypes'
  BY <1>1, <1>3 DEF RegistryInv, RegistryTypes
<1>5. RowInv' /\ ClaimInv' /\ CommitInv'
  <2>1. RowInv'
    <3>1. /\ draft'[d].status = "draft" /\ draft'[d].commit = 0
          /\ \A e \in Drafts : e # d => draft'[e] = draft[e]
      BY <1>3
    <3>2. QED
      BY <1>1, <3>1 DEF RegistryInv, RowInv
  <2>2. \A a \in Admins : pub[a].pc # "idle" => pub[a].id # d
    BY <1>1 DEF RegistryInv, ClaimInv
  <2>3. ClaimInv'
    BY <1>1, <1>3, <2>2 DEF RegistryInv, ClaimInv
  <2>4. CommitInv'
    BY <1>1 DEF RegistryInv, CommitInv
  <2>5. QED
    BY <2>1, <2>3, <2>4
<1>6. ServedInv'
  BY <1>1 DEF RegistryInv, ServedInv, Held
<1>7. DraftIsCommittedOnce'
  <2>1. \A k \in 1..Len(commits) : commits[k].draft # d
    BY <1>1, CommitsType DEF RegistryInv, RowInv
  <2>2. QED
    BY <1>1, <1>3, <2>1 DEF RegistryInv, DraftIsCommittedOnce
<1>8. QED
  BY <1>4, <1>5, <1>6, <1>7 DEF RegistryInv

LEMMA UpdateDraftKeeps ==
  ASSUME RegistryInv, NEW d \in Drafts, NEW r \in 1..MaxRevision, NEW doc \in Documents,
         UpdateDraft(d, r, doc), UNCHANGED <<pub, deploying, serving, loading>>
  PROVE  RegistryInv'
<1> USE RegistryAssumption DEF UpdateDraft, deploying
<1>1. /\ draft[d].status = "draft" /\ draft[d].revision = r /\ r \in Nat
      /\ draft' = [draft EXCEPT ![d].document = doc, ![d].revision = r + 1]
      /\ UNCHANGED <<versions, active, commits, pub, deploy, checkout, serving, loading>>
  OBVIOUS
<1>2. /\ draft'[d] = [draft[d] EXCEPT !.document = doc, !.revision = r + 1]
      /\ \A e \in Drafts : e # d => draft'[e] = draft[e]
      /\ draft' \in [Drafts -> DraftRow]
      /\ draft'[d].status = "draft" /\ draft'[d].revision = r + 1 /\ draft'[d].document = doc
      /\ draft'[d].base = draft[d].base /\ draft'[d].commit = draft[d].commit
      /\ \A e \in Drafts : draft[e].revision \in Nat
  BY <1>1, DraftType DEF DraftRow
<1>3. \A a \in Admins : pub[a].draft.revision \in Nat
  BY PubType DEF Publication, DraftRow
<1>4. RegistryTypes'
  BY <1>1, <1>2 DEF RegistryInv, RegistryTypes
<1>5. RowInv'
  BY <1>1, <1>2 DEF RegistryInv, RowInv
<1>6. ClaimInv'
  BY <1>1, <1>2, <1>3 DEF RegistryInv, ClaimInv
<1>7. CommitInv' /\ ServedInv'
  BY <1>1 DEF RegistryInv, CommitInv, ServedInv, Held
<1>8. DraftIsCommittedOnce'
  BY <1>1, <1>2, <1>3 DEF RegistryInv, DraftIsCommittedOnce
<1>9. QED
  BY <1>4, <1>5, <1>6, <1>7, <1>8 DEF RegistryInv

LEMMA DeleteDraftKeeps ==
  ASSUME RegistryInv, NEW d \in Drafts, DeleteDraft(d),
         UNCHANGED <<pub, deploying, serving, loading>>
  PROVE  RegistryInv'
<1> USE RegistryAssumption DEF DeleteDraft, deploying
<1>1. /\ draft[d].status = "draft"
      /\ UNCHANGED <<versions, active, commits, pub, deploy, checkout, serving, loading>>
  OBVIOUS
<1>2. NoDraft \in DraftRow
  BY DEF NoDraft, DraftRow
<1>3. /\ draft'[d].status = "deleted" /\ draft'[d].revision = 0 /\ draft'[d].commit = 0
      /\ \A e \in Drafts : e # d => draft'[e] = draft[e]
      /\ draft' \in [Drafts -> DraftRow]
  BY <1>1, <1>2, DraftType DEF DraftRow, NoDraft
<1>4. RegistryTypes'
  BY <1>1, <1>3 DEF RegistryInv, RegistryTypes
<1>5. RowInv'
  BY <1>1, <1>3 DEF RegistryInv, RowInv
<1>6. ClaimInv'
  BY <1>1, <1>3 DEF RegistryInv, ClaimInv
<1>7. CommitInv' /\ ServedInv'
  BY <1>1 DEF RegistryInv, CommitInv, ServedInv, Held
<1>8. DraftIsCommittedOnce'
  BY <1>1, <1>3 DEF RegistryInv, DraftIsCommittedOnce
<1>9. QED
  BY <1>4, <1>5, <1>6, <1>7, <1>8 DEF RegistryInv

\* A row that moves on, perhaps with its commit.
LEMMA RowMoves ==
  ASSUME RegistryInv, NEW d \in Drafts, NEW s \in Statuses, NEW n \in Nat,
         draft' = [draft EXCEPT ![d].status = s, ![d].commit = n],
         draft[d].status \notin {"none", "deleted"}, s \notin {"none", "deleted"},
         n # 0 => /\ s \in {"committed_pending_activation", "published"}
                  /\ n \in DOMAIN commits /\ commits[n].document = draft[d].document,
         s = "published" => draft[d].document \in versions,
         UNCHANGED <<versions, active, commits, serving, loading>>
  PROVE  /\ draft' \in [Drafts -> DraftRow] /\ RowInv' /\ ServedInv' /\ DraftIsCommittedOnce'
         /\ RowsMoveOn
<1>1. /\ draft'[d] = [draft[d] EXCEPT !.status = s, !.commit = n]
      /\ \A e \in Drafts : e # d => draft'[e] = draft[e]
      /\ draft' \in [Drafts -> DraftRow]
  BY DraftType DEF DraftRow
<1>2. /\ draft'[d].status = s /\ draft'[d].commit = n
      /\ draft'[d].document = draft[d].document /\ draft'[d].base = draft[d].base
      /\ draft'[d].revision = draft[d].revision
  BY <1>1, DraftType DEF DraftRow
<1>3. RowsMoveOn
  BY <1>1, <1>2, DraftType DEF DraftRow, RowsMoveOn
<1>4. RowInv'
  BY <1>1, <1>2 DEF RegistryInv, RowInv
<1>5. ServedInv' /\ DraftIsCommittedOnce'
  BY <1>1, <1>2 DEF RegistryInv, ServedInv, Held, DraftIsCommittedOnce
<1>6. QED
  BY <1>1, <1>3, <1>4, <1>5

\* A publication that goes on, or ends.
LEMMA PublicationMoves ==
  ASSUME RegistryInv, NEW a \in Admins, NEW p \in Publication, pub' = [pub EXCEPT ![a] = p],
         UNCHANGED commits, versions \subseteq versions',
         \/ p.pc = "idle"
         \/ pub[a].pc # "idle" /\ p.draft = pub[a].draft /\ p.id = pub[a].id,
         p.pc \in {"commit", "sync", "status"} =>
            p.commit \in DOMAIN commits /\ commits[p.commit].document = p.draft.document,
         p.synced => p.pc = "status" /\ p.draft.document \in versions'
  PROVE  /\ pub' \in [Admins -> Publication] /\ CommitInv'
         /\ \A b \in Admins : pub'[b].pc = "idle" \/ (/\ pub[b].pc # "idle"
                                                      /\ pub'[b].draft = pub[b].draft
                                                      /\ pub'[b].id = pub[b].id)
<1>1. /\ pub' \in [Admins -> Publication] /\ pub'[a] = p
      /\ \A b \in Admins : b # a => pub'[b] = pub[b]
  BY DEF RegistryInv, RegistryTypes
<1>2. QED
  BY <1>1 DEF RegistryInv, CommitInv

\* A publication moves alone.
LEMMA AloneKeeps ==
  ASSUME RegistryInv, NEW a \in Admins, NEW p \in Publication, pub' = [pub EXCEPT ![a] = p],
         UNCHANGED <<draft, versions, active, commits, deploy, checkout, serving, loading>>,
         \/ p.pc = "idle"
         \/ pub[a].pc # "idle" /\ p.draft = pub[a].draft /\ p.id = pub[a].id,
         p.pc \in {"commit", "sync", "status"} =>
            p.commit \in DOMAIN commits /\ commits[p.commit].document = p.draft.document,
         p.synced => p.pc = "status" /\ p.draft.document \in versions
  PROVE  RegistryInv'
<1>1. /\ pub' \in [Admins -> Publication] /\ CommitInv'
      /\ \A b \in Admins : pub'[b].pc = "idle" \/ (/\ pub[b].pc # "idle"
                                                   /\ pub'[b].draft = pub[b].draft
                                                   /\ pub'[b].id = pub[b].id)
  BY PublicationMoves
<1>2. ClaimInv'
  BY <1>1 DEF RegistryInv, ClaimInv
<1>3. RegistryTypes' /\ RowInv' /\ ServedInv' /\ DraftIsCommittedOnce'
  BY <1>1 DEF RegistryInv, RegistryTypes, RowInv, ServedInv, Held, DraftIsCommittedOnce
<1>4. QED
  BY <1>1, <1>2, <1>3 DEF RegistryInv

\* A row and a publication move together.
LEMMA TogetherKeeps ==
  ASSUME RegistryInv, NEW a \in Admins, NEW p \in Publication, pub' = [pub EXCEPT ![a] = p],
         NEW d \in Drafts, NEW s \in Statuses, NEW n \in Nat,
         draft' = [draft EXCEPT ![d].status = s, ![d].commit = n],
         draft[d].status \notin {"none", "deleted"}, s \notin {"none", "deleted"},
         n # 0 => /\ s \in {"committed_pending_activation", "published"}
                  /\ n \in DOMAIN commits /\ commits[n].document = draft[d].document,
         s = "published" => draft[d].document \in versions,
         UNCHANGED <<versions, active, commits, deploy, checkout, serving, loading>>,
         \/ p.pc = "idle"
         \/ pub[a].pc # "idle" /\ p.draft = pub[a].draft /\ p.id = pub[a].id,
         p.pc \in {"commit", "sync", "status"} =>
            p.commit \in DOMAIN commits /\ commits[p.commit].document = p.draft.document,
         p.synced => p.pc = "status" /\ p.draft.document \in versions
  PROVE  RegistryInv'
<1>1. /\ pub' \in [Admins -> Publication] /\ CommitInv'
      /\ \A b \in Admins : pub'[b].pc = "idle" \/ (/\ pub[b].pc # "idle"
                                                   /\ pub'[b].draft = pub[b].draft
                                                   /\ pub'[b].id = pub[b].id)
  BY PublicationMoves
<1>2. /\ draft' \in [Drafts -> DraftRow] /\ RowInv' /\ ServedInv' /\ DraftIsCommittedOnce'
      /\ RowsMoveOn
  BY RowMoves
<1>3. ClaimInv'
  BY <1>1, <1>2, ClaimStands
<1>4. RegistryTypes'
  BY <1>1, <1>2 DEF RegistryInv, RegistryTypes
<1>5. QED
  BY <1>1, <1>2, <1>3, <1>4 DEF RegistryInv

LEMMA ListDraftsKeeps ==
  ASSUME RegistryInv, NEW d \in Drafts, ListDrafts(d),
         UNCHANGED <<pub, deploying, serving, loading>>
  PROVE  RegistryInv'
<1>1. /\ draft[d].status = "publishing"
      /\ UNCHANGED <<versions, active, commits, pub, deploy, checkout, serving, loading>>
  BY DEF ListDrafts, deploying
<1>2. draft' = [draft EXCEPT ![d].status = "draft", ![d].commit = 0]
  BY DraftType DEF DraftRow, ListDrafts
<1>3. /\ draft' \in [Drafts -> DraftRow] /\ RowInv' /\ ServedInv' /\ DraftIsCommittedOnce'
      /\ RowsMoveOn
  BY <1>1, <1>2, RowMoves
<1>4. ClaimInv'
  BY <1>1, <1>3, ClaimStands
<1>5. RegistryTypes' /\ CommitInv'
  BY <1>1, <1>3 DEF RegistryInv, RegistryTypes, CommitInv
<1>6. QED
  BY <1>3, <1>4, <1>5 DEF RegistryInv

LEMMA PushToMainKeeps ==
  ASSUME RegistryInv, NEW doc \in Documents, PushToMain(doc),
         UNCHANGED <<pub, deploying, serving, loading>>
  PROVE  RegistryInv'
<1> DEFINE c == [document |-> doc, draft |-> External]
<1>1. /\ commits' = Append(commits, c)
      /\ UNCHANGED <<draft, versions, active, checkout, serving, loading, deploy, pub>>
      /\ c \in [document : Documents, draft : Drafts \cup {External}] /\ c.draft = External
  BY DEF PushToMain, deploying
<1> HIDE DEF c
<1>2. RowInv' /\ ServedInv' /\ DraftIsCommittedOnce'
  BY <1>1, AppendKeeps
<1>3. CommitInv'
  BY <1>1, AppendKeeps DEF RegistryInv, CommitInv
<1>4. RegistryTypes'
  BY <1>1, Appended DEF RegistryInv, RegistryTypes
<1>5. ClaimInv'
  BY <1>1 DEF RegistryInv, ClaimInv
<1>6. QED
  BY <1>2, <1>3, <1>4, <1>5 DEF RegistryInv
-----------------------------------------------------------------------------
(* The publications.                                                       *)

\* The revision that is remembered still names the document.
LEMMA ClaimIsHeld ==
  ASSUME RegistryInv, NEW a \in Admins, pub[a].pc # "idle"
  PROVE  /\ pub[a].id \in Drafts /\ pub[a] \in Publication
         /\ HoldsClaim(a) => /\ draft[pub[a].id].status = "publishing"
                             /\ draft[pub[a].id].document = pub[a].draft.document
         /\ draft[pub[a].id].revision = pub[a].draft.revision =>
               draft[pub[a].id].document = pub[a].draft.document
         /\ draft[pub[a].id].status # "none"
         /\ draft[pub[a].id].status # "deleted" =>
               draft[pub[a].id].base = pub[a].draft.base
  BY DEF RegistryInv, RegistryTypes, ClaimInv, HoldsClaim

LEMMA PublishClaimKeeps ==
  ASSUME RegistryInv, NEW a \in Admins, NEW d \in Drafts, NEW r \in 1..MaxRevision,
         PublishClaim(a, d, r), UNCHANGED <<serving, loading>>
  PROVE  RegistryInv'
<1> DEFINE p == [Idle EXCEPT !.pc = "read", !.draft = draft[d], !.id = d]
<1>1. /\ pub' = [pub EXCEPT ![a] = [Idle EXCEPT !.pc = "read", !.draft = draft[d], !.id = d]]
      /\ draft' = [draft EXCEPT ![d].status = "publishing"]
      /\ UNCHANGED <<versions, active, commits, deploy, checkout, serving, loading>>
      /\ draft[d].status = "draft" /\ draft[d].revision = r
      /\ r \in Nat /\ r > 0
  BY RegistryAssumption DEF PublishClaim, deploying
<1>2. draft[d].commit = 0 /\ draft[d] \in DraftRow
  BY <1>1, DraftType DEF RegistryInv, RowInv
<1>3. /\ p \in Publication
      /\ p.pc = "read" /\ p.draft = draft[d] /\ p.id = d /\ ~p.synced
  BY <1>2, IdleType DEF Publication
<1> HIDE DEF p
<1>4. draft' = [draft EXCEPT ![d].status = "publishing", ![d].commit = 0]
  BY <1>1, <1>2, DraftType DEF DraftRow
<1>5. /\ draft' \in [Drafts -> DraftRow] /\ RowInv' /\ ServedInv' /\ DraftIsCommittedOnce'
      /\ RowsMoveOn
  BY <1>1, <1>4, RowMoves
<1>6. \A e \in Drafts : /\ draft'[e].base = draft[e].base
                         /\ draft'[e].revision = draft[e].revision
                         /\ draft'[e].document = draft[e].document
                         /\ \/ draft[e].status \in {"none", "deleted"}
                            \/ draft'[e].status \in {"none", "deleted"}
                            => draft'[e].status = draft[e].status
  BY <1>5, RowsRemember
<1>7. /\ pub' \in [Admins -> Publication] /\ pub'[a] = p
      /\ \A b \in Admins : b # a => pub'[b] = pub[b]
  <2>1. pub' = [pub EXCEPT ![a] = p]
    BY <1>1 DEF p
  <2>2. QED
    BY <2>1, <1>3, PubType
<1>8. CommitInv'
  BY <1>1, <1>7, <1>3 DEF RegistryInv, CommitInv
<1>9. ClaimInv'
  <2>1. SUFFICES ASSUME NEW b \in Admins, pub'[b].pc # "idle"
                 PROVE  LET e == pub'[b].id IN
                        /\ e \in Drafts
                        /\ draft'[e].status # "none"
                        /\ pub'[b].draft.revision > 0
                        /\ draft'[e].status = "deleted" => draft'[e].revision = 0
                        /\ draft'[e].status # "deleted" =>
                              /\ draft'[e].base = pub'[b].draft.base
                              /\ draft'[e].revision >= pub'[b].draft.revision
                        /\ draft'[e].revision = pub'[b].draft.revision =>
                              draft'[e].document = pub'[b].draft.document
    BY DEF ClaimInv
  <2>2. CASE b = a
    BY <1>1, <1>7, <1>3, <1>6, <2>2
  <2>3. CASE b # a
    <3>1. pub'[b] = pub[b]
      BY <1>7, <2>3
    <3>2. pub[b].pc # "idle" /\ pub'[b].draft = pub[b].draft /\ pub'[b].id = pub[b].id
      BY <2>1, <3>1
    <3>3. QED
      BY <1>5, <3>2, ClaimGoesOn
  <2>4. QED
    BY <2>2, <2>3
<1>10. RegistryTypes'
  BY <1>1, <1>5, <1>7 DEF RegistryInv, RegistryTypes
<1>11. QED
  BY <1>5, <1>8, <1>9, <1>10 DEF RegistryInv

\* The steps that touch nothing but the publication.
LEMMA PublishAloneKeeps ==
  ASSUME RegistryInv, NEW a \in Admins, pub[a].pc # "idle", NEW pc \in PublishSteps,
         \/ pub' = [pub EXCEPT ![a] = Idle]
         \/ /\ pub' = [pub EXCEPT ![a].pc = pc]
            /\ pub[a].pc # "status" /\ pc # "commit"
            /\ pc \in {"sync", "status"} => pub[a].pc = "sync",
         UNCHANGED <<draft, versions, active, commits, deploy, checkout, serving, loading>>
  PROVE  RegistryInv'
<1>1. CASE /\ pub' = [pub EXCEPT ![a].pc = pc]
           /\ pub[a].pc # "status" /\ pc # "commit"
           /\ pc \in {"sync", "status"} => pub[a].pc = "sync"
  <2> DEFINE p == [pub[a] EXCEPT !.pc = pc]
  <2>1. /\ p \in Publication /\ pub' = [pub EXCEPT ![a] = p]
        /\ p.pc = pc /\ p.draft = pub[a].draft /\ p.id = pub[a].id
        /\ p.commit = pub[a].commit /\ p.synced = pub[a].synced
    BY <1>1 DEF RegistryInv, RegistryTypes, Publication
  <2>2. /\ ~p.synced
        /\ pc \in {"commit", "sync", "status"} =>
              p.commit \in DOMAIN commits /\ commits[p.commit].document = p.draft.document
    BY <1>1, <2>1 DEF RegistryInv, CommitInv
  <2> HIDE DEF p
  <2>3. QED
    BY <2>1, <2>2, AloneKeeps
<1>2. CASE pub' = [pub EXCEPT ![a] = Idle]
  <2>1. Idle \in Publication /\ Idle.pc = "idle" /\ ~Idle.synced
    BY IdleType
  <2>2. QED
    BY <1>2, <2>1, AloneKeeps
<1>3. QED
  BY <1>1, <1>2

LEMMA PublishPutKeeps ==
  ASSUME RegistryInv, NEW a \in Admins, PublishPut(a), UNCHANGED <<serving, loading>>
  PROVE  RegistryInv'
<1>1. pub[a].pc = "put" /\ UNCHANGED <<draft, versions, active, deploy, checkout, serving, loading>>
  BY DEF PublishPut, rows, deploying
<1>2. CASE Go(a, "revert") /\ UNCHANGED commits
  BY <1>1, <1>2, PublishAloneKeeps DEF Go
<1>3. CASE /\ MainFile = pub[a].draft.base
           /\ commits' = Append(commits, [document |-> pub[a].draft.document,
                                          draft |-> pub[a].id])
           /\ \/ pub' = [pub EXCEPT ![a].pc = "commit", ![a].commit = Len(commits')]
              \/ Go(a, "revert")
  <2> DEFINE c == [document |-> pub[a].draft.document, draft |-> pub[a].id]
  <2>1. /\ c \in [document : Documents, draft : Drafts \cup {External}]
        /\ c.draft = pub[a].id /\ c.document = pub[a].draft.document
        /\ draft[c.draft].status # "none"
        /\ draft[c.draft].status # "deleted" => MainFile = draft[c.draft].base
    BY <1>1, <1>3, ClaimIsHeld DEF Publication, DraftRow
  <2>2. commits' = Append(commits, c)
    BY <1>3
  <2> HIDE DEF c
  <2>3. /\ Len(commits) \in Nat /\ DOMAIN commits' = 1..(Len(commits) + 1)
        /\ Len(commits) > 0 /\ DOMAIN commits = 1..Len(commits)
        /\ Len(commits') = Len(commits) + 1 /\ commits'[Len(commits) + 1] = c
        /\ commits' \in Seq([document : Documents, draft : Drafts \cup {External}])
        /\ commits' # <<>>
    BY <2>1, <2>2, Appended
  <2>4. /\ RowInv' /\ ServedInv' /\ DraftIsCommittedOnce'
        /\ \A b \in Admins : pub'[b] = pub[b] =>
              /\ pub'[b].pc \in {"commit", "sync", "status"} =>
                    /\ pub'[b].commit \in DOMAIN commits'
                    /\ commits'[pub'[b].commit].document = pub'[b].draft.document
    BY <1>1, <2>1, <2>2, AppendKeeps
  <2>5. PICK p \in Publication :
           /\ pub' = [pub EXCEPT ![a] = p]
           /\ p.draft = pub[a].draft /\ p.id = pub[a].id /\ p.synced = pub[a].synced
           /\ p.pc = "revert" \/ (p.pc = "commit" /\ p.commit = Len(commits) + 1)
    <3>1. pub[a] \in Publication
      BY DEF RegistryInv, RegistryTypes
    <3>2. CASE Go(a, "revert")
      <4> DEFINE p == [pub[a] EXCEPT !.pc = "revert"]
      <4>1. /\ p \in Publication /\ p.draft = pub[a].draft /\ p.id = pub[a].id /\ p.pc = "revert"
            /\ p.synced = pub[a].synced
        BY <3>1 DEF Publication
      <4>2. pub' = [pub EXCEPT ![a] = p]
        BY <3>2 DEF Go
      <4>3. QED
        BY <4>1, <4>2
    <3>3. CASE pub' = [pub EXCEPT ![a].pc = "commit", ![a].commit = Len(commits')]
      <4> DEFINE n == Len(commits')  p == [pub[a] EXCEPT !.pc = "commit", !.commit = n]
      <4>1. n \in Nat /\ n = Len(commits) + 1
        BY <2>3
      <4> HIDE DEF n
      <4>2. /\ p \in Publication /\ p.draft = pub[a].draft /\ p.id = pub[a].id
            /\ p.pc = "commit" /\ p.commit = n /\ p.synced = pub[a].synced
        BY <3>1, <4>1 DEF Publication
      <4>3. pub' = [pub EXCEPT ![a] = p]
        BY <3>3 DEF n
      <4>4. QED
        BY <4>1, <4>2, <4>3
    <3>4. QED
      BY <1>3, <3>2, <3>3
  <2>6. /\ pub' \in [Admins -> Publication] /\ pub'[a] = p
        /\ \A b \in Admins : b # a => pub'[b] = pub[b]
    BY <2>5 DEF RegistryInv, RegistryTypes
  <2>7. CommitInv'
    <3>1. ~pub[a].synced /\ ~p.synced
      BY <1>1, <2>5 DEF RegistryInv, CommitInv
    <3>2. QED
      BY <1>1, <2>1, <2>3, <2>4, <2>5, <2>6, <3>1 DEF RegistryInv, CommitInv
  <2>8. ClaimInv'
    BY <1>1, <2>5, <2>6 DEF RegistryInv, ClaimInv
  <2>9. RegistryTypes'
    BY <1>1, <2>3, <2>6 DEF RegistryInv, RegistryTypes
  <2>10. QED
    BY <2>4, <2>7, <2>8, <2>9 DEF RegistryInv
<1>4. QED
  BY <1>2, <1>3 DEF PublishPut

LEMMA PublishRevertKeeps ==
  ASSUME RegistryInv, NEW a \in Admins, PublishRevert(a), UNCHANGED <<serving, loading>>
  PROVE  RegistryInv'
<1> DEFINE d == pub[a].id
<1>1. /\ pub[a].pc = "revert" /\ pub' = [pub EXCEPT ![a] = Idle]
      /\ UNCHANGED <<versions, active, commits, deploy, checkout, serving, loading>>
  BY DEF PublishRevert, Finish, deploying
<1>2. Idle \in Publication /\ Idle.pc = "idle" /\ ~Idle.synced
  BY IdleType
<1>3. CASE ~HoldsClaim(a)
  BY <1>1, <1>2, <1>3, AloneKeeps DEF PublishRevert
<1>4. CASE HoldsClaim(a)
  <2>1. d \in Drafts /\ draft[d].status = "publishing"
    BY <1>1, <1>4, ClaimIsHeld
  <2>2. draft' = [draft EXCEPT ![d].status = "draft", ![d].commit = 0]
    <3>1. draft' = [draft EXCEPT ![d].status = "draft"]
      BY <1>4 DEF PublishRevert
    <3>2. draft[d].commit = 0
      BY <2>1 DEF RegistryInv, RowInv
    <3>3. QED
      BY <2>1, <3>1, <3>2, DraftType DEF DraftRow
  <2> HIDE DEF d
  <2>3. QED
    BY <1>1, <1>2, <2>1, <2>2, TogetherKeeps
<1>5. QED
  BY <1>3, <1>4

LEMMA PublishCommittedKeeps ==
  ASSUME RegistryInv, NEW a \in Admins, PublishCommitted(a), UNCHANGED <<serving, loading>>
  PROVE  RegistryInv'
<1> DEFINE d == pub[a].id
<1>1. /\ pub[a].pc = "commit"
      /\ UNCHANGED <<versions, active, commits, deploy, checkout, serving, loading>>
  BY DEF PublishCommitted, deploying
<1>2. CASE ~HoldsClaim(a)
  <2>1. UNCHANGED draft /\ pub' = [pub EXCEPT ![a] = Idle]
    BY <1>2 DEF PublishCommitted, Finish
  <2>2. QED
    BY <1>1, <2>1, PublishAloneKeeps
<1>3. CASE HoldsClaim(a)
  <2> DEFINE p == [pub[a] EXCEPT !.pc = "sync"]  n == pub[a].commit
             s == "committed_pending_activation"
  <2>1. /\ d \in Drafts /\ draft[d].status = "publishing"
        /\ draft[d].document = pub[a].draft.document /\ pub[a] \in Publication
        /\ n \in DOMAIN commits /\ commits[n].document = pub[a].draft.document /\ ~pub[a].synced
    BY <1>1, <1>3, ClaimIsHeld DEF RegistryInv, CommitInv
  <2>2. /\ draft' = [draft EXCEPT ![d].status = s, ![d].commit = n]
        /\ pub' = [pub EXCEPT ![a] = p]
    BY <1>3 DEF PublishCommitted, Go
  <2>3. /\ p \in Publication /\ p.pc = "sync" /\ p.commit = n /\ n \in Nat
        /\ p.draft = pub[a].draft /\ p.id = pub[a].id /\ ~p.synced
    BY <2>1 DEF Publication
  <2>4. /\ s \in Statuses /\ s \notin {"none", "deleted"} /\ s # "published"
        /\ s \in {"committed_pending_activation", "published"}
        /\ draft[d].status \notin {"none", "deleted"}
    BY <2>1
  <2> HIDE DEF d, p, n, s
  <2>5. /\ n # 0 => /\ s \in {"committed_pending_activation", "published"}
                    /\ n \in DOMAIN commits /\ commits[n].document = draft[d].document
        /\ p.pc \in {"commit", "sync", "status"} =>
              p.commit \in DOMAIN commits /\ commits[p.commit].document = p.draft.document
        /\ pub[a].pc # "idle" /\ p.draft = pub[a].draft /\ p.id = pub[a].id
        /\ s = "published" => draft[d].document \in versions
        /\ p.synced => p.pc = "status" /\ p.draft.document \in versions
    BY <1>1, <2>1, <2>3, <2>4
  <2>6. QED
    BY <1>1, <2>1, <2>2, <2>3, <2>4, <2>5, TogetherKeeps
<1>4. QED
  BY <1>2, <1>3

LEMMA PublishSyncKeeps ==
  ASSUME RegistryInv, NEW a \in Admins, PublishSync(a), UNCHANGED <<serving, loading>>
  PROVE  RegistryInv'
<1>1. pub[a].pc = "sync" /\ UNCHANGED <<deploy, checkout, serving, loading>>
  BY DEF PublishSync, deploying
<1>2. CASE Go(a, "status") /\ UNCHANGED <<rows, commits>>
  BY <1>1, <1>2, PublishAloneKeeps DEF Go, rows
<1>3. CASE /\ Synchronize(pub[a].draft.document, pub[a].commit)
           /\ pub' = [pub EXCEPT ![a].pc = "status", ![a].synced = TRUE]
  <2> DEFINE doc == pub[a].draft.document  n == pub[a].commit
             p == [pub[a] EXCEPT !.pc = "status", !.synced = TRUE]
  <2>1. /\ pub[a] \in Publication /\ n \in DOMAIN commits /\ commits[n].document = doc
    BY <1>1, ClaimIsHeld DEF RegistryInv, CommitInv
  <2>2. doc \in Documents /\ n \in Nat /\ doc \in Held
    BY <2>1 DEF Publication, DraftRow, Held
  <2>3. /\ p \in Publication /\ pub' = [pub EXCEPT ![a] = p] /\ p.pc = "status" /\ p.synced
        /\ p.draft = pub[a].draft /\ p.id = pub[a].id /\ p.commit = n /\ p.draft.document = doc
    BY <1>3, <2>1 DEF Publication
  <2>4. Synchronize(doc, n) /\ UNCHANGED commits
    BY <1>3 DEF Synchronize
  <2> HIDE DEF doc, p, n
  <2>5. /\ RowInv' /\ ServedInv' /\ DraftIsCommittedOnce'
        /\ draft' \in [Drafts -> DraftRow] /\ versions' \subseteq Documents
        /\ active' \in Snapshots /\ doc \in versions' /\ versions \subseteq versions'
        /\ RowsMoveOn
    BY <1>1, <2>1, <2>2, <2>4, SynchronizeKeeps
  <2>6. /\ pub' \in [Admins -> Publication] /\ CommitInv'
        /\ \A b \in Admins : pub'[b].pc = "idle" \/ (/\ pub[b].pc # "idle"
                                                     /\ pub'[b].draft = pub[b].draft
                                                     /\ pub'[b].id = pub[b].id)
    BY <1>1, <2>1, <2>3, <2>4, <2>5, PublicationMoves
  <2>7. ClaimInv'
    BY <2>5, <2>6, ClaimStands
  <2>8. RegistryTypes'
    BY <1>1, <2>4, <2>5, <2>6 DEF RegistryInv, RegistryTypes
  <2>9. QED
    BY <2>5, <2>6, <2>7, <2>8 DEF RegistryInv
<1>4. QED
  BY <1>2, <1>3 DEF PublishSync

LEMMA PublishStatusKeeps ==
  ASSUME RegistryInv, NEW a \in Admins, PublishStatus(a), UNCHANGED <<serving, loading>>
  PROVE  RegistryInv'
<1> DEFINE d == pub[a].id
           current == /\ draft[d].revision = pub[a].draft.revision
                      /\ draft[d].status \in {"committed_pending_activation", "published"}
           s == IF pub[a].synced THEN "published" ELSE "committed_pending_activation"
<1>1. /\ pub[a].pc = "status" /\ pub' = [pub EXCEPT ![a] = Idle]
      /\ UNCHANGED <<versions, active, commits, deploy, checkout, serving, loading>>
      /\ draft' = IF current THEN [draft EXCEPT ![d].status = s] ELSE draft
  BY DEF PublishStatus, Finish, deploying
<1>2. Idle \in Publication /\ Idle.pc = "idle" /\ ~Idle.synced
  BY IdleType
<1>3. CASE ~current
  BY <1>1, <1>2, <1>3, AloneKeeps
<1>4. CASE current
  <2>1. /\ d \in Drafts /\ draft[d].document = pub[a].draft.document
        /\ draft[d].status \in {"committed_pending_activation", "published"}
        /\ pub[a].synced => draft[d].document \in versions
    BY <1>1, <1>4, ClaimIsHeld DEF RegistryInv, CommitInv
  <2> DEFINE n == draft[d].commit
  <2>2. draft' = [draft EXCEPT ![d].status = s, ![d].commit = n] /\ n \in Nat
    BY <1>1, <1>4, <2>1, DraftType DEF DraftRow
  <2>3. /\ s \in {"committed_pending_activation", "published"}
        /\ s \in Statuses /\ s \notin {"none", "deleted"}
        /\ s = "published" => draft[d].document \in versions
        /\ n # 0 => /\ s \in {"committed_pending_activation", "published"}
                   /\ n \in DOMAIN commits /\ commits[n].document = draft[d].document
        /\ draft[d].status \notin {"none", "deleted"}
    BY <2>1 DEF RegistryInv, RowInv
  <2> HIDE DEF d, s, n, current
  <2>4. PICK p \in Publication : p = Idle /\ p.pc = "idle" /\ ~p.synced
    BY <1>2
  <2>5. /\ pub' = [pub EXCEPT ![a] = p]
        /\ UNCHANGED <<versions, active, commits, deploy, checkout, serving, loading>>
        /\ \/ p.pc = "idle"
           \/ pub[a].pc # "idle" /\ p.draft = pub[a].draft /\ p.id = pub[a].id
        /\ p.pc \in {"commit", "sync", "status"} =>
              p.commit \in DOMAIN commits /\ commits[p.commit].document = p.draft.document
        /\ p.synced => p.pc = "status" /\ p.draft.document \in versions
    BY <1>1, <2>4
  <2>6. QED
    BY <2>1, <2>2, <2>3, <2>5, TogetherKeeps
<1>5. QED
  BY <1>3, <1>4

LEMMA PublishKeeps ==
  ASSUME RegistryInv, NEW a \in Admins, Publish(a)
  PROVE  RegistryInv'
<1>1. UNCHANGED <<serving, loading>>
  BY DEF Publish
<1>2. CASE PublishRead(a)
  BY <1>1, <1>2, PublishAloneKeeps DEF PublishRead, Go, rows, deploying
<1>3. CASE PublisherCrashes(a)
  BY <1>1, <1>3, PublishAloneKeeps DEF PublisherCrashes, Finish, rows, deploying
<1>4. QED
  BY <1>1, <1>2, <1>3, PublishClaimKeeps, PublishPutKeeps, PublishRevertKeeps,
     PublishCommittedKeeps, PublishSyncKeeps, PublishStatusKeeps DEF Publish
-----------------------------------------------------------------------------
(* The deployment and the processes.                                       *)

LEMMA ImportKeeps ==
  ASSUME RegistryInv, NEW pc, NEW index \in DOMAIN commits, NEW commit \in {0, index},
         NEW next \in DeploySteps, Import(pc, index, commit, next), UNCHANGED <<serving, loading>>
  PROVE  RegistryInv'
<1> DEFINE doc == commits[index].document
<1>1. /\ Synchronize(doc, commit) /\ DeployGo(next) /\ UNCHANGED <<pub, checkout, commits>>
  BY DEF Import, Synchronize
<1>2. /\ doc \in Documents /\ doc \in Held /\ commit \in Nat
      /\ commit # 0 => commit \in DOMAIN commits /\ commits[commit].document = doc
  BY CommitsType
<1> HIDE DEF doc
<1>3. /\ RowInv' /\ ServedInv' /\ DraftIsCommittedOnce'
      /\ draft' \in [Drafts -> DraftRow] /\ versions' \subseteq Documents
      /\ active' \in Snapshots /\ versions \subseteq versions' /\ RowsMoveOn
  BY <1>1, <1>2, SynchronizeKeeps
<1>4. ClaimInv' /\ CommitInv'
  <2>1. ClaimInv'
    BY <1>1, <1>3, ClaimStands DEF RegistryInv
  <2>2. CommitInv'
    BY <1>1, <1>3 DEF RegistryInv, CommitInv
  <2>3. QED
    BY <2>1, <2>2
<1>5. RegistryTypes'
  <2>1. deploy' \in [pc : DeploySteps, previous : DOMAIN commits, target : DOMAIN commits]
    BY <1>1 DEF DeployGo, NoDeploy, RegistryInv, RegistryTypes
  <2>2. QED
    BY <1>1, <1>3, <2>1 DEF RegistryInv, RegistryTypes
<1>6. QED
  BY <1>3, <1>4, <1>5 DEF RegistryInv

LEMMA DeployKeeps == ASSUME RegistryInv, Deploy PROVE RegistryInv'
<1>1. /\ UNCHANGED <<serving, loading>> /\ Len(commits) \in DOMAIN commits /\ 1 \in DOMAIN commits
      /\ deploy \in [pc : DeploySteps, previous : DOMAIN commits, target : DOMAIN commits]
      /\ checkout \in DOMAIN commits
  BY HeadIsHeld DEF Deploy, RegistryInv, RegistryTypes
<1>2. CASE DeploySync \/ DeployUp \/ DeployRestore
  <2>1. deploy.target \in DOMAIN commits /\ deploy.previous \in DOMAIN commits
    BY <1>1
  <2>2. QED
    BY <1>1, <1>2, <2>1, ImportKeeps DEF DeploySync, DeployUp, DeployRestore
<1>3. CASE \/ DeployStart \/ DeployFails \/ DeployGivesUp
           \/ \E p \in Processes : DeploySucceeds(serving[p].document)
  <2>1. /\ UNCHANGED <<draft, versions, active, commits, pub>>
        /\ deploy' \in [pc : DeploySteps, previous : DOMAIN commits, target : DOMAIN commits]
        /\ checkout' \in DOMAIN commits
    BY <1>1, <1>3 DEF DeployStart, DeployFails, DeployGivesUp, DeploySucceeds, DeployGo, NoDeploy,
       rows
  <2>2. RegistryTypes' /\ RowInv' /\ ClaimInv' /\ CommitInv'
    BY <1>1, <2>1 DEF RegistryInv, RegistryTypes, RowInv, ClaimInv, CommitInv
  <2>3. ServedInv' /\ DraftIsCommittedOnce'
    BY <1>1, <2>1 DEF RegistryInv, ServedInv, Held, DraftIsCommittedOnce
  <2>4. QED
    BY <2>2, <2>3 DEF RegistryInv
<1>4. QED
  BY <1>2, <1>3 DEF Deploy

\* A process moves: what it serves and loads is not newer than what is active.
LEMMA ProcessKeeps ==
  ASSUME RegistryInv, NEW p \in Processes, Refresh(p) \/ Replace(p) \/ Restart(p)
  PROVE  /\ RegistryInv'
         /\ \A q \in Processes : serving'[q].at >= serving[q].at
<1>1. UNCHANGED <<draft, versions, active, commits, pub, deploy, checkout>>
  BY DEF Refresh, Replace, Restart, others, rows, deploying
<1>2. /\ RowInv' /\ ClaimInv' /\ CommitInv' /\ DraftIsCommittedOnce'
  BY <1>1 DEF RegistryInv, RowInv, ClaimInv, CommitInv, DraftIsCommittedOnce
<1>3. /\ serving' \in [Processes -> Snapshots] /\ loading' \in [Processes -> SUBSET Snapshots]
      /\ \A q \in Processes \ {p} : serving'[q] = serving[q] /\ loading'[q] = loading[q]
      /\ \/ serving'[p] = serving[p] /\ loading[p] = {} /\ loading'[p] = {active}
         \/ /\ serving'[p] \in loading[p] /\ loading'[p] = loading[p] \ {serving'[p]}
         \/ serving'[p] = active /\ loading'[p] = {}
  <2>1. CASE Refresh(p)
    BY <2>1 DEF Refresh, MayRefresh, RegistryInv, RegistryTypes
  <2>2. CASE Replace(p)
    BY <2>2 DEF Replace, RegistryInv, RegistryTypes
  <2>3. CASE Restart(p)
    BY <2>3 DEF Restart, RegistryInv, RegistryTypes
  <2>4. QED
    BY <2>1, <2>2, <2>3
<1>4. ServedInv'
  <2>1. active.document \in Held /\ Held' = Held /\ active.at \in Nat /\ active' = active
    BY <1>1 DEF RegistryInv, RegistryTypes, Snapshots, ServedInv, Held
  <2>2. \A q \in Processes : serving[q] \in Snapshots /\ loading[q] \subseteq Snapshots
    BY DEF RegistryInv, RegistryTypes
  <2> HIDE DEF Held
  <2>3. QED
    BY <1>3, <2>1, <2>2 DEF RegistryInv, Snapshots, ServedInv
<1>5. \A q \in Processes : serving'[q].at >= serving[q].at
  BY <1>3 DEF RegistryInv, RegistryTypes, Snapshots, ServedInv
<1>6. RegistryTypes'
  BY <1>1, <1>3 DEF RegistryInv, RegistryTypes
<1>7. QED
  BY <1>2, <1>4, <1>5, <1>6 DEF RegistryInv

LEMMA RegistryStep == RegistryInv /\ [Next]_vars => RegistryInv'
<1> SUFFICES ASSUME RegistryInv, [Next]_vars PROVE RegistryInv'
  OBVIOUS
<1>1. CASE Edit
  <2>1. CASE \E d \in Drafts : CreateDraft(d) \/ DeleteDraft(d) \/ ListDrafts(d)
    BY <1>1, <2>1, CreateDraftKeeps, DeleteDraftKeeps, ListDraftsKeeps DEF Edit
  <2>2. CASE \E d \in Drafts, r \in 1..MaxRevision, doc \in Documents : UpdateDraft(d, r, doc)
    BY <1>1, <2>2, UpdateDraftKeeps DEF Edit
  <2>3. CASE \E doc \in Documents : PushToMain(doc)
    BY <1>1, <2>3, PushToMainKeeps DEF Edit
  <2>4. QED
    BY <1>1, <2>1, <2>2, <2>3 DEF Edit
<1>2. CASE UNCHANGED vars
  <2>1. RegistryTypes' /\ RowInv' /\ ClaimInv' /\ CommitInv'
    BY <1>2 DEF vars, RegistryInv, RegistryTypes, RowInv, ClaimInv, CommitInv
  <2>2. ServedInv' /\ DraftIsCommittedOnce'
    BY <1>2 DEF vars, RegistryInv, ServedInv, Held, DraftIsCommittedOnce
  <2>3. QED
    BY <2>1, <2>2 DEF RegistryInv
<1>3. QED
  BY <1>1, <1>2, PublishKeeps, DeployKeeps, ProcessKeeps DEF Next

LEMMA RegistryInvariant == Spec => []RegistryInv
<1>1. Init => RegistryInv
  BY RegistryInitial
<1>2. RegistryInv /\ [Next]_vars => RegistryInv'
  BY RegistryStep
<1>3. QED
  BY <1>1, <1>2, PTL DEF Spec
-----------------------------------------------------------------------------
(* A commit stays with the document of its own draft (admin/service.ts:    *)
(* 316-330), however often publications are given up and claimed again.    *)
THEOREM CommitIsOfTheDraftCorrect == Spec => []CommitIsOfTheDraft
<1>1. RegistryInv => CommitIsOfTheDraft
  BY DEF RegistryInv, RowInv, CommitIsOfTheDraft
<1>2. QED
  BY <1>1, RegistryInvariant, PTL

(* A draft is called published only once its document has been imported    *)
(* (admin/service.ts:331-345, registry/sync.ts).                           *)
THEOREM PublishedWasActivatedCorrect == Spec => []PublishedWasActivated
<1>1. RegistryInv => PublishedWasActivated
  BY DEF RegistryInv, RowInv, PublishedWasActivated
<1>2. QED
  BY <1>1, RegistryInvariant, PTL

(* A draft reaches main once, unless main has returned to its base: the    *)
(* comparison GitHub makes (admin/github.ts) suffices, whatever answers    *)
(* are lost.                                                               *)
THEOREM DraftIsCommittedOnceCorrect == Spec => []DraftIsCommittedOnce
<1>1. RegistryInv => DraftIsCommittedOnce
  BY DEF RegistryInv
<1>2. QED
  BY <1>1, RegistryInvariant, PTL

(* What a process serves main has held, whoever imported it.               *)
THEOREM ServedWasCommittedCorrect == Spec => []ServedWasCommitted
<1>1. RegistryInv => ServedWasCommitted
  <2>1. SUFFICES ASSUME RegistryInv, NEW p \in Processes
                 PROVE  \E i \in 1..Len(commits) : commits[i].document = serving[p].document
    BY DEF ServedWasCommitted
  <2>2. serving[p].document \in Held /\ DOMAIN commits = 1..Len(commits)
    <3>1. ServedInv
      BY <2>1 DEF RegistryInv
    <3>2. QED
      BY <2>1, <3>1, CommitsType DEF ServedInv
  <2>3. QED
    BY <2>2 DEF Held
<1>2. QED
  BY <1>1, RegistryInvariant, PTL

(* A process never goes back to an older activation (registry/runtime.ts): *)
(* one load at a time is enough.                                           *)
THEOREM NeverReloadsBackwardsCorrect == Spec => NeverReloadsBackwards
<1>1. RegistryInv /\ [Next]_vars =>
        [\A p \in Processes : serving'[p].at >= serving[p].at]_serving
  <2>1. SUFFICES ASSUME RegistryInv, Next, serving' # serving
                 PROVE  \A p \in Processes : serving'[p].at >= serving[p].at
    BY DEF vars
  <2>2. PICK p \in Processes : Refresh(p) \/ Replace(p) \/ Restart(p)
    BY <2>1 DEF Next, Edit, Publish, Deploy
  <2>3. QED
    BY <2>1, <2>2, ProcessKeeps
<1>2. QED
  BY <1>1, RegistryInvariant, PTL DEF Spec, NeverReloadsBackwards
=============================================================================
