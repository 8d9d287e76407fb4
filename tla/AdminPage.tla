----------------------------- MODULE AdminPage -----------------------------
(***************************************************************************)
(* The page on which an administrator edits the registry                   *)
(* (frontend/src/pages/AdminRegistryPage.tsx), against the drafts of the   *)
(* server (backend/src/admin/service.ts), which other administrators and   *)
(* other windows save, delete and publish too. A click and what the server *)
(* makes of its request are one step, the answer is another one: nobody    *)
(* but the page itself sees what lies between the first two, whereas the   *)
(* user goes on typing before the answer comes. Busy buttons are disabled, *)
(* so that there is one call at a time. Login, the history of the versions *)
(* and validate, which change nothing here, are left out.                  *)
(***************************************************************************)
EXTENDS Naturals

CONSTANTS Texts,       \* what the editor may hold
          Parsed,      \* the document a valid text is parsed to
          Sheets,      \* ids of drafts
          LastRevision \* bound: edits of one draft

ASSUME AdminPageAssumption ==
    /\ DOMAIN Parsed \subseteq Texts
    /\ \A t \in DOMAIN Parsed : Parsed[t] \in DOMAIN Parsed /\ Parsed[Parsed[t]] = Parsed[t]
    /\ LastRevision \in Nat

VARIABLES table,    \* provider_registry_drafts
          listed,   \* drafts: the rows as the page was last told, some out of date
          desk,     \* draft, document, dirty and confirmPublish of the page
          errand,   \* the call under way, and what it is going to be answered
          confirmed \* history: what was shown at a confirmation, what was then published

adminvars == <<table, listed, desk, errand, confirmed>>

NoSheet == [status |-> "none", revision |-> 0, document |-> "none"]
NoDesk == [open |-> FALSE, id |-> "none", row |-> NoSheet, text |-> "none", dirty |-> FALSE,
           asked |-> FALSE, strayed |-> FALSE]
NoErrand == [at |-> "none", id |-> "none", text |-> "none", reply |-> NoSheet]

AdminInit ==
    /\ table = [d \in Sheets |-> NoSheet]
    /\ listed = [d \in {} |-> NoSheet]
    /\ desk = NoDesk
    /\ errand = [NoErrand EXCEPT !.at = "refresh"]
    /\ confirmed = {}

Busy == errand.at # "none"
IsValid(text) == text \in DOMAIN Parsed
ParsedDocuments == {Parsed[t] : t \in DOMAIN Parsed}
-----------------------------------------------------------------------------
(* The server.                                                             *)
Exists(d) == table[d].status \notin {"none", "deleted"}
IsOpen(d) == table[d].status = "draft"

\* Mutant of Matches: the revision is not compared.
MatchesAnyhow(d, revision) == IsOpen(d)

(* WHERE id=$1 AND revision=$2 AND status='draft'                          *)
Matches(d, revision) == IsOpen(d) /\ table[d].revision = revision

Updated(d, text) ==
    [table[d] EXCEPT !.document = Parsed[text], !.revision = table[d].revision + 1]
Claimed(d) == [table[d] EXCEPT !.status = "publishing"]

(* createDraft: the file on main, or a version.                            *)
Create(d, doc) ==
    /\ table[d] = NoSheet
    /\ table' = [table EXCEPT ![d] = [status |-> "draft", revision |-> 1, document |-> doc]]

Update(d, text) ==
    /\ IsValid(text) /\ table[d].revision < LastRevision
    /\ table' = [table EXCEPT ![d] = Updated(d, text)]

Delete(d) ==
    /\ IsOpen(d)
    /\ table' = [table EXCEPT ![d] = [NoSheet EXCEPT !.status = "deleted"]]

(* The rest of publishDraft: the row is closed, or open again.             *)
Conclude(d) ==
    /\ table[d].status = "publishing"
    /\ \E status \in {"draft", "committed_pending_activation", "published"} :
          table' = [table EXCEPT ![d].status = status]
    /\ UNCHANGED <<listed, desk, errand, confirmed>>

(* Another administrator, or this one in another window.                   *)
Others(d) ==
    /\ \/ \E doc \in ParsedDocuments : Create(d, doc)
       \/ IsOpen(d) /\ \E text \in Texts : Update(d, text)
       \/ Delete(d)
       \/ IsOpen(d) /\ table' = [table EXCEPT ![d] = Claimed(d)]
    /\ UNCHANGED <<listed, desk, errand, confirmed>>
-----------------------------------------------------------------------------
(* The page.                                                               *)
Opened(d, row) == [NoDesk EXCEPT !.open = TRUE, !.id = d, !.row = row, !.text = row.document]

Relisted(d, row) == [x \in DOMAIN listed \cup {d} |-> IF x = d THEN row ELSE listed[x]]
Unlisted(d) == [x \in DOMAIN listed \ {d} |-> listed[x]]

(* refresh: on loading the page and after a publication.                   *)
Refreshed ==
    /\ errand.at = "refresh"
    /\ listed' = [d \in {x \in Sheets : Exists(x)} |-> table[d]]
    /\ errand' = NoErrand
    /\ UNCHANGED <<table, desk, confirmed>>

NewDraft(d) ==
    /\ ~Busy
    /\ \E doc \in ParsedDocuments : Create(d, doc)
    /\ errand' = [NoErrand EXCEPT !.at = "create", !.id = d, !.reply = table'[d]]
    /\ UNCHANGED <<listed, desk, confirmed>>

DraftCreated ==
    /\ errand.at = "create"
    /\ desk' = Opened(errand.id, errand.reply)
    /\ listed' = Relisted(errand.id, errand.reply)
    /\ errand' = NoErrand
    /\ UNCHANGED <<table, confirmed>>

(* The list is shown while no draft is open; it may be out of date.        *)
SelectDraft(d) ==
    /\ ~Busy /\ ~desk.open
    /\ d \in DOMAIN listed /\ listed[d].status = "draft"
    /\ desk' = Opened(d, listed[d])
    /\ UNCHANGED <<table, listed, errand, confirmed>>

Discard ==
    /\ ~Busy /\ desk.open /\ desk.dirty
    /\ desk' = Opened(desk.id, desk.row)
    /\ UNCHANGED <<table, listed, errand, confirmed>>

(* The editor is not disabled while a call is under way.                   *)
MutateDocument(text) ==
    /\ desk.open
    /\ desk' = [desk EXCEPT !.text = text, !.dirty = TRUE, !.asked = FALSE]
    /\ UNCHANGED <<table, listed, errand, confirmed>>

AskToPublish ==
    /\ desk.open
    /\ \/ ~Busy /\ desk.row.status = "draft" /\ desk' = [desk EXCEPT !.asked = TRUE]
       \/ desk.asked /\ desk' = [desk EXCEPT !.asked = FALSE]
    /\ UNCHANGED <<table, listed, errand, confirmed>>

(* saveDraft with the revision the page knows, for save and for publish.   *)
Saving(for) ==
    /\ Matches(desk.id, desk.row.revision) /\ Update(desk.id, desk.text)
    /\ errand' = [at |-> for, id |-> desk.id, text |-> desk.text, reply |-> table'[desk.id]]

Save ==
    /\ ~Busy /\ desk.open /\ desk.dirty
    /\ Saving("save")
    /\ UNCHANGED <<listed, desk, confirmed>>

(* What was typed since is overwritten.                                    *)
Saved ==
    /\ errand.at = "save"
    /\ desk' = [desk EXCEPT !.row = errand.reply, !.text = errand.reply.document, !.dirty = FALSE,
                            !.strayed = FALSE]
    /\ listed' = [d \in DOMAIN listed |-> IF d = errand.id THEN errand.reply ELSE listed[d]]
    /\ errand' = NoErrand
    /\ UNCHANGED <<table, confirmed>>

(* publishDraft of a revision: shown is what the user has confirmed.       *)
Publishing(d, row, text, strayed) ==
    /\ Matches(d, row.revision)
    /\ table' = [table EXCEPT ![d] = Claimed(d)]
    /\ errand' = [NoErrand EXCEPT !.at = "publish", !.id = d]
    /\ confirmed' = confirmed \cup
         {[shown |-> text, published |-> table[d].document, strayed |-> strayed]}

(* publish: an unsaved draft is saved first.                               *)
ConfirmPublish ==
    /\ ~Busy /\ desk.open /\ desk.asked
    /\ \/ desk.dirty /\ Saving("presave") /\ UNCHANGED confirmed
       \/ ~desk.dirty /\ Publishing(desk.id, desk.row, desk.text, desk.strayed)
    /\ UNCHANGED <<listed, desk>>

(* setDraft and setDirty(false), but no setDocument: what was typed since  *)
(* stays on the screen and is taken for saved.                             *)
AfterSave(text) ==
    [desk EXCEPT !.row = errand.reply, !.dirty = FALSE, !.strayed = (desk.text # text)]

SavedThenPublish ==
    /\ errand.at = "presave"
    /\ desk' = AfterSave(errand.text)
    /\ \/ Publishing(errand.id, errand.reply, errand.text, FALSE)
       \/ errand' = NoErrand /\ UNCHANGED <<table, confirmed>>
    /\ UNCHANGED listed

Published ==
    /\ errand.at = "publish"
    /\ table[errand.id].status \in {"committed_pending_activation", "published"}
    /\ desk' = [NoDesk EXCEPT !.dirty = desk.dirty]
    /\ errand' = [NoErrand EXCEPT !.at = "refresh"]
    /\ UNCHANGED <<table, listed, confirmed>>

RemoveDraft(d) ==
    /\ ~Busy
    /\ IF desk.open THEN d = desk.id ELSE d \in DOMAIN listed /\ listed[d].status = "draft"
    /\ Delete(d)
    /\ errand' = [NoErrand EXCEPT !.at = "delete", !.id = d]
    /\ UNCHANGED <<listed, desk, confirmed>>

DraftRemoved ==
    /\ errand.at = "delete"
    /\ listed' = Unlisted(errand.id)
    /\ desk' = IF desk.open /\ desk.id = errand.id THEN NoDesk ELSE desk
    /\ errand' = NoErrand
    /\ UNCHANGED <<table, confirmed>>

(* An answer is an error or is lost: setError. (A call the server refuses  *)
(* changes nothing at all.)                                                *)
Failed ==
    /\ Busy
    /\ errand' = NoErrand
    /\ UNCHANGED <<table, listed, desk, confirmed>>

AdminNext ==
    \/ \E d \in Sheets : \/ Conclude(d) \/ Others(d) \/ NewDraft(d) \/ SelectDraft(d)
                         \/ RemoveDraft(d)
    \/ \E text \in Texts : MutateDocument(text)
    \/ Refreshed \/ DraftCreated \/ Discard \/ AskToPublish \/ Save \/ Saved \/ ConfirmPublish
    \/ SavedThenPublish \/ Published \/ DraftRemoved \/ Failed

AdminSpec == AdminInit /\ [][AdminNext]_adminvars
-----------------------------------------------------------------------------
(* What is published is what the page showed when the administrator        *)
(* confirmed it, whoever edited or published the draft meanwhile and       *)
(* however old the page's copies are. The exception is real: what is typed *)
(* while publish waits for its own save stays on the screen as if it were  *)
(* saved, and when that publication fails the next confirmation publishes  *)
(* the draft without it.                                                   *)
PublishedIsConfirmed ==
    \A c \in confirmed : c.strayed \/ c.published = Parsed[c.shown]
=============================================================================
