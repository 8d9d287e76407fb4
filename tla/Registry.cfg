CONSTANTS
    doc1 = doc1
    doc2 = doc2
    Documents = {doc1, doc2}
    Genesis = doc1
    External = "external"
    Drafts = {"draft1"}
    Processes = {"api"}
    a1 = a1
    a2 = a2
    Admins = {a1, a2}
    MaxRevision = 2
    MaxCommits = 3
    MaxSyncs = 2
SPECIFICATION Spec
CHECK_DEADLOCK FALSE
INVARIANTS CommitIsOfTheDraft PublishedWasActivated DraftIsCommittedOnce ServedWasCommitted
SYMMETRY Symmetry
