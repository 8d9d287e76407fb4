----------------------------- MODULE PartsProofs -----------------------------
(***************************************************************************)
(* Proofs about five parts: the retention of the local runner's answers,   *)
(* a scoring release between its files and the workers, the logs of the    *)
(* runs with their reader, the page that edits the registry, and the       *)
(* quotes of a private run. Each for any number of its actors.             *)
(***************************************************************************)
EXTENDS Retention, Release, RunLog, AdminPage, Quotes, FiniteSetTheorems, SequenceTheorems, TLAPS
-----------------------------------------------------------------------------
(* Retention: the inductive invariant follows a record on its way, into    *)
(* the raw file under the lock, from there into the index, and then into   *)
(* the store; and the line without a newline until it makes a torn one.    *)
Record == Exchanges \cup {Nobody}
Line == [record : Record, place : Nat]

RetentionTypes ==
    /\ raw \in Seq(Record) /\ index \in Seq(Line) /\ unended \in BOOLEAN
    /\ stored \in [Exchanges -> {"started", "ok", "error"}]
    /\ at \in [Exchanges -> {"asked", "raw", "index", "kept", "lost", "done", "down"}]
    /\ failures \in Nat /\ lives \in Nat \ {0}

\* Only the holder of the lock is between the two files, and nobody has
\* appended to the raw file since it has.
LockInv ==
    /\ \A x \in Exchanges : at[x] \in {"raw", "index"} => writer = x
    /\ \A x \in Exchanges : at[x] = "index" => Len(raw) > 0 /\ raw[Len(raw)] = x

InRaw(x) == \E i \in DOMAIN raw : raw[i] = x
Indexed(x) == \E i \in DOMAIN index : index[i].record = x
IsTorn == \E i \in DOMAIN index : index[i] = Torn
Kept(x) == InRaw(x) /\ (Indexed(x) \/ IsTorn)

\* An exchange is kept before its attempt is finished, and stays there.
KeptInv == \A x \in Exchanges : at[x] = "kept" \/ stored[x] = "ok" => Kept(x)

\* What can be read leads somewhere; a first life knows what it has torn.
IndexInv ==
    /\ \A i \in DOMAIN index : index[i] # Torn =>
          index[i].place \in DOMAIN raw /\ raw[index[i].place] = index[i].record
    /\ unended => index # <<>>
    /\ Up /\ lives = 1 /\ (unended \/ IsTorn) => failures > 0

RetentionInv == RetentionTypes /\ LockInv /\ KeptInv /\ IndexInv

LEMMA RetentionInitial == RetentionInit => RetentionInv
<1> SUFFICES ASSUME RetentionInit PROVE RetentionInv
  OBVIOUS
<1> USE DEF RetentionInit
<1>1. RetentionTypes
  <2>1. \A S : <<>> \in Seq(S)
    BY EmptySeq
  <2>2. failures \in Nat /\ lives \in Nat \ {0}
    OBVIOUS
  <2>3. /\ stored \in [Exchanges -> {"started", "ok", "error"}]
        /\ at \in [Exchanges -> {"asked", "raw", "index", "kept", "lost", "done", "down"}]
    OBVIOUS
  <2>4. QED
    BY <2>1, <2>2, <2>3, Zenon DEF RetentionTypes
<1>2. ~IsTorn /\ \A i \in DOMAIN index : FALSE
  BY DEF IsTorn
<1>3. LockInv /\ KeptInv /\ IndexInv
  BY <1>2 DEF LockInv, KeptInv, IndexInv
<1>4. QED
  BY <1>1, <1>3 DEF RetentionInv

\* Steps that touch no file keep what the files say.
LEMMA FilesStand ==
  ASSUME RetentionInv, UNCHANGED files, RetentionTypes', LockInv',
         \A x \in Exchanges : at'[x] = "kept" \/ stored'[x] = "ok"
                                => at[x] = "kept" \/ stored[x] = "ok",
         Up' /\ lives' = 1 => Up /\ lives = 1 /\ failures' >= failures
  PROVE  RetentionInv'
<1>1. /\ IsTorn' <=> IsTorn
      /\ \A x : Kept(x)' <=> Kept(x)
  BY DEF files, IsTorn, Kept, InRaw, Indexed, Torn
<1>2. KeptInv'
  BY <1>1 DEF RetentionInv, KeptInv
<1>3. IndexInv'
  BY <1>1 DEF RetentionInv, RetentionTypes, IndexInv, files, Torn
<1>4. QED
  BY <1>2, <1>3 DEF RetentionInv

\* The steps of a thread that is not down leave the process up.
LEMMA StillUp ==
  ASSUME RetentionTypes, NEW x \in Exchanges, at[x] # "down", NEW pc, pc # "down", To(x, pc)
  PROVE  Up' <=> Up
  BY DEF RetentionTypes, To, Up

LEMMA TakeKeeps ==
  ASSUME RetentionInv, NEW x \in Exchanges, Take(x)
  PROVE  RetentionInv'
<1>1. RetentionTypes' /\ LockInv'
  BY RetentionAssumption DEF RetentionInv, RetentionTypes, LockInv, Take, To, files, Nobody
<1>2. \A y \in Exchanges : at'[y] = "kept" \/ stored'[y] = "ok"
                             => at[y] = "kept" \/ stored[y] = "ok"
  BY DEF RetentionInv, RetentionTypes, Take, To
<1>3. Up' <=> Up
  BY StillUp DEF RetentionInv, Take
<1>4. failures' >= failures
  BY DEF RetentionInv, RetentionTypes, Take
<1>5. QED
  BY <1>1, <1>2, <1>3, <1>4, FilesStand DEF Take

\* A record more in the raw file.
LEMMA RawGrows ==
  ASSUME RetentionInv, UNCHANGED <<index, unended>>, NEW r \in Record, raw' = Append(raw, r)
  PROVE  /\ raw' \in Seq(Record) /\ Len(raw') > 0 /\ raw'[Len(raw')] = r
         /\ IsTorn' <=> IsTorn
         /\ \A x \in Exchanges : Kept(x) => Kept(x)'
         /\ \A i \in DOMAIN index' : index'[i] # Torn' =>
               index'[i].place \in DOMAIN raw' /\ raw'[index'[i].place] = index'[i].record
<1> USE DEF RetentionInv, RetentionTypes
<1>1. /\ raw' \in Seq(Record) /\ Len(raw') = Len(raw) + 1 /\ raw'[Len(raw) + 1] = r
      /\ \A i \in 1..Len(raw) : raw'[i] = raw[i]
      /\ DOMAIN raw = 1..Len(raw) /\ DOMAIN raw' = 1..(Len(raw) + 1)
      /\ Len(raw) \in Nat
  OBVIOUS
<1>2. \A x \in Exchanges : Kept(x) => Kept(x)'
  BY <1>1 DEF Kept, InRaw, Indexed, IsTorn, Torn
<1>3. QED
  BY <1>1, <1>2 DEF IndexInv, IsTorn, Torn

LEMMA WriteRawKeeps ==
  ASSUME RetentionInv, NEW x \in Exchanges, WriteRaw(x)
  PROVE  RetentionInv'
<1> USE DEF RetentionInv, RetentionTypes, WriteRaw, To
<1>1. /\ raw' \in Seq(Record) /\ Len(raw') > 0 /\ raw'[Len(raw')] = x
      /\ IsTorn' <=> IsTorn
      /\ \A y \in Exchanges : Kept(y) => Kept(y)'
      /\ \A i \in DOMAIN index' : index'[i] # Torn' =>
            index'[i].place \in DOMAIN raw' /\ raw'[index'[i].place] = index'[i].record
  BY RawGrows DEF Record
<1>2. RetentionTypes'
  BY <1>1
<1>3. LockInv'
  <2>1. \A y \in Exchanges : at'[y] \in {"raw", "index"} => y = x
    BY DEF LockInv
  <2>2. QED
    BY <1>1, <2>1 DEF LockInv
<1>4. KeptInv'
  BY <1>1 DEF KeptInv
<1>5. Up' <=> Up
  BY StillUp
<1>6. IndexInv'
  BY <1>1, <1>5 DEF IndexInv
<1>7. QED
  BY <1>2, <1>3, <1>4, <1>6

\* The last element of a sequence is replaced, or one is appended.
LEMMA LastReplaced ==
  ASSUME NEW S, NEW s \in Seq(S), s # <<>>, NEW e \in S, NEW r, r = [s EXCEPT ![Len(s)] = e]
  PROVE  /\ r \in Seq(S) /\ DOMAIN r = DOMAIN s /\ r # <<>>
         /\ Len(s) \in DOMAIN s /\ r[Len(s)] = e
         /\ \A i \in DOMAIN s : i # Len(s) => r[i] = s[i]
<1>1. Len(s) \in 1..Len(s) /\ DOMAIN s = 1..Len(s)
  OBVIOUS
<1>2. r \in Seq(S) /\ Len(r) = Len(s) /\ DOMAIN r = 1..Len(r)
  BY <1>1, ExceptSeq
<1>3. QED
  BY <1>1, <1>2

LEMMA LineAppended ==
  ASSUME NEW S, NEW s \in Seq(S), NEW e \in S, NEW r, r = Append(s, e)
  PROVE  /\ r \in Seq(S) /\ DOMAIN r = DOMAIN s \cup {Len(s) + 1} /\ r # <<>>
         /\ r[Len(s) + 1] = e
         /\ \A i \in DOMAIN s : r[i] = s[i]
  OBVIOUS

\* A line more in the index, or a torn one in the place of the last. What it
\* holds leads to the last record.
LEMMA IndexGrows ==
  ASSUME RetentionInv, UNCHANGED raw, NEW line \in Line, NEW ended \in BOOLEAN,
         AddLine(line, ended),
         line # Torn => line.place \in DOMAIN raw /\ raw[line.place] = line.record
  PROVE  /\ index' \in Seq(Line) /\ index' # <<>> /\ unended' = ~ended
         /\ IsTorn' <=> IsTorn \/ unended \/ line = Torn
         /\ \A x \in Exchanges : Kept(x) => Kept(x)'
         /\ \A x \in Exchanges : line.record = x /\ InRaw(x) => Kept(x)'
         /\ \A i \in DOMAIN index' : index'[i] # Torn' =>
               index'[i].place \in DOMAIN raw' /\ raw'[index'[i].place] = index'[i].record
<1>1. Torn \in Line /\ \A x \in Exchanges : Torn.record # x
  BY RetentionAssumption DEF Torn, Line, Record, Nobody
<1>2. index \in Seq(Line) /\ raw' = raw /\ unended \in BOOLEAN /\ (unended => index # <<>>)
  BY DEF RetentionInv, RetentionTypes, IndexInv
<1>3. \A i \in DOMAIN index : index[i] # Torn =>
         index[i].place \in DOMAIN raw /\ raw[index[i].place] = index[i].record
  BY DEF RetentionInv, IndexInv
<1>4. CASE unended
  <2>1. index' = [index EXCEPT ![Len(index)] = Torn] /\ unended' = ~ended
    BY <1>4 DEF AddLine
  <2>2. /\ index' \in Seq(Line) /\ DOMAIN index' = DOMAIN index /\ index' # <<>>
        /\ Len(index) \in DOMAIN index /\ index'[Len(index)] = Torn
        /\ \A i \in DOMAIN index : i # Len(index) => index'[i] = index[i]
    BY <1>1, <1>2, <1>4, <2>1, LastReplaced
  <2>3. IsTorn'
    BY <2>2 DEF IsTorn, Torn
  <2>4. \A i \in DOMAIN index' : index'[i] # Torn =>
               index'[i].place \in DOMAIN raw /\ raw[index'[i].place] = index'[i].record
    BY <1>3, <2>2
  <2>5. \A x : InRaw(x)' <=> InRaw(x)
    BY DEF InRaw
  <2>6. QED
    BY <1>2, <1>4, <2>1, <2>2, <2>3, <2>4, <2>5 DEF Kept, Torn
<1>5. CASE ~unended
  <2>1. index' = Append(index, line) /\ unended' = ~ended
    BY <1>5 DEF AddLine
  <2>2. /\ index' \in Seq(Line) /\ DOMAIN index' = DOMAIN index \cup {Len(index) + 1}
        /\ index' # <<>> /\ index'[Len(index) + 1] = line
        /\ \A i \in DOMAIN index : index'[i] = index[i]
    BY <1>2, <2>1, LineAppended
  <2>3. IsTorn' <=> IsTorn \/ line = Torn
    BY <2>2 DEF IsTorn, Torn
  <2>4. \A i \in DOMAIN index' : index'[i] # Torn =>
               index'[i].place \in DOMAIN raw /\ raw[index'[i].place] = index'[i].record
    BY <1>3, <2>2
  <2>5. \A x : /\ InRaw(x)' <=> InRaw(x)
               /\ Indexed(x)' <=> Indexed(x) \/ line.record = x
    BY <2>2 DEF InRaw, Indexed
  <2>6. QED
    BY <1>2, <1>5, <2>1, <2>2, <2>3, <2>4, <2>5 DEF Kept, Torn
<1>6. QED
  BY <1>2, <1>4, <1>5

\* The entry of the holder of the lock leads to its record.
LEMMA EntryLeads ==
  ASSUME RetentionInv, NEW x \in Exchanges, at[x] = "index"
  PROVE  /\ EntryOf(x) \in Line /\ EntryOf(x).record = x /\ InRaw(x) /\ EntryOf(x) # Torn
         /\ EntryOf(x).place \in DOMAIN raw /\ raw[EntryOf(x).place] = EntryOf(x).record
<1>1. Len(raw) \in DOMAIN raw /\ raw[Len(raw)] = x
  BY DEF RetentionInv, RetentionTypes, LockInv
<1>2. Torn.record = Nobody /\ x # Nobody
  BY RetentionAssumption DEF Torn, Nobody
<1>3. EntryOf(x) \in Line /\ EntryOf(x).record = x /\ EntryOf(x).place = Len(raw)
  BY <1>1 DEF RetentionInv, RetentionTypes, EntryOf, Line, Record
<1>4. QED
  BY <1>1, <1>2, <1>3 DEF InRaw

LEMMA WriteIndexKeeps ==
  ASSUME RetentionInv, NEW x \in Exchanges, WriteIndex(x)
  PROVE  RetentionInv'
<1> USE DEF RetentionInv, RetentionTypes, WriteIndex, To
<1>1. /\ index' \in Seq(Line) /\ index' # <<>> /\ unended' = FALSE
      /\ IsTorn' <=> IsTorn \/ unended
      /\ \A y \in Exchanges : Kept(y) => Kept(y)'
      /\ Kept(x)'
      /\ \A i \in DOMAIN index' : index'[i] # Torn' =>
            index'[i].place \in DOMAIN raw' /\ raw'[index'[i].place] = index'[i].record
  BY EntryLeads, IndexGrows
<1>2. RetentionTypes' /\ LockInv'
  BY <1>1 DEF LockInv
<1>3. KeptInv'
  BY <1>1 DEF KeptInv
<1>4. Up' <=> Up
  BY StillUp
<1>5. IndexInv'
  BY <1>1, <1>4 DEF IndexInv
<1>6. QED
  BY <1>2, <1>3, <1>5

\* Whatever a write that is cut short leaves, the files stay in order.
LEMMA CutShortLeaves ==
  ASSUME RetentionInv, NEW x \in Exchanges, CutShort(x)
  PROVE  /\ raw' \in Seq(Record) /\ index' \in Seq(Line) /\ unended' \in BOOLEAN
         /\ unended' => index' # <<>>
         /\ \A y \in Exchanges : Kept(y) => Kept(y)'
         /\ \A i \in DOMAIN index' : index'[i] # Torn' =>
               index'[i].place \in DOMAIN raw' /\ raw'[index'[i].place] = index'[i].record
         /\ at[x] \in {"raw", "index"}
<1>1. CASE UNCHANGED files /\ at[x] \in {"raw", "index"}
  BY <1>1 DEF RetentionInv, RetentionTypes, IndexInv, files, Kept, InRaw, Indexed, IsTorn, Torn
<1>2. CASE at[x] = "raw" /\ (\E r \in {x, Nobody} : raw' = Append(raw, r))
           /\ UNCHANGED <<index, unended>>
  <2>1. PICK r \in Record : raw' = Append(raw, r)
    BY <1>2 DEF Record
  <2>2. QED
    BY <1>2, <2>1, RawGrows DEF RetentionInv, RetentionTypes, IndexInv
<1>3. CASE /\ at[x] = "index" /\ UNCHANGED raw
           /\ AddLine(Torn, FALSE) \/ \E ended \in BOOLEAN : AddLine(EntryOf(x), ended)
  <2>1. Torn \in Line
    BY DEF Torn, Line, Record
  <2>2. PICK line \in {Torn, EntryOf(x)}, ended \in BOOLEAN : AddLine(line, ended)
    BY <1>3
  <2>3. /\ line \in Line
        /\ line # Torn => line.place \in DOMAIN raw /\ raw[line.place] = line.record
    BY <1>3, <2>1, <2>2, EntryLeads
  <2>4. QED
    BY <1>3, <2>2, <2>3, IndexGrows DEF RetentionInv, RetentionTypes
<1>4. QED
  BY <1>1, <1>2, <1>3 DEF CutShort

LEMMA WriteFailsKeeps ==
  ASSUME RetentionInv, NEW x \in Exchanges, WriteFails(x)
  PROVE  RetentionInv'
<1>1. RetentionTypes'
  BY CutShortLeaves DEF RetentionInv, RetentionTypes, WriteFails, To
<1>2. \A y \in Exchanges : at'[y] \notin {"raw", "index"}
  BY CutShortLeaves DEF RetentionInv, RetentionTypes, LockInv, WriteFails, To
<1>3. \A y \in Exchanges : at'[y] = "kept" \/ stored'[y] = "ok"
                             => at[y] = "kept" \/ stored[y] = "ok"
  BY DEF RetentionInv, RetentionTypes, WriteFails, To
<1>4. KeptInv'
  BY <1>3, CutShortLeaves DEF RetentionInv, KeptInv, WriteFails
<1>5. failures' > 0
  BY DEF RetentionInv, RetentionTypes, WriteFails
<1>6. IndexInv'
  BY <1>5, CutShortLeaves DEF IndexInv, WriteFails
<1>7. QED
  BY <1>1, <1>2, <1>4, <1>6 DEF RetentionInv, LockInv

LEMMA FinishKeeps ==
  ASSUME RetentionInv, NEW x \in Exchanges, FinishAttempt(x)
  PROVE  RetentionInv'
<1>1. RetentionTypes' /\ LockInv'
  BY DEF RetentionInv, RetentionTypes, LockInv, FinishAttempt, To, files
<1>2. \A y \in Exchanges : at'[y] = "kept" \/ stored'[y] = "ok"
                             => at[y] = "kept" \/ stored[y] = "ok"
  BY DEF RetentionInv, RetentionTypes, FinishAttempt, To
<1>3. (Up' <=> Up) /\ failures' >= failures
  BY StillUp DEF RetentionInv, RetentionTypes, FinishAttempt
<1>4. QED
  BY <1>1, <1>2, <1>3, FilesStand DEF FinishAttempt

\* The process that dies is not up any more: what it knew need not be told.
LEMMA CrashKeeps ==
  ASSUME RetentionInv, Crash
  PROVE  RetentionInv'
<1>1. \A y \in Exchanges : at'[y] = "down" /\ stored'[y] = stored[y]
  BY DEF Crash
<1>2. CASE UNCHANGED files
  <2>1. RetentionTypes' /\ LockInv'
    BY <1>1, <1>2 DEF RetentionInv, RetentionTypes, LockInv, Crash, files
  <2>2. Up /\ lives' = lives /\ failures' >= failures
    BY DEF RetentionInv, RetentionTypes, Crash
  <2>3. QED
    BY <1>1, <1>2, <2>1, <2>2, FilesStand
<1>3. ASSUME NEW x \in Exchanges, CutShort(x) PROVE RetentionInv'
  <2>1. RetentionTypes' /\ LockInv'
    BY <1>1, <1>3, CutShortLeaves DEF RetentionInv, RetentionTypes, LockInv, Crash
  <2>2. KeptInv'
    BY <1>1, <1>3, CutShortLeaves DEF RetentionInv, KeptInv
  <2>3. ~Up'
    BY <1>1 DEF Up
  <2>4. IndexInv'
    BY <1>3, <2>3, CutShortLeaves DEF IndexInv
  <2>5. QED
    BY <2>1, <2>2, <2>4 DEF RetentionInv
<1>4. QED
  BY <1>2, <1>3 DEF Crash

LEMMA ReopenKeeps ==
  ASSUME RetentionInv, Reopen
  PROVE  RetentionInv'
<1>1. RetentionTypes' /\ LockInv' /\ lives' # 1
  BY DEF RetentionInv, RetentionTypes, LockInv, Reopen, files
<1>2. \A y \in Exchanges : at'[y] = "kept" \/ stored'[y] = "ok"
                             => at[y] = "kept" \/ stored[y] = "ok"
  BY DEF RetentionInv, RetentionTypes, Reopen
<1>3. QED
  BY <1>1, <1>2, FilesStand DEF Reopen

LEMMA FinalizeKeeps ==
  ASSUME RetentionInv, Finalize \/ UNCHANGED rvars
  PROVE  RetentionInv'
<1>1. UNCHANGED <<files, stored, at, writer, failures, lives>>
  BY DEF Finalize, rvars, files
<1>2. RetentionTypes' /\ LockInv' /\ (Up' <=> Up) /\ failures' >= failures
  BY <1>1 DEF RetentionInv, RetentionTypes, LockInv, files, Up
<1>3. QED
  BY <1>1, <1>2, FilesStand

LEMMA RetentionStep == RetentionInv /\ [RetentionNext]_rvars => RetentionInv'
<1> SUFFICES ASSUME RetentionInv, [RetentionNext]_rvars PROVE RetentionInv'
  OBVIOUS
<1>1. ASSUME NEW x \in Exchanges,
             Take(x) \/ WriteRaw(x) \/ WriteIndex(x) \/ WriteFails(x) \/ FinishAttempt(x)
      PROVE  RetentionInv'
  BY <1>1, TakeKeeps, WriteRawKeeps, WriteIndexKeeps, WriteFailsKeeps, FinishKeeps
<1>2. QED
  BY <1>1, CrashKeeps, ReopenKeeps, FinalizeKeeps DEF RetentionNext

\* An attempt that the store calls answered has its exchange in the raw file,
\* found through the index unless a line of it is torn; and a torn line comes
\* of a failed write that the process knows of, or of a life before, whatever
\* failed and however often the process died (retention.py, write;
\* detector.py, _execute_job).
THEOREM AnswersAreRetainedCorrect == RetentionSpec => []AnswersAreRetained
<1>1. RetentionInv => AnswersAreRetained
  <2> SUFFICES ASSUME RetentionInv PROVE AnswersAreRetained
    OBVIOUS
  <2>1. /\ \A x : Contains(raw, x) <=> InRaw(x)
        /\ Contains(index, Torn) <=> IsTorn
    BY DEF RetentionInv, RetentionTypes, Contains, InRaw, IsTorn
  <2>2. QED
    BY <2>1 DEF RetentionInv, KeptInv, IndexInv, Kept, InRaw, Indexed, IsTorn, AnswersAreRetained
<1>2. QED
  BY <1>1, RetentionInitial, RetentionStep, PTL DEF RetentionSpec
-----------------------------------------------------------------------------
(* Release.                                                                *)
\* A set of files that passed every check is named by its manifest.
Imported(f) == "manifest" \in DOMAIN f /\ f = FilesOf(f["manifest"]) /\ Coherent(f)
Pinned(f) ==
    /\ f = [n \in DOMAIN f |-> f[n]] /\ "manifest" \in DOMAIN f
    /\ \A n \in DOMAIN f \ {"manifest"} :
          n \in DOMAIN f["manifest"].pins /\ f[n] = f["manifest"].pins[n]

RowsOf(id) == {r \in releases : r.release = id}

ImporterInv(i) ==
    LET f == imports[i].files
        pc == imports[i].at
    IN  /\ pc \in {"reading", "save", "filling", "done"} => Pinned(f)
        /\ pc \in {"save", "filling", "done"} => Imported(f)
        /\ pc = "filling" =>
              /\ imports[i].written = {Row(f, s) : s \in Filled(i)}
              /\ Filled(i) \subseteq Sections
              /\ RowsOf(IdOf(i)) = {}
        /\ pc = "done" => Seed(f) \subseteq releases

OneFills == \A i, j \in Importers :
    imports[i].at = "filling" /\ imports[j].at = "filling" /\ IdOf(i) = IdOf(j) => i = j

StoredWhole(f) == Imported(f) /\ RowsOf(f["manifest"].id) = Seed(f)

RowsInv == \A r \in releases : \E f : StoredWhole(f) /\ f["manifest"].id = r.release

LoaderInv(w) ==
    /\ loads[w].left \subseteq DOMAIN After
    /\ loads[w].rows = {} => loads[w].left = {}
    /\ loads[w].rows # {} =>
          \E f : /\ StoredWhole(f) /\ f["manifest"].id = loads[w].id
                 /\ loads[w].rows = {Row(f, s) : s \in Sections \ loads[w].left}

ReleaseInv ==
    /\ DOMAIN imports = Importers /\ DOMAIN loads = Loaders
    /\ \A i \in Importers : ImporterInv(i)
    /\ OneFills /\ RowsInv
    /\ \A w \in Loaders : LoaderInv(w)

LEMMA ReleaseInitial == ReleaseInit => ReleaseInv
<1> SUFFICES ASSUME ReleaseInit PROVE ReleaseInv
  OBVIOUS
<1>1. \A i \in Importers : imports[i].at = "idle"
  BY DEF ReleaseInit
<1>2. releases = {} /\ \A w \in Loaders : loads[w].left = {} /\ loads[w].rows = {}
  BY DEF ReleaseInit
<1>3. DOMAIN imports = Importers /\ DOMAIN loads = Loaders
  BY DEF ReleaseInit
<1>4. \A i \in Importers : ImporterInv(i)
  BY <1>1 DEF ImporterInv
<1>5. QED
  BY <1>1, <1>2, <1>3, <1>4 DEF ReleaseInv, OneFills, RowsInv, LoaderInv

\* The rows of one section are told from those of the others.
LEMMA RowsBySection ==
  ASSUME NEW f, NEW s, NEW t
  PROVE  /\ Row(f, s).release = f["manifest"].id /\ Row(f, s).section = s
         /\ Row(f, s) = Row(f, t) => s = t
  BY DEF Row

\* Steps of one importer that leave the database alone.
LEMMA ImporterMoves ==
  ASSUME ReleaseInv, NEW i \in Importers, NEW pc, NEW taken, NEW written,
         GoImport(i, pc, taken, written), DatabaseRests, ImporterInv(i)',
         pc = "filling" => imports[i].at = "filling" /\ taken = imports[i].files
  PROVE  ReleaseInv'
<1>1. /\ DOMAIN imports' = Importers
      /\ imports'[i] = [at |-> pc, files |-> taken, written |-> written]
      /\ \A j \in Importers \ {i} : imports'[j] = imports[j]
  BY DEF ReleaseInv, GoImport
<1>2. \A j \in Importers \ {i} : ImporterInv(j) => ImporterInv(j)'
  BY <1>1 DEF ImporterInv, DatabaseRests, Filled, RowsOf, IdOf
<1>3. OneFills'
  BY <1>1 DEF ReleaseInv, OneFills, IdOf
<1>4. RowsInv' /\ (\A w \in Loaders : LoaderInv(w)')
  BY DEF ReleaseInv, RowsInv, LoaderInv, StoredWhole, RowsOf, DatabaseRests
<1>5. QED
  BY <1>1, <1>2, <1>3, <1>4 DEF ReleaseInv, DatabaseRests

LEMMA RefuseKeeps ==
  ASSUME ReleaseInv, NEW i \in Importers, Refuse(i), DatabaseRests
  PROVE  ReleaseInv'
<1>1. imports'[i].at = "failed"
  BY DEF Refuse, GoImport, ReleaseInv
<1>2. ImporterInv(i)'
  BY <1>1 DEF ImporterInv
<1>3. QED
  BY <1>2, ImporterMoves DEF Refuse

LEMMA ReadingKeeps ==
  ASSUME ReleaseInv, NEW i \in Importers, NEW name,
         ReadManifest(i) \/ ReadArtifact(i, name)
  PROVE  ReleaseInv'
<1>1. ASSUME NEW d \in Disks, DatabaseRests,
             GoImport(i, "reading", With(NoFiles, "manifest", d["manifest"]), {})
      PROVE  ReleaseInv'
  <2>1. imports'[i].at = "reading" /\ imports'[i].files = With(NoFiles, "manifest", d["manifest"])
    BY <1>1 DEF ReleaseInv, GoImport
  <2>2. Pinned(With(NoFiles, "manifest", d["manifest"]))
    BY DEF Pinned, With, NoFiles
  <2>3. ImporterInv(i)'
    BY <2>1, <2>2 DEF ImporterInv
  <2>4. QED
    BY <1>1, <2>3, ImporterMoves
<1>2. ASSUME NEW d \in Disks, DatabaseRests, imports[i].at = "reading",
             name \in Missing(imports[i].files), d[name] = imports[i].files["manifest"].pins[name],
             GoImport(i, "reading", With(imports[i].files, name, d[name]), {})
      PROVE  ReleaseInv'
  <2> DEFINE f == imports[i].files
             g == With(f, name, d[name])
  <2>1. imports'[i].at = "reading" /\ imports'[i].files = g
    BY <1>2 DEF ReleaseInv, GoImport
  <2>2. Pinned(f)
    BY <1>2 DEF ReleaseInv, ImporterInv
  <2>3. Pinned(g)
    BY <1>2, <2>2 DEF Pinned, With, Missing
  <2>4. ImporterInv(i)'
    BY <2>1, <2>3 DEF ImporterInv
  <2>5. QED
    BY <1>2, <2>4, ImporterMoves
<1>3. QED
  BY <1>1, <1>2, RefuseKeeps DEF ReadManifest, ReadArtifact

LEMMA ValidateKeeps ==
  ASSUME ReleaseInv, NEW i \in Importers, Validate(i)
  PROVE  ReleaseInv'
<1> DEFINE f == imports[i].files
<1>1. CASE ~Coherent(f)
  BY <1>1, RefuseKeeps DEF Validate
<1>2. CASE Coherent(f)
  <2>1. /\ GoImport(i, "save", f, {}) /\ DatabaseRests /\ imports[i].at = "reading"
        /\ Missing(f) = {}
    BY <1>2 DEF Validate
  <2>2. Pinned(f)
    BY <2>1 DEF ReleaseInv, ImporterInv
  <2>3. f = FilesOf(f["manifest"])
    <3>1. DOMAIN f = DOMAIN f["manifest"].pins \cup {"manifest"}
      BY <2>1, <2>2 DEF Pinned, Missing
    <3>2. f = [n \in DOMAIN f |-> f[n]]
      BY <2>2 DEF Pinned
    <3>3. \A n \in DOMAIN f : f[n] = IF n = "manifest" THEN f["manifest"]
                                                  ELSE f["manifest"].pins[n]
      BY <2>2 DEF Pinned
    <3>4. QED
      BY <3>1, <3>2, <3>3 DEF FilesOf
  <2>4. imports'[i].at = "save" /\ imports'[i].files = f
    BY <2>1 DEF ReleaseInv, GoImport
  <2>5. ImporterInv(i)'
    BY <1>2, <2>2, <2>3, <2>4 DEF ImporterInv, Imported, Pinned
  <2>6. QED
    BY <2>1, <2>5, ImporterMoves
<1>3. QED
  BY <1>1, <1>2

LEMMA InsertKeeps ==
  ASSUME ReleaseInv, NEW i \in Importers, InsertRelease(i)
  PROVE  ReleaseInv'
<1> DEFINE f == imports[i].files
           id == f["manifest"].id
           found == Stored(id, "release")
<1>1. /\ imports[i].at = "save" /\ ~Inserting(id) /\ DatabaseRests
      /\ \/ found = {} /\ GoImport(i, "filling", f, {Row(f, "release")})
         \/ \E r \in found : IF r.content["manifest"] = f["manifest"]
                             THEN GoImport(i, "done", f, {}) ELSE Refuse(i)
  BY DEF InsertRelease, IdOf
<1>2. Imported(f) /\ Pinned(f)
  BY <1>1 DEF ReleaseInv, ImporterInv
<1>3. CASE found = {} /\ GoImport(i, "filling", f, {Row(f, "release")})
  <2>1. RowsOf(id) = {}
    <3>1. ASSUME NEW r \in releases, r.release = id PROVE FALSE
      <4>1. PICK g : StoredWhole(g) /\ g["manifest"].id = id
        BY <3>1 DEF ReleaseInv, RowsInv
      <4>2. Row(g, "release") \in Seed(g)
        BY DEF Seed, Sections, Sources
      <4>3. Row(g, "release") \in RowsOf(id)
        BY <4>1, <4>2 DEF StoredWhole
      <4>4. QED
        BY <1>3, <4>3, RowsBySection DEF Stored, RowsOf
    <3>2. QED
      BY <3>1 DEF RowsOf
  <2>2. /\ DOMAIN imports' = Importers
        /\ imports'[i] = [at |-> "filling", files |-> f, written |-> {Row(f, "release")}]
        /\ \A j \in Importers \ {i} : imports'[j] = imports[j]
    BY <1>3 DEF ReleaseInv, GoImport
  <2>3. Filled(i)' = {"release"}
    BY <2>2, RowsBySection DEF Filled
  <2>4. ImporterInv(i)'
    <3>1. "release" \in Sections
      BY DEF Sections, Sources
    <3>2. RowsOf(IdOf(i))' = {}
      BY <1>1, <2>1, <2>2 DEF IdOf, RowsOf, DatabaseRests
    <3>3. QED
      BY <1>2, <2>2, <2>3, <3>1, <3>2 DEF ImporterInv
  <2>5. \A j \in Importers \ {i} : ImporterInv(j) => ImporterInv(j)'
    BY <1>1, <2>2 DEF ImporterInv, DatabaseRests, Filled, RowsOf, IdOf
  <2>6. OneFills'
    BY <1>1, <2>2 DEF ReleaseInv, OneFills, Inserting, IdOf
  <2>7. RowsInv' /\ (\A w \in Loaders : LoaderInv(w)')
    BY <1>1 DEF ReleaseInv, RowsInv, LoaderInv, StoredWhole, RowsOf, DatabaseRests
  <2>8. QED
    BY <1>1, <2>2, <2>4, <2>5, <2>6, <2>7 DEF ReleaseInv, DatabaseRests
<1>4. ASSUME NEW r \in found, r.content["manifest"] = f["manifest"], GoImport(i, "done", f, {})
      PROVE  ReleaseInv'
  <2>1. PICK g : StoredWhole(g) /\ g["manifest"].id = id
    BY <1>4 DEF ReleaseInv, RowsInv, Stored
  <2>2. r = Row(g, "release")
    <3>1. r \in Seed(g)
      BY <2>1, <1>4 DEF StoredWhole, RowsOf, Stored
    <3>2. QED
      BY <3>1, <1>4, RowsBySection DEF Seed, Stored
  <2>3. g["manifest"] = f["manifest"]
    BY <1>4, <2>1, <2>2 DEF Row, Sources, StoredWhole, Imported
  <2>4. g = f
    BY <1>2, <2>1, <2>3 DEF StoredWhole, Imported
  <2>5. Seed(f) \subseteq releases
    BY <2>1, <2>4 DEF StoredWhole, RowsOf
  <2>6. imports'[i].at = "done" /\ imports'[i].files = f
    BY <1>4 DEF ReleaseInv, GoImport
  <2>7. ImporterInv(i)'
    BY <1>1, <1>2, <2>5, <2>6 DEF ImporterInv, DatabaseRests
  <2>8. QED
    BY <1>1, <1>4, <2>7, ImporterMoves
<1>5. QED
  BY <1>1, <1>3, <1>4, RefuseKeeps

LEMMA FillKeeps ==
  ASSUME ReleaseInv, NEW i \in Importers, FillSection(i)
  PROVE  ReleaseInv'
<1> DEFINE f == imports[i].files
<1>1. PICK s \in DOMAIN After : GoImport(i, "filling", f, imports[i].written \cup {Row(f, s)})
  BY DEF FillSection
<1>2. imports[i].at = "filling" /\ DatabaseRests
  BY DEF FillSection
<1>3. imports'[i] = [at |-> "filling", files |-> f, written |-> imports[i].written \cup {Row(f, s)}]
  BY <1>1 DEF ReleaseInv, GoImport
<1>4. Filled(i)' = Filled(i) \cup {s}
  BY <1>3, RowsBySection DEF Filled
<1>5. s \in Sections
  BY DEF After, Sections, Sources
<1>6. ImporterInv(i)
  BY DEF ReleaseInv
<1>7. imports'[i].written = {Row(f, t) : t \in Filled(i)'}
  BY <1>2, <1>3, <1>4, <1>6 DEF ImporterInv
<1>8. ImporterInv(i)'
  BY <1>2, <1>3, <1>4, <1>5, <1>6, <1>7 DEF ImporterInv, IdOf, RowsOf, DatabaseRests
<1>9. QED
  BY <1>1, <1>2, <1>8, ImporterMoves

\* A committed release is whole, and stays as it is.
LEMMA StoredStays ==
  ASSUME NEW f, StoredWhole(f), NEW new, releases' = releases \cup new,
         \A r \in new : r.release # f["manifest"].id
  PROVE  StoredWhole(f)'
  BY DEF StoredWhole, RowsOf

LEMMA CommitKeeps ==
  ASSUME ReleaseInv, NEW i \in Importers, CommitRelease(i)
  PROVE  ReleaseInv'
<1>0. PICK f : f = imports[i].files
  OBVIOUS
<1> DEFINE id == f["manifest"].id
<1>1. /\ imports[i].at = "filling" /\ Filled(i) = Sections /\ GoImport(i, "done", f, {})
      /\ releases' = releases \cup imports[i].written /\ UNCHANGED loads
  BY <1>0 DEF CommitRelease
<1>2. ImporterInv(i) /\ Imported(f) /\ Pinned(f) /\ imports[i].written = Seed(f) /\ RowsOf(id) = {}
  BY <1>0, <1>1 DEF ReleaseInv, ImporterInv, Seed, IdOf
<1>3. /\ DOMAIN imports' = Importers
      /\ imports'[i] = [at |-> "done", files |-> f, written |-> {}]
      /\ \A j \in Importers \ {i} : imports'[j] = imports[j]
  BY <1>1 DEF ReleaseInv, GoImport
<1>4. \A r \in Seed(f) : r.release = id
  BY RowsBySection DEF Seed
<1>5. ImporterInv(i)'
  BY <1>1, <1>2, <1>3 DEF ImporterInv
<1>6. ASSUME NEW j \in Importers \ {i}
      PROVE  ImporterInv(j)'
  <2>1. imports[j].at = "filling" => IdOf(j) # id
    BY <1>0, <1>1 DEF ReleaseInv, OneFills, IdOf
  <2>2. imports[j].at = "filling" => RowsOf(IdOf(j))' = {}
    BY <1>1, <1>2, <1>3, <1>4, <2>1 DEF ReleaseInv, ImporterInv, RowsOf, IdOf
  <2>3. imports'[j] = imports[j] /\ ImporterInv(j)
    BY <1>3 DEF ReleaseInv
  <2>4. Seed(imports[j].files) \subseteq releases => Seed(imports[j].files) \subseteq releases'
    BY <1>1
  <2>5. QED
    BY <2>2, <2>3, <2>4 DEF ImporterInv, Filled, IdOf
<1>7. OneFills'
  BY <1>3 DEF ReleaseInv, OneFills, IdOf
<1>8. StoredWhole(f)'
  BY <1>1, <1>2, <1>4 DEF StoredWhole, RowsOf
<1>9. \A g : StoredWhole(g) => StoredWhole(g)'
  <2>1. SUFFICES ASSUME NEW g, StoredWhole(g) PROVE StoredWhole(g)'
    OBVIOUS
  <2>2. g["manifest"].id # id
    <3>1. Row(g, "release") \in RowsOf(g["manifest"].id)
      BY <2>1 DEF StoredWhole, Seed, Sections, Sources
    <3>2. QED
      BY <1>2, <3>1
  <2>3. QED
    BY <1>1, <1>2, <1>4, <2>1, <2>2, StoredStays
<1>10. RowsInv'
  <2>1. ASSUME NEW r \in releases' PROVE \E g : StoredWhole(g)' /\ g["manifest"].id = r.release
    <3>1. CASE r \in releases
      BY <3>1, <1>9 DEF ReleaseInv, RowsInv
    <3>2. CASE r \in Seed(f)
      BY <3>2, <1>4, <1>8
    <3>3. QED
      BY <1>1, <1>2, <3>1, <3>2
  <2>2. QED
    BY <2>1 DEF RowsInv
<1>11. \A w \in Loaders : LoaderInv(w)'
  BY <1>1, <1>9 DEF ReleaseInv, LoaderInv
<1>12. QED
  BY <1>1, <1>3, <1>5, <1>6, <1>7, <1>10, <1>11 DEF ReleaseInv

LEMMA LoadKeeps ==
  ASSUME ReleaseInv, NEW w \in Loaders, NEW id, NEW s,
         LoadRelease(w, id) \/ LoadSection(w, s)
  PROVE  ReleaseInv'
<1>1. UNCHANGED <<imports, releases>> /\ DOMAIN loads' = Loaders
  BY DEF ReleaseInv, LoadRelease, LoadSection
<1>2. \A f : StoredWhole(f) <=> StoredWhole(f)'
  BY <1>1 DEF StoredWhole, RowsOf
<1>3. \A v \in Loaders \ {w} : LoaderInv(v)'
  BY <1>2 DEF ReleaseInv, LoaderInv, LoadRelease, LoadSection
<1>4. LoaderInv(w)'
  <2>1. CASE LoadRelease(w, id)
    <3> DEFINE found == Stored(id, "release")
    <3>1. loads'[w] = [id |-> id, left |-> IF found = {} THEN {} ELSE DOMAIN After, rows |-> found]
      BY <2>1 DEF ReleaseInv, LoadRelease
    <3>2. CASE found = {}
      BY <3>1, <3>2 DEF LoaderInv
    <3>3. ASSUME NEW r \in found PROVE LoaderInv(w)'
      <4>1. PICK f : StoredWhole(f) /\ f["manifest"].id = id
        BY DEF ReleaseInv, RowsInv, Stored
      <4>2. RowsOf(id) = Seed(f)
        BY <4>1 DEF StoredWhole
      <4>3. found = {Row(f, "release")}
        <5>1. found = {q \in Seed(f) : q.section = "release"}
          BY <4>2 DEF Stored, RowsOf
        <5>2. QED
          BY <5>1, RowsBySection DEF Seed, Sections, Sources
      <4>4. Sections \ DOMAIN After = {"release"}
        BY DEF Sections, Sources, After
      <4>5. loads'[w].rows = {Row(f, t) : t \in Sections \ loads'[w].left}
        BY <3>1, <4>3, <4>4
      <4>6. QED
        BY <1>2, <3>1, <4>1, <4>5 DEF LoaderInv
    <3>4. QED
      BY <3>2, <3>3
  <2>2. CASE LoadSection(w, s)
    <3> DEFINE load == loads[w]
    <3>1. /\ s \in load.left
          /\ loads'[w] = [id |-> load.id, left |-> load.left \ {s},
                          rows |-> load.rows \cup Stored(load.id, s)]
      BY <2>2 DEF ReleaseInv, LoadSection
    <3>2. LoaderInv(w)
      BY DEF ReleaseInv
    <3>3. PICK f : /\ StoredWhole(f) /\ f["manifest"].id = load.id
                   /\ load.rows = {Row(f, t) : t \in Sections \ load.left}
      BY <3>1, <3>2 DEF LoaderInv
    <3>4. s \in Sections
      BY <3>1, <3>2 DEF LoaderInv, After, Sections, Sources
    <3>5. Stored(load.id, s) = {Row(f, s)}
      <4>1. Stored(load.id, s) = {q \in Seed(f) : q.section = s}
        BY <3>3 DEF StoredWhole, Stored, RowsOf
      <4>2. QED
        BY <3>4, <4>1, RowsBySection DEF Seed
    <3>6. loads'[w].rows = {Row(f, t) : t \in Sections \ loads'[w].left}
      BY <3>1, <3>3, <3>4, <3>5
    <3>7. loads'[w].left \subseteq DOMAIN After /\ loads'[w].rows # {} /\ loads'[w].id = load.id
      BY <3>1, <3>2, <3>5 DEF LoaderInv
    <3>8. QED
      BY <1>2, <3>3, <3>6, <3>7 DEF LoaderInv
  <2>3. QED
    BY <2>1, <2>2
<1>5. (\A i \in Importers : ImporterInv(i)') /\ OneFills' /\ RowsInv'
  BY <1>1, <1>2 DEF ReleaseInv, ImporterInv, OneFills, RowsInv, RowsOf, Filled, IdOf
<1>6. QED
  BY <1>1, <1>3, <1>4, <1>5 DEF ReleaseInv

LEMMA ReleaseStep == ReleaseInv /\ [ReleaseNext]_releasevars => ReleaseInv'
<1> SUFFICES ASSUME ReleaseInv, [ReleaseNext]_releasevars PROVE ReleaseInv'
  OBVIOUS
<1>1. ASSUME NEW i \in Importers,
             \/ ReadManifest(i) \/ Validate(i)
             \/ \E name \in {"catalog", "baseline", "calibration"} : ReadArtifact(i, name)
             \/ InsertRelease(i) \/ FillSection(i) \/ CommitRelease(i) \/ RollBack(i)
      PROVE  ReleaseInv'
  BY <1>1, ReadingKeeps, ValidateKeeps, InsertKeeps, FillKeeps, CommitKeeps, RefuseKeeps
     DEF RollBack
<1>2. ASSUME NEW w \in Loaders, (\E id \in Releases : LoadRelease(w, id))
                                \/ (\E s \in Sections : LoadSection(w, s))
      PROVE  ReleaseInv'
  BY <1>2, LoadKeeps
<1>3. CASE UNCHANGED releasevars
  <2>1. \A i \in Importers : ImporterInv(i)'
    BY <1>3 DEF ReleaseInv, ImporterInv, RowsOf, Filled, IdOf, releasevars
  <2>2. OneFills' /\ RowsInv' /\ \A w \in Loaders : LoaderInv(w)'
    BY <1>3 DEF ReleaseInv, OneFills, RowsInv, LoaderInv, StoredWhole, RowsOf, IdOf, releasevars
  <2>3. QED
    BY <1>3, <2>1, <2>2 DEF ReleaseInv, releasevars
<1>4. QED
  BY <1>1, <1>2, <1>3 DEF ReleaseNext

\* What a worker scores with is one manifest's release, whole and checked, and an
\* import that succeeds stored its own files' or found it there
\* (scoring/release-import.ts, scoring/repository.ts).
THEOREM ReleaseIsItsManifestsCorrect == ReleaseSpec => []ReleaseIsItsManifests
<1>1. ASSUME ReleaseInv PROVE ReleaseIsItsManifests
  <2>1. ASSUME NEW w \in Loaders, loads[w].left = {}, NEW r \in loads[w].rows,
               r.section = "release", NEW m, m = r.content["manifest"]
        PROVE  Coherent(FilesOf(m)) /\ FilesOf(m)["manifest"].id = loads[w].id
               /\ loads[w].rows = Seed(FilesOf(m))
    <3>1. PICK f : /\ StoredWhole(f) /\ f["manifest"].id = loads[w].id
                   /\ loads[w].rows = {Row(f, s) : s \in Sections \ loads[w].left}
      BY <1>1, <2>1 DEF ReleaseInv, LoaderInv
    <3>2. loads[w].rows = Seed(f)
      BY <2>1, <3>1 DEF Seed
    <3>3. r = Row(f, "release")
      BY <2>1, <3>2, RowsBySection DEF Seed
    <3>4. m = f["manifest"]
      BY <2>1, <3>1, <3>3 DEF Row, Sources, StoredWhole, Imported
    <3>5. FilesOf(m) = f
      BY <3>1, <3>4 DEF StoredWhole, Imported
    <3>6. QED
      BY <3>1, <3>2, <3>5 DEF StoredWhole, Imported
  <2>2. QED
    BY <1>1, <2>1 DEF ReleaseIsItsManifests, ReleaseInv, ImporterInv
<1>2. QED
  BY <1>1, ReleaseInitial, ReleaseStep, PTL DEF ReleaseSpec
-----------------------------------------------------------------------------
(* RunLog.                                                                 *)
Tx == [at : {"idle", "open", "chaining"}, kind : DOMAIN Kinds, runs : SUBSET Runs, event : Nat,
       due : SUBSET (Runs \cup {"other"}), rows : SUBSET [id : Nat, prev : Nat], prev : Nat]

LogTypes ==
    /\ txs \in [Writers -> Tx]
    /\ log \in SUBSET [id : Nat, run : Runs] /\ audits \in SUBSET [id : Nat, prev : Nat]
    /\ drawn \in [events : Nat, audits : Nat]
    /\ stream \in [at : {"off", "poll", "look", "ended"}, cursor : Nat, sent : SUBSET Nat]
    /\ tab \in [at : {"away", "streaming", "asking", "done", "failed"}, cursor : Nat,
                applied : SUBSET Nat]

\* Nobody else works on the runs of a transaction, so that an id it has drawn is
\* greater than those of every committed event of its runs.
LockedRuns ==
    /\ \A v, w \in Writers : v # w => txs[v].runs \cap txs[w].runs = {}
    /\ \A w \in Writers : txs[w].at = "idle" => txs[w] = NoTx
EventsInOrder ==
    /\ \A e \in log : 0 < e.id /\ e.id <= drawn.events
    /\ \A w \in Writers : txs[w].event # 0 =>
          /\ txs[w].event <= drawn.events
          /\ \A e \in log : e.run \in txs[w].runs => e.id < txs[w].event

\* The cursors stand at events of the run.
Position(id) == id = 0 \/ \E e \in log : e.run = Watched /\ e.id = id
ReaderInv ==
    /\ EventsArriveOnce
    /\ Position(tab.cursor)
    /\ stream.at # "off" => /\ tab.at = "streaming" /\ Position(stream.cursor)
                            /\ tab.cursor <= stream.cursor

\* One transaction at a time appends to the chain, and what it has appended is
\* its continuation.
ChainOf(rows) == \A a \in rows : Newest({b \in rows : b.id < a.id}, a.prev)
ChainInv ==
    /\ \A v, w \in Writers : Chaining(v) /\ Chaining(w) => v = w
    /\ \A a \in audits : a.id <= drawn.audits
    /\ \A w \in Writers :
          /\ \A a \in txs[w].rows : a.id <= drawn.audits
          /\ ChainOf(audits \cup txs[w].rows)
          /\ txs[w].at = "chaining" => Newest(audits \cup txs[w].rows, txs[w].prev)
    /\ ChainOf(audits)

LogInv == LogTypes /\ LockedRuns /\ EventsInOrder /\ ReaderInv /\ ChainInv

LEMMA NoTxType == NoTx \in Tx
<1>1. "other" \in DOMAIN Kinds
  BY DEF Kinds
<1>2. QED
  BY <1>1 DEF NoTx, Tx

LEMMA LogInitial == LogInit => LogInv
<1> SUFFICES ASSUME LogInit PROVE LogInv
  OBVIOUS
<1>1. LogTypes
  BY NoTxType DEF LogInit, LogTypes
<1>2. \A w \in Writers : txs[w].runs = {} /\ txs[w].event = 0 /\ txs[w].rows = {} /\ txs[w].at = "idle"
  BY DEF LogInit, NoTx
<1>3. QED
  BY <1>1, <1>2 DEF LogInit, LogInv, NoTx, LockedRuns, EventsInOrder, ReaderInv, Position, ChainInv,
                    ChainOf, Chaining, EventsArriveOnce, EventsUpTo

\* The readers are as good as the log they read.
LEMMA LogStands ==
  ASSUME ReaderInv, UNCHANGED <<log, stream, tab>>
  PROVE  ReaderInv'
  BY DEF ReaderInv, Position, EventsArriveOnce, EventsUpTo

\* A step of one connection that commits nothing.
LEMMA WriterMoves ==
  ASSUME LogInv, NEW w \in Writers, NEW tx \in Tx, txs' = [txs EXCEPT ![w] = tx],
         UNCHANGED <<log, audits, stream, tab>>,
         drawn' \in [events : Nat, audits : Nat],
         drawn.events <= drawn'.events, drawn.audits <= drawn'.audits,
         \A v \in Writers \ {w} : txs[v].runs \cap tx.runs = {},
         tx.at = "idle" => tx = NoTx,
         tx.event # 0 => /\ tx.event <= drawn'.events
                         /\ \A e \in log : e.run \in tx.runs => e.id < tx.event,
         tx.at = "chaining" \/ tx.rows # {} => \A v \in Writers \ {w} : ~Chaining(v),
         \A a \in tx.rows : a.id <= drawn'.audits,
         ChainOf(audits \cup tx.rows),
         tx.at = "chaining" => Newest(audits \cup tx.rows, tx.prev)
  PROVE  LogInv'
<1>1. txs'[w] = tx /\ \A v \in Writers \ {w} : txs'[v] = txs[v]
  BY DEF LogInv, LogTypes
<1>2. LogTypes'
  BY DEF LogInv, LogTypes
<1>3. LockedRuns'
  BY <1>1 DEF LogInv, LockedRuns
<1>4. EventsInOrder'
  <2>1. \A v \in Writers : txs[v].event \in Nat
    BY DEF LogInv, LogTypes, Tx
  <2>2. tx.event \in Nat /\ drawn.events \in Nat /\ drawn'.events \in Nat /\ \A e \in log : e.id \in Nat
    BY DEF LogInv, LogTypes, Tx
  <2>3. \A v \in Writers : txs'[v].event # 0 =>
          /\ txs'[v].event <= drawn'.events
          /\ \A e \in log : e.run \in txs'[v].runs => e.id < txs'[v].event
    BY <1>1, <2>1, <2>2 DEF LogInv, EventsInOrder
  <2>4. QED
    BY <2>2, <2>3 DEF LogInv, EventsInOrder
<1>5. ReaderInv'
  BY LogStands DEF LogInv
<1>6. ChainInv'
  <2>1. \A v \in Writers \ {w} : Chaining(v)' <=> Chaining(v)
    BY <1>1 DEF Chaining
  <2>2. Chaining(w)' <=> tx.at = "chaining" \/ tx.rows # {}
    BY <1>1 DEF Chaining
  <2>3. drawn.audits \in Nat /\ drawn'.audits \in Nat /\ (\A a \in audits : a.id \in Nat)
        /\ \A v \in Writers : \A a \in txs[v].rows : a.id \in Nat
    BY DEF LogInv, LogTypes, Tx
  <2>4. \A a \in audits' : a.id <= drawn'.audits
    BY <2>3 DEF LogInv, ChainInv
  <2>5. \A v \in Writers \ {w} :
          /\ \A a \in txs'[v].rows : a.id <= drawn'.audits
          /\ ChainOf(audits' \cup txs'[v].rows)
          /\ txs'[v].at = "chaining" => Newest(audits' \cup txs'[v].rows, txs'[v].prev)
    BY <1>1, <2>3 DEF LogInv, ChainInv
  <2>6. QED
    BY <1>1, <2>1, <2>2, <2>4, <2>5 DEF LogInv, ChainInv
<1>7. QED
  BY <1>2, <1>3, <1>4, <1>5, <1>6 DEF LogInv

LEMMA BeginKeeps ==
  ASSUME LogInv, NEW w \in Writers, NEW kind \in DOMAIN Kinds, NEW targets \in Targets(kind),
         Begin(w, kind, targets)
  PROVE  LogInv'
<1> DEFINE tx == [NoTx EXCEPT !.at = "open", !.kind = kind, !.runs = targets,
                       !.due = IF kind = "other" THEN {kind}
                               ELSE IF Kinds[kind].audit THEN targets ELSE {}]
<1>1. targets \in SUBSET Runs
  BY DEF Targets
<1>2. tx \in Tx /\ tx.runs = targets /\ tx.event = 0 /\ tx.rows = {} /\ tx.at = "open"
  BY <1>1, NoTxType DEF NoTx, Tx
<1>3. /\ txs' = [txs EXCEPT ![w] = tx] /\ UNCHANGED <<log, audits, drawn, stream, tab>>
      /\ \A r \in targets : ~Locked(r)
  BY DEF Begin, Open, Data, readers
<1> HIDE DEF tx
<1>4. \A v \in Writers \ {w} : txs[v].runs \cap tx.runs = {}
  BY <1>2, <1>3 DEF LogInv, LockedRuns, Locked, NoTx
<1>5. ChainOf(audits \cup tx.rows)
  BY <1>2 DEF LogInv, ChainInv
<1>6. drawn' \in [events : Nat, audits : Nat] /\ drawn.events <= drawn'.events
      /\ drawn.audits <= drawn'.audits
  BY <1>3 DEF LogInv, LogTypes
<1>7. QED
  BY <1>2, <1>3, <1>4, <1>5, <1>6, WriterMoves

LEMMA RollbackKeeps ==
  ASSUME LogInv, NEW w \in Writers, Rollback(w)
  PROVE  LogInv'
<1>1. NoTx \in Tx /\ NoTx.runs = {} /\ NoTx.event = 0 /\ NoTx.rows = {} /\ NoTx.at = "idle"
  BY NoTxType DEF NoTx
<1>2. txs' = [txs EXCEPT ![w] = NoTx] /\ UNCHANGED <<log, audits, drawn, stream, tab>>
  BY DEF Rollback, Data, readers
<1>3. ChainOf(audits \cup NoTx.rows)
  BY <1>1 DEF LogInv, ChainInv
<1>4. drawn' \in [events : Nat, audits : Nat] /\ drawn.events <= drawn'.events
      /\ drawn.audits <= drawn'.audits
  BY <1>2 DEF LogInv, LogTypes
<1>5. QED
  BY <1>1, <1>2, <1>3, <1>4, WriterMoves

LEMMA AppendKeeps ==
  ASSUME LogInv, NEW w \in Writers, AppendEvent(w)
  PROVE  LogInv'
<1> DEFINE old == txs[w]
           tx == [old EXCEPT !.event = drawn.events + 1]
<1>1. old \in Tx /\ drawn \in [events : Nat, audits : Nat]
  BY DEF LogInv, LogTypes
<1>2. tx \in Tx /\ tx.runs = old.runs /\ tx.rows = old.rows /\ tx.at = "open" /\ tx.prev = old.prev
      /\ tx.event = drawn.events + 1
  BY <1>1 DEF Tx, AppendEvent
<1>3. txs' = [txs EXCEPT ![w] = tx] /\ UNCHANGED <<log, audits, stream, tab>>
      /\ drawn' = [drawn EXCEPT !.events = @ + 1]
  BY DEF AppendEvent, Data, readers
<1>4. /\ drawn' \in [events : Nat, audits : Nat] /\ drawn.events <= drawn'.events
      /\ drawn.audits <= drawn'.audits /\ drawn'.events = drawn.events + 1
      /\ drawn'.audits = drawn.audits
  BY <1>1, <1>3
<1>5. \A e \in log : e.id < drawn.events + 1
  BY <1>1 DEF LogInv, LogTypes, EventsInOrder
<1>6. \A v \in Writers \ {w} : txs[v].runs \cap old.runs = {}
  BY DEF LogInv, LockedRuns
<1>7. /\ old.rows # {} => \A v \in Writers \ {w} : ~Chaining(v)
      /\ \A a \in old.rows : a.id <= drawn.audits
      /\ ChainOf(audits \cup old.rows)
  BY DEF LogInv, ChainInv, Chaining
<1> HIDE DEF tx, old
<1>8. /\ tx.event <= drawn'.events /\ \A e \in log : e.run \in tx.runs => e.id < tx.event
      /\ tx.at # "idle" /\ tx.at # "chaining"
  BY <1>1, <1>2, <1>4, <1>5
<1>9. /\ tx.rows # {} => \A v \in Writers \ {w} : ~Chaining(v)
      /\ \A a \in tx.rows : a.id <= drawn'.audits
      /\ ChainOf(audits \cup tx.rows)
  BY <1>2, <1>4, <1>7
<1>10. \A v \in Writers \ {w} : txs[v].runs \cap tx.runs = {}
  BY <1>2, <1>6
<1>11. QED
  BY <1>2, <1>3, <1>4, <1>8, <1>9, <1>10, WriterMoves

LEMMA ReadKeeps ==
  ASSUME LogInv, NEW w \in Writers, ReadNewest(w)
  PROVE  LogInv'
<1> DEFINE old == txs[w]
<1>1. PICK id \in 0..drawn.audits : /\ Newest(audits \cup old.rows, id)
                                     /\ txs' = [txs EXCEPT ![w].at = "chaining", ![w].prev = id]
  BY DEF ReadNewest
<1> DEFINE tx == [old EXCEPT !.at = "chaining", !.prev = id]
<1>2. old \in Tx /\ drawn \in [events : Nat, audits : Nat]
  BY DEF LogInv, LogTypes
<1>3. tx \in Tx /\ tx.runs = old.runs /\ tx.rows = old.rows /\ tx.at = "chaining" /\ tx.prev = id
      /\ tx.event = old.event
  <2>1. id \in Nat
    BY <1>2
  <2>2. QED
    BY <1>2, <2>1 DEF Tx
<1>4. txs' = [txs EXCEPT ![w] = tx] /\ UNCHANGED <<log, audits, drawn, stream, tab>>
      /\ \A v \in Writers \ {w} : ~Chaining(v)
  BY <1>1 DEF ReadNewest, Data, readers
<1>5. /\ drawn' \in [events : Nat, audits : Nat] /\ drawn.events <= drawn'.events
      /\ drawn.audits <= drawn'.audits
  BY <1>2, <1>4
<1>6. \A v \in Writers \ {w} : txs[v].runs \cap old.runs = {}
  BY DEF LogInv, LockedRuns
<1>7. /\ \A a \in old.rows : a.id <= drawn.audits
      /\ ChainOf(audits \cup old.rows)
  BY DEF LogInv, ChainInv
<1>8. old.event # 0 => /\ old.event <= drawn.events
                       /\ \A e \in log : e.run \in old.runs => e.id < old.event
  BY DEF LogInv, EventsInOrder
<1>9. /\ Newest(audits \cup tx.rows, tx.prev) /\ ChainOf(audits \cup tx.rows)
      /\ \A a \in tx.rows : a.id <= drawn'.audits
  BY <1>1, <1>3, <1>4, <1>7
<1>10. tx.event # 0 => /\ tx.event <= drawn'.events
                       /\ \A e \in log : e.run \in tx.runs => e.id < tx.event
  BY <1>3, <1>4, <1>8
<1>11. tx.at # "idle" /\ \A v \in Writers \ {w} : txs[v].runs \cap tx.runs = {}
  BY <1>3, <1>6
<1> HIDE DEF tx, old
<1>12. QED
  BY <1>3, <1>4, <1>5, <1>9, <1>10, <1>11, WriterMoves

\* The chain grows at its end.
LEMMA ChainGrows ==
  ASSUME NEW rows, \A a \in rows : a.id \in Nat, ChainOf(rows),
         NEW id \in Nat, \A a \in rows : a.id < id, NEW prev, Newest(rows, prev)
  PROVE  ChainOf(rows \cup {[id |-> id, prev |-> prev]})
<1> DEFINE new == [id |-> id, prev |-> prev]
<1>1. {b \in rows \cup {new} : b.id < new.id} = rows
  OBVIOUS
<1>2. \A a \in rows : {b \in rows \cup {new} : b.id < a.id} = {b \in rows : b.id < a.id}
  OBVIOUS
<1>3. new.prev = prev
  OBVIOUS
<1> HIDE DEF new
<1>4. ChainOf(rows \cup {new})
  BY <1>1, <1>2, <1>3 DEF ChainOf
<1>5. QED
  BY <1>4 DEF new

LEMMA InsertAuditKeeps ==
  ASSUME LogInv, NEW w \in Writers, InsertAudit(w)
  PROVE  LogInv'
<1> DEFINE old == txs[w]
           row == [id |-> drawn.audits + 1, prev |-> old.prev]
<1>1. PICK subject \in old.due :
          txs' = [txs EXCEPT ![w].at = "open", ![w].due = @ \ {subject}, ![w].rows = @ \cup {row}]
  BY DEF InsertAudit
<1> DEFINE tx == [old EXCEPT !.at = "open", !.due = @ \ {subject}, !.rows = @ \cup {row}]
<1>2. old \in Tx /\ drawn \in [events : Nat, audits : Nat] /\ old.at = "chaining"
  BY DEF LogInv, LogTypes, InsertAudit
<1>3. /\ tx.at = "open" /\ tx.kind = old.kind /\ tx.runs = old.runs /\ tx.event = old.event
      /\ tx.due = old.due \ {subject} /\ tx.rows = old.rows \cup {row} /\ tx.prev = old.prev
      /\ row \in [id : Nat, prev : Nat] /\ row.id = drawn.audits + 1 /\ row.prev = old.prev
  BY <1>2 DEF Tx
<1>4. tx \in Tx
  BY <1>2, <1>3 DEF Tx
<1>5. txs' = [txs EXCEPT ![w] = tx] /\ UNCHANGED <<log, audits, stream, tab>>
      /\ drawn' = [drawn EXCEPT !.audits = @ + 1]
  BY <1>1 DEF InsertAudit, Data, readers
<1>6. /\ drawn' \in [events : Nat, audits : Nat] /\ drawn.events <= drawn'.events
      /\ drawn.audits <= drawn'.audits /\ drawn'.audits = drawn.audits + 1
      /\ drawn'.events = drawn.events
  BY <1>2, <1>5
<1>7. \A v \in Writers \ {w} : txs[v].runs \cap old.runs = {}
  BY DEF LogInv, LockedRuns
<1>8. old.event # 0 => /\ old.event <= drawn.events
                       /\ \A e \in log : e.run \in old.runs => e.id < old.event
  BY DEF LogInv, EventsInOrder
<1>9. /\ \A v \in Writers \ {w} : ~Chaining(v)
      /\ Newest(audits \cup old.rows, old.prev) /\ ChainOf(audits \cup old.rows)
      /\ \A a \in audits \cup old.rows : a.id <= drawn.audits /\ a.id \in Nat
  BY <1>2 DEF LogInv, LogTypes, Tx, ChainInv, Chaining
<1>10. ChainOf(audits \cup tx.rows)
  <2>1. ChainOf((audits \cup old.rows) \cup {row})
    BY <1>2, <1>9, ChainGrows
  <2>2. (audits \cup old.rows) \cup {row} = audits \cup tx.rows
    BY <1>3
  <2>3. QED
    BY <2>1, <2>2
<1>11. \A a \in tx.rows : a.id <= drawn'.audits
  BY <1>2, <1>3, <1>6, <1>9
<1>12. tx.event # 0 => /\ tx.event <= drawn'.events
                       /\ \A e \in log : e.run \in tx.runs => e.id < tx.event
  BY <1>3, <1>5, <1>6, <1>8
<1>13. /\ tx.at # "idle" /\ tx.at # "chaining"
       /\ \A v \in Writers \ {w} : txs[v].runs \cap tx.runs = {}
  BY <1>3, <1>7
<1> HIDE DEF tx, old, row
<1>14. QED
  BY <1>4, <1>5, <1>6, <1>9, <1>10, <1>11, <1>12, <1>13, WriterMoves

LEMMA LogCommitKeeps ==
  ASSUME LogInv, NEW w \in Writers, Commit(w)
  PROVE  LogInv'
<1>0. PICK tx : tx = txs[w]
  OBVIOUS
<1>1. /\ tx.at = "open" /\ ~EventDue(w)
      /\ log' = IF Kinds[tx.kind].event
                THEN log \cup {[id |-> tx.event, run |-> r] : r \in tx.runs} ELSE log
      /\ audits' = audits \cup tx.rows
      /\ txs' = [txs EXCEPT ![w] = NoTx]
      /\ UNCHANGED <<drawn, stream, tab>>
  BY <1>0 DEF Commit, readers
<1>2. tx \in Tx /\ drawn \in [events : Nat, audits : Nat] /\ \A e \in log : e.id \in Nat
  BY <1>0 DEF LogInv, LogTypes
<1>3. txs'[w] = NoTx /\ \A v \in Writers \ {w} : txs'[v] = txs[v]
  BY <1>1 DEF LogInv, LogTypes
<1>4. NoTx.at = "idle" /\ NoTx.runs = {} /\ NoTx.event = 0 /\ NoTx.rows = {}
  BY DEF NoTx
<1>5. Kinds[tx.kind].event => tx.event # 0
  BY <1>0, <1>1 DEF EventDue
<1>6. \A e \in log' \ log : /\ e.id = tx.event /\ e.run \in tx.runs /\ tx.event # 0
                             /\ e \in [id : Nat, run : Runs]
  BY <1>1, <1>2, <1>5 DEF Tx
<1>7. LogTypes'
  <2>1. log' \in SUBSET [id : Nat, run : Runs]
    BY <1>6 DEF LogInv, LogTypes
  <2>2. audits' \in SUBSET [id : Nat, prev : Nat]
    BY <1>1, <1>2 DEF LogInv, LogTypes, Tx
  <2>3. txs' \in [Writers -> Tx]
    BY <1>1, NoTxType DEF LogInv, LogTypes
  <2>4. QED
    BY <1>1, <2>1, <2>2, <2>3 DEF LogInv, LogTypes
<1>8. LockedRuns'
  BY <1>3, <1>4 DEF LogInv, LockedRuns
<1>9. EventsInOrder'
  <2>1. \A e \in log' : 0 < e.id /\ e.id <= drawn.events
    <3>1. tx.event # 0 => 0 < tx.event /\ tx.event <= drawn.events
      BY <1>0, <1>2 DEF LogInv, EventsInOrder, Tx
    <3>2. QED
      BY <1>6, <3>1 DEF LogInv, EventsInOrder
  <2>2. ASSUME NEW v \in Writers \ {w}, txs[v].event # 0, NEW e \in log', e.run \in txs[v].runs
        PROVE  e.id < txs[v].event
    <3>1. e.run \notin tx.runs
      BY <1>0, <2>2 DEF LogInv, LockedRuns
    <3>2. QED
      BY <1>6, <2>2, <3>1 DEF LogInv, EventsInOrder
  <2>3. \A v \in Writers : txs'[v].event # 0 =>
          /\ txs'[v].event <= drawn.events
          /\ \A e \in log' : e.run \in txs'[v].runs => e.id < txs'[v].event
    BY <1>3, <1>4, <2>2 DEF LogInv, EventsInOrder
  <2>4. QED
    BY <1>1, <2>1, <2>3 DEF EventsInOrder
<1>10. ReaderInv'
  <2>1. \A e \in log' \ log : e.run = Watched => \A d \in log : d.run = Watched => d.id < e.id
    BY <1>0, <1>6 DEF LogInv, EventsInOrder
  <2>2. \A id \in Nat : Position(id) => Position(id)' /\ EventsUpTo(id)' = EventsUpTo(id)
    <3>1. SUFFICES ASSUME NEW id \in Nat, Position(id)
                   PROVE  Position(id)' /\ EventsUpTo(id)' = EventsUpTo(id)
      OBVIOUS
    <3>2. log \subseteq log'
      BY <1>1
    <3>3. Position(id)'
      BY <3>1, <3>2 DEF Position
    <3>4. ASSUME NEW e \in log' \ log, e.run = Watched PROVE ~(e.id <= id)
      <4>1. e.id \in Nat /\ e.id # 0
        BY <1>6
      <4>2. CASE id = 0
        BY <4>1, <4>2
      <4>3. CASE id # 0
        <5>1. PICK d \in log : d.run = Watched /\ d.id = id
          BY <3>1, <4>3 DEF Position
        <5>2. id < e.id
          BY <2>1, <3>4, <5>1
        <5>3. QED
          BY <4>1, <5>2
      <4>4. QED
        BY <4>2, <4>3
    <3>5. QED
      BY <3>2, <3>3, <3>4 DEF EventsUpTo
  <2>3. tab.cursor \in Nat /\ stream.cursor \in Nat /\ tab' = tab /\ stream' = stream
    BY <1>1 DEF LogInv, LogTypes
  <2>4. QED
    BY <2>2, <2>3 DEF LogInv, ReaderInv, EventsArriveOnce
<1>11. ChainInv'
  <2>1. \A v \in Writers \ {w} : Chaining(v)' <=> Chaining(v)
    BY <1>3 DEF Chaining
  <2>2. ~Chaining(w)'
    BY <1>3, <1>4 DEF Chaining
  <2>3. \A a \in audits' : a.id <= drawn.audits
    BY <1>0, <1>1 DEF LogInv, ChainInv
  <2>4. ChainOf(audits')
    BY <1>0, <1>1 DEF LogInv, ChainInv
  <2>5. ASSUME NEW v \in Writers \ {w}
        PROVE  /\ \A a \in txs[v].rows : a.id <= drawn.audits
               /\ ChainOf(audits' \cup txs[v].rows)
               /\ txs[v].at = "chaining" => Newest(audits' \cup txs[v].rows, txs[v].prev)
    <3>1. CASE Chaining(v)
      <4>1. tx.rows = {}
        BY <1>0, <3>1, <2>5 DEF LogInv, ChainInv, Chaining
      <4>2. audits' = audits
        BY <1>1, <4>1
      <4>3. QED
        BY <4>2 DEF LogInv, ChainInv
    <3>2. CASE ~Chaining(v)
      <4>1. txs[v].rows = {} /\ txs[v].at # "chaining"
        BY <3>2 DEF Chaining
      <4>2. audits' \cup txs[v].rows = audits'
        BY <4>1
      <4>3. QED
        BY <2>4, <4>1, <4>2
    <3>3. QED
      BY <3>1, <3>2
  <2>6. \A v \in Writers :
          /\ \A a \in txs'[v].rows : a.id <= drawn.audits
          /\ ChainOf(audits' \cup txs'[v].rows)
          /\ txs'[v].at = "chaining" => Newest(audits' \cup txs'[v].rows, txs'[v].prev)
    <3>1. audits' \cup NoTx.rows = audits'
      BY <1>4
    <3>2. QED
      BY <1>3, <1>4, <2>4, <2>5, <3>1
  <2>7. QED
    BY <1>1, <2>1, <2>2, <2>3, <2>4, <2>6 DEF LogInv, ChainInv
<1>12. QED
  BY <1>7, <1>8, <1>9, <1>10, <1>11 DEF LogInv

\* Steps of the server's answer and of the page leave the logs alone.
LEMMA ReadersMove ==
  ASSUME LogInv, UNCHANGED Store, ReaderInv',
         stream' \in [at : {"off", "poll", "look", "ended"}, cursor : Nat, sent : SUBSET Nat],
         tab' \in [at : {"away", "streaming", "asking", "done", "failed"}, cursor : Nat,
                   applied : SUBSET Nat]
  PROVE  LogInv'
<1>1. UNCHANGED <<txs, log, audits, drawn>>
  BY DEF Store, Data
<1>2. LogTypes'
  BY <1>1 DEF LogInv, LogTypes
<1>3. LockedRuns' /\ EventsInOrder'
  BY <1>1 DEF LogInv, LockedRuns, EventsInOrder
<1>4. ChainInv'
  BY <1>1 DEF LogInv, ChainInv, ChainOf, Chaining
<1>5. QED
  BY <1>2, <1>3, <1>4 DEF LogInv

LEMMA PollKeeps ==
  ASSUME LogInv, Poll
  PROVE  LogInv'
<1>1. UNCHANGED Store /\ UNCHANGED tab /\ UNCHANGED log
  BY DEF Poll, Store, Data
<1>2. /\ stream \in [at : {"off", "poll", "look", "ended"}, cursor : Nat, sent : SUBSET Nat]
      /\ tab \in [at : {"away", "streaming", "asking", "done", "failed"}, cursor : Nat,
                   applied : SUBSET Nat]
      /\ \A e \in log : e.id \in Nat
  BY DEF LogInv, LogTypes
<1>3. ReaderInv /\ stream.at = "poll"
  BY DEF LogInv, Poll
<1>4. CASE Unsent = {} /\ stream' = [stream EXCEPT !.at = "look"]
  <2>1. stream'.cursor = stream.cursor /\ stream'.sent = stream.sent /\ stream'.at = "look"
    BY <1>2, <1>4
  <2>2. ReaderInv'
    BY <1>1, <1>3, <2>1 DEF ReaderInv, EventsArriveOnce, EventsUpTo, Position
  <2>3. QED
    BY <1>1, <1>2, <1>4, <2>2, ReadersMove
<1>5. ASSUME NEW last \in Unsent, \A id \in Unsent : id <= last,
             stream' = [at |-> "look", cursor |-> last, sent |-> stream.sent \cup Unsent]
      PROVE  LogInv'
  <2>1. PICK e \in log : e.id = last /\ e.run = Watched /\ e.id > stream.cursor
                         /\ stage[Watched] # "erased"
    BY <1>5 DEF Unsent
  <2>2. last \in Nat /\ Unsent \subseteq Nat
    BY <1>2, <2>1 DEF Unsent
  <2>3. EventsUpTo(last) = EventsUpTo(stream.cursor) \cup Unsent
    BY <1>2, <1>5, <2>1, <2>2 DEF EventsUpTo, Unsent
  <2>4. \A id \in Unsent : id \notin tab.applied
    BY <1>2, <1>3 DEF ReaderInv, EventsArriveOnce, EventsUpTo, Unsent
  <2>5. stream.sent \cup Unsent = EventsUpTo(last) \ tab.applied
    BY <1>3, <2>3, <2>4 DEF ReaderInv, EventsArriveOnce
  <2>6. Position(last) /\ tab.cursor <= last
    BY <1>2, <1>3, <2>1 DEF Position, ReaderInv
  <2>7. stream'.cursor = last /\ stream'.sent = stream.sent \cup Unsent /\ stream'.at = "look"
    BY <1>5
  <2>8. \A id : EventsUpTo(id)' = EventsUpTo(id) /\ (Position(id)' <=> Position(id))
    BY <1>1 DEF EventsUpTo, Position
  <2>9. ReaderInv'
    BY <1>1, <1>3, <2>5, <2>6, <2>7, <2>8 DEF ReaderInv, EventsArriveOnce
  <2>10. QED
    BY <1>1, <1>2, <1>5, <2>2, <2>9, ReadersMove
<1>6. QED
  BY <1>4, <1>5 DEF Poll

LEMMA ReadersAt ==
  ASSUME UNCHANGED log, NEW c, NEW d, tab'.cursor = c, stream'.cursor = d,
         tab'.applied = EventsUpTo(c), Position(c),
         stream'.at # "off" => /\ tab'.at = "streaming" /\ Position(d) /\ c <= d
                               /\ stream'.sent = EventsUpTo(d) \ tab'.applied
  PROVE  ReaderInv'
<1>1. EventsUpTo(tab.cursor)' = EventsUpTo(c) /\ EventsUpTo(stream.cursor)' = EventsUpTo(d)
  BY DEF EventsUpTo
<1>2. Position(tab.cursor)' = Position(c) /\ Position(stream.cursor)' = Position(d)
  BY DEF Position
<1>3. QED
  BY <1>1, <1>2 DEF ReaderInv, EventsArriveOnce

LEMMA PageKeeps ==
  ASSUME LogInv, Connect \/ Look \/ Deadline \/ Deliver \/ Break \/ Ask \/ Again
  PROVE  LogInv'
<1>1. UNCHANGED Store /\ UNCHANGED log
  BY DEF Connect, Look, Deadline, Deliver, Break, Ask, Again, Store, Data
<1>2. /\ stream \in [at : {"off", "poll", "look", "ended"}, cursor : Nat, sent : SUBSET Nat]
      /\ tab \in [at : {"away", "streaming", "asking", "done", "failed"}, cursor : Nat,
                   applied : SUBSET Nat]
  BY DEF LogInv, LogTypes
<1>3. /\ stream' \in [at : {"off", "poll", "look", "ended"}, cursor : Nat, sent : SUBSET Nat]
      /\ tab' \in [at : {"away", "streaming", "asking", "done", "failed"}, cursor : Nat,
                   applied : SUBSET Nat]
  BY <1>2 DEF Connect, Look, Deadline, Deliver, Break, Ask, Again, TabGoes, Hangup
<1>4. /\ tab.applied = EventsUpTo(tab.cursor) /\ Position(tab.cursor)
      /\ stream.at # "off" =>
            /\ tab.at = "streaming" /\ Position(stream.cursor) /\ tab.cursor <= stream.cursor
            /\ stream.sent = EventsUpTo(stream.cursor) \ tab.applied
  BY DEF LogInv, ReaderInv, EventsArriveOnce
<1>5. EventsUpTo(0) = {} /\ Position(0)
  BY DEF LogInv, LogTypes, EventsInOrder, EventsUpTo, Position
<1>6. CASE Connect /\ Owned
  <2>1. /\ tab'.at = "streaming" /\ tab'.cursor = tab.cursor /\ tab'.applied = tab.applied
        /\ stream'.at = "poll" /\ stream'.cursor = tab.cursor /\ stream'.sent = {}
    BY <1>2, <1>6 DEF Connect, TabGoes
  <2>2. {} = EventsUpTo(tab.cursor) \ tab'.applied /\ tab.cursor <= tab.cursor
    BY <1>2, <1>4, <2>1
  <2>3. ReaderInv'
    BY <1>1, <1>4, <2>1, <2>2, ReadersAt
  <2>4. QED
    BY <1>1, <1>3, <2>3, ReadersMove
<1>7. CASE (Connect /\ ~Owned) \/ Ask
  <2>1. /\ tab'.cursor = tab.cursor /\ tab'.applied = tab.applied
        /\ stream' = stream /\ stream.at = "off"
    BY <1>2, <1>4, <1>7 DEF Connect, Ask, TabGoes
  <2>2. ReaderInv'
    BY <1>1, <1>4, <2>1, ReadersAt
  <2>3. QED
    BY <1>1, <1>3, <2>2, ReadersMove
<1>8. CASE Look \/ Deadline
  <2>1. /\ tab' = tab /\ stream.at # "off"
        /\ stream'.cursor = stream.cursor /\ stream'.sent = stream.sent
    BY <1>2, <1>8 DEF Look, Deadline
  <2>2. ReaderInv'
    BY <1>1, <1>4, <2>1, ReadersAt
  <2>3. QED
    BY <1>1, <1>3, <2>2, ReadersMove
<1>9. CASE Deliver
  <2>1. /\ tab'.cursor = stream.cursor /\ tab'.applied = tab.applied \cup stream.sent
        /\ stream'.at = "off" /\ stream'.cursor = 0 /\ stream.at = "ended"
    BY <1>9 DEF Deliver, Hangup
  <2>2. EventsUpTo(tab.cursor) \subseteq EventsUpTo(stream.cursor)
    BY <1>2, <1>4, <2>1 DEF EventsUpTo, LogInv, LogTypes
  <2>3. tab'.applied = EventsUpTo(stream.cursor)
    BY <1>4, <2>1, <2>2
  <2>4. ReaderInv'
    BY <1>1, <1>4, <2>1, <2>3, ReadersAt
  <2>5. QED
    BY <1>1, <1>3, <2>4, ReadersMove
<1>10. CASE Break
  <2>1. /\ tab'.cursor = tab.cursor /\ tab'.applied = tab.applied
        /\ stream'.at = "off" /\ stream'.cursor = 0
    BY <1>2, <1>10 DEF Break, TabGoes, Hangup
  <2>2. ReaderInv'
    BY <1>1, <1>4, <2>1, ReadersAt
  <2>3. QED
    BY <1>1, <1>3, <2>2, ReadersMove
<1>11. CASE Again
  <2>1. /\ tab'.cursor = 0 /\ tab'.applied = {} /\ stream' = stream /\ stream.at = "off"
    BY <1>4, <1>11 DEF Again
  <2>2. ReaderInv'
    BY <1>1, <1>5, <2>1, ReadersAt
  <2>3. QED
    BY <1>1, <1>3, <2>2, ReadersMove
<1>12. QED
  BY <1>6, <1>7, <1>8, <1>9, <1>10, <1>11

LEMMA LogStep == LogInv /\ [LogNext]_logvars => LogInv'
<1> SUFFICES ASSUME LogInv, [LogNext]_logvars PROVE LogInv'
  OBVIOUS
<1>1. ASSUME NEW w \in Writers,
             \/ \E kind \in DOMAIN Kinds : \E targets \in Targets(kind) : Begin(w, kind, targets)
             \/ AppendEvent(w) \/ ReadNewest(w) \/ InsertAudit(w) \/ Commit(w) \/ Rollback(w)
      PROVE  LogInv'
  BY <1>1, BeginKeeps, AppendKeeps, ReadKeeps, InsertAuditKeeps, LogCommitKeeps, RollbackKeeps
<1>2. ASSUME (\E r \in Runs : SaveReport(r) \/ Purge(r)) \/ UNCHANGED logvars
      PROVE  LogInv'
  <2>1. UNCHANGED <<txs, log, audits, drawn, stream, tab>>
    BY <1>2 DEF SaveReport, Purge, logvars, readers
  <2>2. LogTypes' /\ LockedRuns' /\ EventsInOrder'
    BY <2>1 DEF LogInv, LogTypes, LockedRuns, EventsInOrder
  <2>3. ChainInv'
    BY <2>1 DEF LogInv, ChainInv, ChainOf, Chaining
  <2>4. QED
    BY <2>1, <2>2, <2>3, LogStands DEF LogInv
<1>3. QED
  BY <1>1, <1>2, PollKeeps, PageKeeps DEF LogNext

\* The page applies every event of its run exactly once, whatever transactions
\* commit meanwhile and however often it connects (listEvents and the row locks
\* of store/postgres-run-store.ts; waitForPrivateRun).
THEOREM EventsArriveOnceCorrect == LogSpec => []EventsArriveOnce
<1>1. LogInv => EventsArriveOnce
  BY DEF LogInv, ReaderInv
<1>2. QED
  BY <1>1, LogInitial, LogStep, PTL DEF LogSpec

\* The audit events form one chain in the order of their ids, whichever
\* processes append to it at the same time (appendAudit).
THEOREM AuditChainHoldsCorrect == LogSpec => []AuditChainHolds
<1>1. LogInv => AuditChainHolds
  BY DEF LogInv, ChainInv, ChainOf, AuditChainHolds
<1>2. QED
  BY <1>1, LogInitial, LogStep, PTL DEF LogSpec
-----------------------------------------------------------------------------
(* AdminPage: a copy of a draft says nothing about the draft as it is now  *)
(* but through its revision, and then everything; and the screen holds the *)
(* text of the copy, unless it is dirty or something was typed meanwhile.  *)
SheetRows ==
    [status : {"none", "draft", "publishing", "committed_pending_activation", "published", "deleted"},
     revision : Nat, document : DOMAIN Parsed \cup {"none"}]

IsDocument(doc) == doc \in DOMAIN Parsed /\ Parsed[doc] = doc
TextOf(text, doc) == text \in DOMAIN Parsed /\ Parsed[text] = doc

\* A row is one of the draft's: of an earlier revision, or with its document.
Known(rows, d, row) ==
    /\ d \in Sheets /\ IsDocument(row.document)
    /\ row.revision \in Nat
    /\ rows[d].status # "none"
    /\ rows[d].status # "deleted" =>
          /\ row.revision <= rows[d].revision
          /\ row.revision = rows[d].revision => row.document = rows[d].document

SoundTable(rows) ==
    /\ rows \in [Sheets -> SheetRows]
    /\ \A d \in Sheets : rows[d].status \notin {"none", "deleted"} => IsDocument(rows[d].document)

Desks == [open : BOOLEAN, id : Sheets \cup {"none"}, row : SheetRows, text : Texts \cup {"none"},
          dirty : BOOLEAN, asked : BOOLEAN, strayed : BOOLEAN]
Errands == [at : {"none", "refresh", "create", "save", "presave", "publish", "delete"},
            id : Sheets \cup {"none"}, text : Texts \cup {"none"}, reply : SheetRows]

AdminTypes ==
    /\ SoundTable(table)
    /\ \A d \in DOMAIN listed : listed[d] \in SheetRows
    /\ desk \in Desks /\ errand \in Errands

ScreenInv ==
    desk.open =>
        /\ Known(table, desk.id, desk.row)
        /\ ~desk.dirty => desk.strayed \/ TextOf(desk.text, desk.row.document)

ErrandInv ==
    /\ errand.at \in {"create", "save", "presave"} => Known(table, errand.id, errand.reply)
    /\ errand.at \in {"save", "presave"} =>
          /\ desk.open /\ desk.id = errand.id
          /\ TextOf(errand.text, errand.reply.document)

AdminInv ==
    /\ AdminTypes
    /\ \A d \in DOMAIN listed : Known(table, d, listed[d])
    /\ ScreenInv /\ ErrandInv
    /\ PublishedIsConfirmed

LEMMA AdminInitial == AdminInit => AdminInv
  BY DEF AdminInit, AdminInv, AdminTypes, SoundTable, SheetRows, Desks, Errands, NoSheet, NoDesk,
         NoErrand, ScreenInv, ErrandInv, PublishedIsConfirmed

\* What the steps of the table have in common.
Moves(rows, next) ==
    /\ SoundTable(next)
    /\ \A d \in Sheets :
          \/ next[d] = rows[d]
          \/ rows[d].status = "none"
          \/ next[d].status = "deleted"
          \/ /\ rows[d].status # "deleted" /\ next[d].status # "none"
             /\ \/ next[d].revision = rows[d].revision /\ next[d].document = rows[d].document
                \/ next[d].revision = rows[d].revision + 1

LEMMA KnownStays ==
  ASSUME NEW rows, SoundTable(rows), NEW next, Moves(rows, next),
         NEW d, NEW row, Known(rows, d, row)
  PROVE  Known(next, d, row)
<1>1. d \in Sheets /\ rows[d].revision \in Nat /\ next[d].revision \in Nat
  BY DEF Known, Moves, SoundTable, SheetRows
<1>2. QED
  BY <1>1 DEF Known, Moves

LEMMA NowKnown ==
  ASSUME NEW rows, SoundTable(rows), NEW d \in Sheets, rows[d].status \notin {"none", "deleted"}
  PROVE  Known(rows, d, rows[d]) /\ rows[d] \in SheetRows
  BY DEF Known, SoundTable, SheetRows

LEMMA CreateMoves ==
  ASSUME SoundTable(table), NEW d \in Sheets, NEW doc \in ParsedDocuments, Create(d, doc)
  PROVE  Moves(table, table') /\ table'[d].status = "draft"
<1>1. IsDocument(doc)
  BY AdminPageAssumption DEF ParsedDocuments, IsDocument
<1>2. QED
  BY <1>1 DEF Create, Moves, SoundTable, SheetRows, NoSheet, IsDocument

LEMMA UpdateMoves ==
  ASSUME SoundTable(table), NEW d \in Sheets, NEW text, IsOpen(d), Update(d, text)
  PROVE  /\ Moves(table, table') /\ table'[d].status = "draft"
         /\ TextOf(text, table'[d].document)
<1>1. text \in DOMAIN Parsed /\ IsDocument(Parsed[text])
  BY AdminPageAssumption DEF Update, IsValid, IsDocument
<1>2. Updated(d, text) \in SheetRows
  <2>1. PICK row : row = table[d]
    OBVIOUS
  <2>2. PICK doc : doc = Parsed[text]
    OBVIOUS
  <2>3. row \in SheetRows /\ doc \in DOMAIN Parsed
    BY <1>1, <2>1, <2>2 DEF SoundTable, IsDocument
  <2>4. [row EXCEPT !.document = doc, !.revision = row.revision + 1] \in SheetRows
    <3>1. [row EXCEPT !.document = doc] \in SheetRows /\ row.revision + 1 \in Nat
      BY <2>3 DEF SheetRows
    <3>2. \A r \in SheetRows, n \in Nat : [r EXCEPT !.revision = n] \in SheetRows
      BY DEF SheetRows
    <3>3. QED
      BY <3>1, <3>2
  <2>5. QED
    BY <2>1, <2>2, <2>4 DEF Updated
<1>3. /\ Updated(d, text).status = "draft" /\ Updated(d, text).document = Parsed[text]
      /\ Updated(d, text).revision = table[d].revision + 1
  BY DEF Updated, IsOpen, SoundTable, SheetRows
<1>4. \A e \in Sheets : table'[e] = IF e = d THEN Updated(d, text) ELSE table[e]
  BY DEF Update, SoundTable
<1>5. table' \in [Sheets -> SheetRows]
  BY <1>2 DEF Update, SoundTable
<1>6. QED
  BY <1>1, <1>3, <1>4, <1>5 DEF Moves, SoundTable, TextOf, IsOpen

LEMMA ClaimMoves ==
  ASSUME SoundTable(table), NEW d \in Sheets, IsOpen(d),
         table' = [table EXCEPT ![d] = Claimed(d)]
  PROVE  Moves(table, table')
<1>1. /\ Claimed(d) \in SheetRows /\ Claimed(d).document = table[d].document
      /\ Claimed(d).revision = table[d].revision /\ Claimed(d).status = "publishing"
  BY DEF Claimed, SoundTable, SheetRows
<1>2. \A e \in Sheets : table'[e] = IF e = d THEN Claimed(d) ELSE table[e]
  BY DEF SoundTable
<1>3. table' \in [Sheets -> SheetRows]
  BY <1>1 DEF SoundTable
<1>4. QED
  BY <1>1, <1>2, <1>3 DEF Moves, SoundTable, IsOpen

LEMMA DeleteMoves ==
  ASSUME SoundTable(table), NEW d \in Sheets, Delete(d)
  PROVE  Moves(table, table')
  BY DEF Delete, Moves, SoundTable, SheetRows, NoSheet

LEMMA ConcludeMoves ==
  ASSUME SoundTable(table), NEW d \in Sheets, Conclude(d)
  PROVE  Moves(table, table')
<1>1. PICK status \in {"draft", "committed_pending_activation", "published"} :
        table' = [table EXCEPT ![d].status = status]
  BY DEF Conclude
<1>2. table[d].status = "publishing"
  BY DEF Conclude
<1>3. QED
  BY <1>1, <1>2 DEF Moves, SoundTable, SheetRows

\* After a step of the table the page's copies are known still.
LEMMA CopiesStay ==
  ASSUME AdminInv, Moves(table, table')
  PROVE  /\ SoundTable(table')
         /\ \A d \in DOMAIN listed : Known(table', d, listed[d])
         /\ desk.open => Known(table', desk.id, desk.row)
         /\ errand.at \in {"create", "save", "presave"} => Known(table', errand.id, errand.reply)
<1>1. SoundTable(table) /\ SoundTable(table')
  BY DEF AdminInv, AdminTypes, Moves
<1>2. \A d \in DOMAIN listed : Known(table', d, listed[d])
  BY <1>1, KnownStays DEF AdminInv
<1>3. desk.open => Known(table', desk.id, desk.row)
  BY <1>1, KnownStays DEF AdminInv, ScreenInv
<1>4. errand.at \in {"create", "save", "presave"} => Known(table', errand.id, errand.reply)
  BY <1>1, KnownStays DEF AdminInv, ErrandInv
<1>5. QED
  BY <1>1, <1>2, <1>3, <1>4

LEMMA TableKeeps ==
  ASSUME AdminInv, Moves(table, table'), UNCHANGED <<listed, desk, errand, confirmed>>
  PROVE  AdminInv'
  BY CopiesStay DEF AdminInv, AdminTypes, ScreenInv, ErrandInv, PublishedIsConfirmed

LEMMA ServerKeeps ==
  ASSUME AdminInv, NEW d \in Sheets, Conclude(d) \/ Others(d)
  PROVE  AdminInv'
<1>1. SoundTable(table)
  BY DEF AdminInv, AdminTypes
<1>2. Moves(table, table')
  <2>1. CASE Conclude(d)
    BY <1>1, <2>1, ConcludeMoves
  <2>2. CASE Others(d)
    BY <1>1, <2>2, CreateMoves, UpdateMoves, DeleteMoves, ClaimMoves DEF Others
  <2>3. QED
    BY <2>1, <2>2
<1>3. QED
  BY <1>2, TableKeeps DEF Conclude, Others

LEMMA RefreshedKeeps == ASSUME AdminInv, Refreshed PROVE AdminInv'
<1>1. SoundTable(table) /\ table' = table
  BY DEF AdminInv, AdminTypes, Refreshed
<1>2. \A d \in DOMAIN listed' : Known(table', d, listed'[d]) /\ listed'[d] \in SheetRows
  BY <1>1, NowKnown DEF Refreshed, Exists
<1>3. errand' = NoErrand /\ NoErrand \in Errands /\ NoErrand.at = "none"
  BY DEF Refreshed, NoErrand, Errands, SheetRows, NoSheet
<1>4. QED
  BY <1>1, <1>2, <1>3 DEF Refreshed, AdminInv, AdminTypes, ScreenInv, ErrandInv, PublishedIsConfirmed

\* The end of a call, and an edit of the screen alone, that leaves it sound.
LEMMA CallEnds ==
  ASSUME AdminInv, UNCHANGED <<table, desk, confirmed>>, errand' = NoErrand,
         \A d \in DOMAIN listed' : listed'[d] \in SheetRows /\ Known(table, d, listed'[d])
  PROVE  AdminInv'
<1>1. NoErrand \in Errands /\ NoErrand.at = "none"
  BY DEF NoErrand, Errands, SheetRows, NoSheet
<1>2. QED
  BY <1>1 DEF AdminInv, AdminTypes, ScreenInv, ErrandInv, PublishedIsConfirmed

LEMMA OpenedSound ==
  ASSUME NEW d \in Sheets, NEW row \in SheetRows, IsDocument(row.document)
  PROVE  /\ Opened(d, row) \in Desks /\ Opened(d, row).id = d /\ Opened(d, row).row = row
         /\ TextOf(Opened(d, row).text, row.document)
<1>1. row.document \in Texts
  BY AdminPageAssumption DEF IsDocument
<1>2. QED
  BY <1>1 DEF Opened, NoDesk, Desks, SheetRows, NoSheet, TextOf, IsDocument

\* Another screen while no call is under way.
LEMMA ScreenMoves ==
  ASSUME AdminInv, UNCHANGED <<table, listed, errand, confirmed>>, desk' \in Desks, ScreenInv',
         \/ ~Busy
         \/ desk'.open = desk.open /\ desk'.id = desk.id
  PROVE  AdminInv'
  BY DEF AdminInv, AdminTypes, ErrandInv, PublishedIsConfirmed, Busy

LEMMA SelectKeeps ==
  ASSUME AdminInv, (\E d \in Sheets : SelectDraft(d)) \/ Discard
  PROVE  AdminInv'
<1>1. PICK d, row : /\ Known(table, d, row) /\ row \in SheetRows
                    /\ desk' = Opened(d, row) /\ ~Busy /\ UNCHANGED <<table, listed, errand, confirmed>>
  <2>1. CASE \E d \in Sheets : SelectDraft(d)
    BY <2>1 DEF SelectDraft, AdminInv, AdminTypes
  <2>2. CASE Discard
    BY <2>2 DEF Discard, AdminInv, AdminTypes, ScreenInv, Desks
  <2>3. QED
    BY <2>1, <2>2
<1>2. /\ desk' \in Desks /\ desk'.id = d /\ desk'.row = row
      /\ TextOf(desk'.text, row.document)
  BY <1>1, OpenedSound DEF Known
<1>3. ScreenInv'
  BY <1>1, <1>2 DEF ScreenInv
<1>4. QED
  BY <1>1, <1>2, <1>3, ScreenMoves

LEMMA TypingKeeps ==
  ASSUME AdminInv, (\E text \in Texts : MutateDocument(text)) \/ AskToPublish
  PROVE  AdminInv'
<1>1. desk \in Desks
  BY DEF AdminInv, AdminTypes
<1>2. /\ desk' \in Desks /\ desk'.open = desk.open /\ desk'.id = desk.id /\ desk'.row = desk.row
      /\ desk'.strayed = desk.strayed
      /\ desk'.dirty \/ (desk'.dirty = desk.dirty /\ desk'.text = desk.text)
      /\ UNCHANGED <<table, listed, errand, confirmed>>
  <2>1. CASE \E text \in Texts : MutateDocument(text)
    BY <1>1, <2>1 DEF MutateDocument, Desks
  <2>2. CASE AskToPublish
    BY <1>1, <2>2 DEF AskToPublish, Desks
  <2>3. QED
    BY <2>1, <2>2
<1>3. ScreenInv'
  <2>1. desk'.open => Known(table', desk'.id, desk'.row)
    BY <1>2 DEF AdminInv, ScreenInv
  <2>2. desk'.open /\ ~desk'.dirty => desk'.strayed \/ TextOf(desk'.text, desk'.row.document)
    BY <1>2 DEF AdminInv, ScreenInv
  <2>3. QED
    BY <2>1, <2>2 DEF ScreenInv
<1>4. QED
  BY <1>2, <1>3, ScreenMoves

LEMMA NewDraftKeeps ==
  ASSUME AdminInv, NEW d \in Sheets, NewDraft(d)
  PROVE  AdminInv'
<1>1. SoundTable(table)
  BY DEF AdminInv, AdminTypes
<1>2. Moves(table, table') /\ table'[d].status = "draft"
  BY <1>1, CreateMoves DEF NewDraft
<1>3. Known(table', d, table'[d]) /\ table'[d] \in SheetRows
  BY <1>2, NowKnown DEF Moves
<1>4. errand' \in Errands /\ errand'.at = "create" /\ errand'.id = d /\ errand'.reply = table'[d]
  BY <1>3 DEF NewDraft, NoErrand, Errands
<1>5. QED
  BY <1>2, <1>3, <1>4, CopiesStay
     DEF NewDraft, AdminInv, AdminTypes, ScreenInv, ErrandInv, PublishedIsConfirmed

LEMMA DraftCreatedKeeps == ASSUME AdminInv, DraftCreated PROVE AdminInv'
<1>1. PICK d, row : d = errand.id /\ row = errand.reply
  OBVIOUS
<1>2. Known(table, d, row) /\ row \in SheetRows
  BY <1>1 DEF DraftCreated, AdminInv, AdminTypes, ErrandInv, Errands
<1>3. /\ desk' = Opened(d, row) /\ listed' = Relisted(d, row) /\ errand' = NoErrand
      /\ UNCHANGED <<table, confirmed>>
  BY <1>1 DEF DraftCreated
<1>4. /\ desk' \in Desks /\ desk'.id = d /\ desk'.row = row
      /\ TextOf(desk'.text, row.document)
  BY <1>2, <1>3, OpenedSound DEF Known
<1>5. \A x \in DOMAIN listed' : listed'[x] \in SheetRows /\ Known(table, x, listed'[x])
  BY <1>2, <1>3 DEF Relisted, AdminInv, AdminTypes
<1>6. NoErrand \in Errands /\ NoErrand.at = "none"
  BY DEF NoErrand, Errands, SheetRows, NoSheet
<1>7. QED
  BY <1>2, <1>3, <1>4, <1>5, <1>6
     DEF AdminInv, AdminTypes, ScreenInv, ErrandInv, PublishedIsConfirmed

\* The call of saveDraft, by save or by publish.
LEMMA SavingKeeps ==
  ASSUME AdminInv, desk.open, NEW for \in {"save", "presave"}, Saving(for),
         UNCHANGED <<listed, desk, confirmed>>
  PROVE  AdminInv'
<1>1. SoundTable(table) /\ desk.id \in Sheets /\ desk.text \in Texts \cup {"none"}
  BY DEF AdminInv, AdminTypes, ScreenInv, Known, Desks
<1>2. PICK d, text : d = desk.id /\ text = desk.text
  OBVIOUS
<1>3. /\ Moves(table, table') /\ table'[d].status = "draft"
      /\ TextOf(text, table'[d].document)
  BY <1>1, <1>2, UpdateMoves DEF Saving, Matches
<1>4. Known(table', d, table'[d]) /\ table'[d] \in SheetRows
  BY <1>1, <1>2, <1>3, NowKnown DEF Moves
<1>5. errand' = [at |-> for, id |-> d, text |-> text, reply |-> table'[d]]
  BY <1>2 DEF Saving
<1>6. /\ errand' \in Errands /\ errand'.at \in {"save", "presave"} /\ errand'.id = d
      /\ errand'.text = text /\ errand'.reply = table'[d]
  BY <1>1, <1>2, <1>4, <1>5 DEF Errands
<1>7. QED
  BY <1>2, <1>3, <1>4, <1>6, CopiesStay
     DEF AdminInv, AdminTypes, ScreenInv, ErrandInv, PublishedIsConfirmed

LEMMA SavedKeeps == ASSUME AdminInv, Saved PROVE AdminInv'
<1>1. PICK d, row : d = errand.id /\ row = errand.reply
  OBVIOUS
<1>2. Known(table, d, row) /\ row \in SheetRows /\ desk \in Desks /\ desk.open /\ desk.id = d
  BY <1>1 DEF Saved, AdminInv, AdminTypes, ErrandInv, Errands
<1>3. row.document \in Texts /\ TextOf(row.document, row.document)
  BY <1>2, AdminPageAssumption DEF Known, IsDocument, TextOf
<1>4. /\ desk' \in Desks /\ desk'.open /\ desk'.id = d /\ desk'.row = row
      /\ desk'.text = row.document
  BY <1>1, <1>2, <1>3 DEF Saved, Desks
<1>5. \A x \in DOMAIN listed' : listed'[x] \in SheetRows /\ Known(table, x, listed'[x])
  BY <1>1, <1>2 DEF Saved, AdminInv, AdminTypes
<1>6. NoErrand \in Errands /\ NoErrand.at = "none"
  BY DEF NoErrand, Errands, SheetRows, NoSheet
<1>7. QED
  BY <1>2, <1>3, <1>4, <1>5, <1>6
     DEF Saved, AdminInv, AdminTypes, ScreenInv, ErrandInv, PublishedIsConfirmed

\* publishDraft publishes the document the row of the page stands for.
LEMMA PublishingConfirms ==
  ASSUME AdminInv, NEW d, NEW row, Known(table, d, row), NEW text, NEW strayed,
         strayed \/ TextOf(text, row.document), Publishing(d, row, text, strayed)
  PROVE  /\ Moves(table, table') /\ PublishedIsConfirmed'
         /\ errand' \in Errands /\ errand'.at = "publish"
<1>1. SoundTable(table) /\ d \in Sheets /\ IsOpen(d)
  BY DEF AdminInv, AdminTypes, Known, Publishing, Matches
<1>2. Moves(table, table')
  BY <1>1, ClaimMoves DEF Publishing
<1>3. strayed \/ table[d].document = Parsed[text]
  BY DEF Publishing, Matches, IsOpen, Known, TextOf
<1>4. PICK c : c = [shown |-> text, published |-> table[d].document, strayed |-> strayed]
  OBVIOUS
<1>5. confirmed' = confirmed \cup {c} /\ (c.strayed \/ c.published = Parsed[c.shown])
  BY <1>3, <1>4 DEF Publishing
<1>6. PublishedIsConfirmed'
  BY <1>5 DEF PublishedIsConfirmed, AdminInv
<1>7. errand' \in Errands /\ errand'.at = "publish"
  BY <1>1 DEF Publishing, Errands, NoErrand, SheetRows, NoSheet
<1>8. QED
  BY <1>2, <1>6, <1>7

LEMMA ConfirmKeeps == ASSUME AdminInv, ConfirmPublish PROVE AdminInv'
<1>1. CASE desk.dirty /\ Saving("presave") /\ UNCHANGED confirmed
  BY <1>1, SavingKeeps DEF ConfirmPublish
<1>2. CASE ~desk.dirty /\ Publishing(desk.id, desk.row, desk.text, desk.strayed)
  <2>1. Known(table, desk.id, desk.row) /\ (desk.strayed \/ TextOf(desk.text, desk.row.document))
    BY <1>2 DEF ConfirmPublish, AdminInv, ScreenInv
  <2>2. /\ Moves(table, table') /\ PublishedIsConfirmed'
        /\ errand' \in Errands /\ errand'.at = "publish"
    BY <1>2, <2>1, PublishingConfirms
  <2>3. QED
    BY <2>2, CopiesStay DEF ConfirmPublish, AdminInv, AdminTypes, ScreenInv, ErrandInv
<1>3. QED
  BY <1>1, <1>2 DEF ConfirmPublish

LEMMA SavedThenPublishKeeps == ASSUME AdminInv, SavedThenPublish PROVE AdminInv'
<1>1. PICK d, row, text : d = errand.id /\ row = errand.reply /\ text = errand.text
  OBVIOUS
<1>2. /\ Known(table, d, row) /\ row \in SheetRows /\ TextOf(text, row.document)
      /\ desk \in Desks /\ desk.open /\ desk.id = d
  BY <1>1 DEF SavedThenPublish, AdminInv, AdminTypes, ErrandInv, Errands
<1>3. /\ desk' \in Desks /\ desk'.open = desk.open /\ desk'.id = d /\ desk'.row = row
      /\ desk'.strayed \/ desk'.text = text
  BY <1>1, <1>2 DEF SavedThenPublish, AfterSave, Desks
<1>4. CASE errand' = NoErrand /\ UNCHANGED <<table, confirmed>>
  <2>1. NoErrand \in Errands /\ NoErrand.at = "none"
    BY DEF NoErrand, Errands, SheetRows, NoSheet
  <2>2. QED
    BY <1>2, <1>3, <1>4, <2>1
       DEF SavedThenPublish, AdminInv, AdminTypes, ScreenInv, ErrandInv, PublishedIsConfirmed
<1>5. CASE Publishing(d, row, text, FALSE)
  <2>1. /\ Moves(table, table') /\ PublishedIsConfirmed'
        /\ errand' \in Errands /\ errand'.at = "publish"
    BY <1>2, <1>5, PublishingConfirms
  <2>2. Known(table', d, row)
    BY <1>2, <2>1, KnownStays DEF AdminInv, AdminTypes
  <2>3. QED
    BY <1>2, <1>3, <2>1, <2>2, CopiesStay
       DEF SavedThenPublish, AdminInv, AdminTypes, ScreenInv, ErrandInv
<1>6. QED
  BY <1>1, <1>4, <1>5 DEF SavedThenPublish

LEMMA PublishedKeeps == ASSUME AdminInv, Published PROVE AdminInv'
<1>1. PICK screen : screen = [NoDesk EXCEPT !.dirty = desk.dirty]
  OBVIOUS
<1>2. screen \in Desks /\ ~screen.open
  BY <1>1 DEF AdminInv, AdminTypes, Desks, NoDesk, SheetRows, NoSheet
<1>3. PICK call : call = [NoErrand EXCEPT !.at = "refresh"]
  OBVIOUS
<1>4. call \in Errands /\ call.at = "refresh"
  BY <1>3 DEF NoErrand, Errands, SheetRows, NoSheet
<1>5. QED
  BY <1>1, <1>2, <1>3, <1>4
     DEF Published, AdminInv, AdminTypes, ScreenInv, ErrandInv, PublishedIsConfirmed

LEMMA RemoveKeeps == ASSUME AdminInv, NEW d \in Sheets, RemoveDraft(d) PROVE AdminInv'
<1>1. Moves(table, table')
  BY DeleteMoves DEF RemoveDraft, AdminInv, AdminTypes
<1>2. errand' \in Errands /\ errand'.at = "delete"
  BY DEF RemoveDraft, NoErrand, Errands, SheetRows, NoSheet
<1>3. QED
  BY <1>1, <1>2, CopiesStay
     DEF RemoveDraft, AdminInv, AdminTypes, ScreenInv, ErrandInv, PublishedIsConfirmed

LEMMA RemovedKeeps == ASSUME AdminInv, DraftRemoved PROVE AdminInv'
<1>1. \A x \in DOMAIN listed' : listed'[x] \in SheetRows /\ Known(table, x, listed'[x])
  BY DEF DraftRemoved, Unlisted, AdminInv, AdminTypes
<1>2. NoErrand \in Errands /\ NoErrand.at = "none"
  BY DEF NoErrand, Errands, SheetRows, NoSheet
<1>3. NoDesk \in Desks /\ ~NoDesk.open
  BY DEF NoDesk, Desks, SheetRows, NoSheet
<1>4. QED
  BY <1>1, <1>2, <1>3
     DEF DraftRemoved, AdminInv, AdminTypes, ScreenInv, ErrandInv, PublishedIsConfirmed

LEMMA FailedKeeps == ASSUME AdminInv, Failed PROVE AdminInv'
  BY CallEnds DEF Failed, AdminInv, AdminTypes

LEMMA AdminStep == AdminInv /\ [AdminNext]_adminvars => AdminInv'
<1> SUFFICES ASSUME AdminInv, [AdminNext]_adminvars PROVE AdminInv'
  OBVIOUS
<1>1. CASE UNCHANGED adminvars
  BY <1>1 DEF adminvars, AdminInv, AdminTypes, ScreenInv, ErrandInv, PublishedIsConfirmed
<1>2. CASE Save
  BY <1>2, SavingKeeps DEF Save
<1>3. CASE \E d \in Sheets : Conclude(d) \/ Others(d) \/ NewDraft(d) \/ SelectDraft(d)
                               \/ RemoveDraft(d)
  BY <1>3, ServerKeeps, NewDraftKeeps, SelectKeeps, RemoveKeeps
<1>4. CASE \/ \E text \in Texts : MutateDocument(text)
           \/ Refreshed \/ DraftCreated \/ Discard \/ AskToPublish \/ Saved \/ ConfirmPublish
           \/ SavedThenPublish \/ Published \/ DraftRemoved \/ Failed
  BY <1>4, TypingKeeps, RefreshedKeeps, DraftCreatedKeeps, SelectKeeps, SavedKeeps, ConfirmKeeps,
     SavedThenPublishKeeps, PublishedKeeps, RemovedKeeps, FailedKeeps
<1>5. QED
  BY <1>1, <1>2, <1>3, <1>4 DEF AdminNext

\* AdminPage: what is published is what the administrator was shown when he
\* confirmed it (PublishedIsConfirmed), whoever else edits the draft.
THEOREM PublishedIsConfirmedCorrect == AdminSpec => []PublishedIsConfirmed
<1>1. AdminInv => PublishedIsConfirmed
  BY DEF AdminInv
<1>2. QED
  BY <1>1, AdminInitial, AdminStep, PTL DEF AdminSpec
-----------------------------------------------------------------------------
(* Quotes: what is submitted, quoted and bought is one and the same, and   *)
(* was accepted by the API it went to; the rest is about the five plans.   *)
Quoted(o) == IF o.at = "server" THEN ServerQuotes(o) ELSE RunnerQuotes(o)

Offer(o) ==
    /\ IsConfig(o.config) /\ o.price \in Tariffs
    /\ o.budget = Budget(o.config, o.price)

QuotesInv ==
    /\ IsConfig(setup) /\ tariff \in Tariffs
    /\ prepared.quoted \in BOOLEAN
    /\ prepared.quoted => Offer(prepared.print) /\ Quoted(prepared.print)
    /\ order.at \in {"none", "quote", "create"}
    /\ order.at # "none" => Offer(order.for)
    /\ order.at = "create" => order.quote = order.for /\ Quoted(order.for)
    /\ \A b \in bought : b.quote = b.for /\ Offer(b.for) /\ Quoted(b.for)

LEMMA QuotesInitial == QuotesInit => QuotesInv
<1> SUFFICES ASSUME QuotesInit PROVE QuotesInv
  OBVIOUS
<1>1. IsConfig(FirstChip)
  BY QuotesAssumption
<1>2. QED
  BY <1>1 DEF QuotesInit, QuotesInv, NothingPrepared, NoOrder

\* An edit of the page leaves what is under way alone.
LEMMA EditKeeps ==
  ASSUME QuotesInv, UNCHANGED <<prepared, order, bought>>, IsConfig(setup'), tariff' \in Tariffs
  PROVE  QuotesInv'
  BY DEF QuotesInv, Offer

LEMMA ChangeKeeps ==
  ASSUME QuotesInv, NEW c, Change(c), IsConfig(c)
  PROVE  QuotesInv'
<1>1. IsConfig(setup') /\ tariff' \in Tariffs /\ UNCHANGED <<prepared, order, bought>>
  BY DEF Change, QuotesInv
<1>2. QED
  BY <1>1, EditKeeps

\* The fields of a configuration, and what may be put into them.
LEMMA ConfigFields ==
  ASSUME NEW c, IsConfig(c)
  PROVE  /\ Selected(c) \subseteq Catalogue
         /\ c.requests \in [Selected(c) -> Nat]
         /\ c.formats \subseteq Formats /\ c.contexts \subseteq Contexts
         /\ c.workers \in Nat /\ c.retries \in Nat
         /\ \A f \in SUBSET Formats : IsConfig([c EXCEPT !.formats = f])
         /\ \A x \in SUBSET Contexts : IsConfig([c EXCEPT !.contexts = x])
         /\ \A n \in Nat : IsConfig([c EXCEPT !.workers = n]) /\ IsConfig([c EXCEPT !.retries = n])
         /\ \A T \in SUBSET Catalogue : \A r \in [T -> Nat] : IsConfig([c EXCEPT !.requests = r])
<1>1. PICK S \in SUBSET Catalogue :
        c \in [requests : [S -> Nat], formats : SUBSET Formats, contexts : SUBSET Contexts,
               workers : Nat, retries : Nat]
  BY DEF IsConfig
<1>2. Selected(c) = S
  BY <1>1 DEF Selected
<1>3. \A f \in SUBSET Formats : IsConfig([c EXCEPT !.formats = f])
  BY <1>1 DEF IsConfig
<1>4. \A x \in SUBSET Contexts : IsConfig([c EXCEPT !.contexts = x])
  BY <1>1 DEF IsConfig
<1>5. \A n \in Nat : IsConfig([c EXCEPT !.workers = n]) /\ IsConfig([c EXCEPT !.retries = n])
  BY <1>1 DEF IsConfig
<1>6. \A T \in SUBSET Catalogue : \A r \in [T -> Nat] : IsConfig([c EXCEPT !.requests = r])
  BY <1>1 DEF IsConfig
<1>7. QED
  BY <1>1, <1>2, <1>3, <1>4, <1>5, <1>6

LEMMA TogglesKeep ==
  ASSUME QuotesInv,
         \/ \E item \in Families : ToggleItem(item)
         \/ ToggleAll
         \/ \E f \in Formats : ToggleFormat(f)
         \/ \E x \in Contexts : ToggleContext(x)
  PROVE  QuotesInv'
<1>1. IsConfig(setup) /\ setup.requests \in [Selected(setup) -> Nat]
      /\ Selected(setup) \subseteq Catalogue
      /\ setup.formats \subseteq Formats /\ setup.contexts \subseteq Contexts
  BY ConfigFields DEF QuotesInv
<1>2. Usual \in [Catalogue -> Nat] /\ UNION Families \subseteq Catalogue
  BY QuotesAssumption
<1>3. ASSUME NEW item \in Families, ToggleItem(item) PROVE QuotesInv'
  <2>1. item \subseteq Catalogue
    BY <1>2, <1>3
  <2>2. Without(item) \in [Selected(setup) \ item -> Nat]
    BY <1>1 DEF Without
  <2>3. WithUsual(item) \in [Selected(setup) \cup item -> Nat]
    BY <1>1, <1>2, <2>1 DEF WithUsual
  <2> DEFINE r == IF IsSelected(item) THEN Without(item) ELSE WithUsual(item)
  <2>4. \E T \in SUBSET Catalogue : r \in [T -> Nat]
    <3>1. Selected(setup) \ item \in SUBSET Catalogue /\ Selected(setup) \cup item \in SUBSET Catalogue
      BY <1>1, <2>1
    <3>2. QED
      BY <2>2, <2>3, <3>1
  <2>5. Change([setup EXCEPT !.requests = r])
    BY <1>3 DEF ToggleItem
  <2> HIDE DEF r
  <2>6. IsConfig([setup EXCEPT !.requests = r])
    BY <1>1, <2>4, ConfigFields
  <2>7. QED
    BY <2>5, <2>6, ChangeKeeps
<1>4. ASSUME ToggleAll PROVE QuotesInv'
  <2> DEFINE T == IF AllSelected THEN {} ELSE UNION Families
             r == [p \in T |-> Usual[p]]
  <2>1. T \in SUBSET Catalogue
    BY <1>2
  <2>2. Change([setup EXCEPT !.requests = r])
    BY <1>4 DEF ToggleAll
  <2> HIDE DEF T
  <2>3. r \in [T -> Nat]
    BY <1>2, <2>1
  <2> HIDE DEF r
  <2>4. IsConfig([setup EXCEPT !.requests = r])
    BY <1>1, <2>1, <2>3, ConfigFields
  <2>5. QED
    BY <2>2, <2>4, ChangeKeeps
<1>5. ASSUME NEW f \in Formats, ToggleFormat(f) PROVE QuotesInv'
  <2> DEFINE next == IF f \in setup.formats THEN setup.formats \ {f} ELSE setup.formats \cup {f}
  <2>1. Change([setup EXCEPT !.formats = next])
    BY <1>5 DEF ToggleFormat
  <2>2. next \in SUBSET Formats
    BY <1>1
  <2> HIDE DEF next
  <2>3. QED
    BY <1>1, <2>1, <2>2, ConfigFields, ChangeKeeps
<1>6. ASSUME NEW x \in Contexts, ToggleContext(x) PROVE QuotesInv'
  <2> DEFINE next == IF x \in setup.contexts THEN setup.contexts \ {x} ELSE setup.contexts \cup {x}
  <2>1. Change([setup EXCEPT !.contexts = next])
    BY <1>6 DEF ToggleContext
  <2>2. next \in SUBSET Contexts
    BY <1>1
  <2> HIDE DEF next
  <2>3. QED
    BY <1>1, <2>1, <2>2, ConfigFields, ChangeKeeps
<1>7. QED
  BY <1>3, <1>4, <1>5, <1>6

LEMMA EditsKeep ==
  ASSUME QuotesInv,
         \/ \E chip \in Chips : ChoosePreset(chip)
         \/ \E n \in Crews : SetWorkers(n)
         \/ \E n \in Tries : SetRetries(n)
         \/ \E p \in Catalogue, n \in Counts : SetRequests(p, n)
         \/ \E t \in Tariffs : SetPrice(t)
         \/ \E there, capable \in BOOLEAN : RunnerDetected(there, capable)
         \/ UseServer
  PROVE  QuotesInv'
<1>1. IsConfig(setup) /\ tariff \in Tariffs /\ setup.requests \in [Selected(setup) -> Nat]
      /\ Selected(setup) \subseteq Catalogue
  BY ConfigFields DEF QuotesInv
<1>2. ASSUME NEW chip \in Chips, ChoosePreset(chip) PROVE QuotesInv'
  <2>1. IsConfig(chip)
    BY QuotesAssumption
  <2>2. QED
    BY <1>2, <2>1, ChangeKeeps DEF ChoosePreset
<1>3. ASSUME NEW n \in Crews, SetWorkers(n) PROVE QuotesInv'
  <2>1. n \in Nat
    BY QuotesAssumption
  <2>2. QED
    BY <1>1, <1>3, <2>1, ConfigFields, ChangeKeeps DEF SetWorkers
<1>4. ASSUME NEW n \in Tries, SetRetries(n) PROVE QuotesInv'
  <2>1. n \in Nat
    BY QuotesAssumption
  <2>2. QED
    BY <1>1, <1>4, <2>1, ConfigFields, ChangeKeeps DEF SetRetries
<1>5. ASSUME NEW p \in Catalogue, NEW n \in Counts, SetRequests(p, n) PROVE QuotesInv'
  <2> DEFINE r == [setup.requests EXCEPT ![p] = n]
  <2>1. n \in Nat
    BY QuotesAssumption
  <2>2. r \in [Selected(setup) -> Nat]
    BY <1>1, <2>1
  <2>3. Change([setup EXCEPT !.requests = r])
    BY <1>5 DEF SetRequests
  <2> HIDE DEF r
  <2>4. QED
    BY <1>1, <2>2, <2>3, ConfigFields, ChangeKeeps
<1>6. ASSUME NEW t \in Tariffs, SetPrice(t) PROVE QuotesInv'
  BY <1>1, <1>6, EditKeeps DEF SetPrice
<1>7. ASSUME NEW there \in BOOLEAN, NEW capable \in BOOLEAN, RunnerDetected(there, capable)
      PROVE  QuotesInv'
  BY <1>1, <1>7, EditKeeps DEF RunnerDetected
<1>8. ASSUME UseServer PROVE QuotesInv'
  <2> DEFINE c == [setup EXCEPT !.formats = {"normal"}]
             d == [c EXCEPT !.contexts = {"no_history"}]
  <2>1. IsConfig(c)
    BY <1>1, ConfigFields DEF Formats
  <2>2. IsConfig(d)
    <3> HIDE DEF c
    <3> QED
      BY <2>1, ConfigFields DEF Contexts
  <2>3. setup' = d
    BY <1>8 DEF UseServer
  <2>4. QED
    BY <1>1, <1>8, <2>2, <2>3, EditKeeps DEF UseServer
<1>9. QED
  BY <1>2, <1>3, <1>4, <1>5, <1>6, <1>7, <1>8

LEMMA StartKeeps == ASSUME QuotesInv, Start PROVE QuotesInv'
<1> USE DEF QuotesInv
<1>1. prepared' = Prepared /\ UNCHANGED <<setup, tariff, bought>>
      /\ order' = [at |-> IF Prepared.quoted THEN "create" ELSE "quote",
                   for |-> Fingerprint, quote |-> Prepared.print]
  BY DEF Start
<1>2. Offer(Fingerprint)
  BY DEF Offer, Fingerprint
<1>3. /\ Prepared.print = Fingerprint /\ Prepared.quoted \in BOOLEAN
      /\ Prepared.quoted => Quoted(Prepared.print)
  <2>1. CASE prepared.print = Fingerprint
    BY <2>1 DEF Prepared
  <2>2. CASE prepared.print # Fingerprint
    BY <2>2 DEF Prepared
  <2>3. QED
    BY <2>1, <2>2
<1> HIDE DEF QuotesInv
<1>4. \E q : q = Prepared
  OBVIOUS
<1>5. PICK q : q = Prepared
  BY <1>4
<1>6. \E f : f = Fingerprint
  OBVIOUS
<1>7. PICK f : f = Fingerprint
  BY <1>6
<1>8. /\ order'.at \in {"quote", "create"} /\ order'.for = f /\ order'.quote = q.print
      /\ order'.at = "create" => q.quoted
  BY <1>1, <1>3, <1>5, <1>7
<1>9. Offer(f) /\ q.print = f /\ q.quoted \in BOOLEAN /\ (q.quoted => Quoted(f))
  BY <1>2, <1>3, <1>5, <1>7
<1>10. prepared' = q /\ IsConfig(setup') /\ tariff' \in Tariffs /\ bought' = bought
  BY <1>1, <1>5 DEF QuotesInv
<1>11. QED
  BY <1>8, <1>9, <1>10 DEF QuotesInv, Offer

LEMMA IssueKeeps == ASSUME QuotesInv, QuoteIssued PROVE QuotesInv'
<1> USE DEF QuotesInv
<1>1. order.at = "quote" /\ Offer(order.for) /\ Quoted(order.for)
  BY DEF QuoteIssued, Quoted
<1>2. PICK o : o = order.for
  OBVIOUS
<1>3. order'.at = "create" /\ order'.for = o /\ order'.quote = o
  BY <1>2 DEF QuoteIssued
<1>4. prepared'.print = prepared.print /\ prepared'.quoted = (prepared.print = o)
  BY <1>2 DEF QuoteIssued
<1>5. QED
  BY <1>1, <1>2, <1>3, <1>4 DEF QuoteIssued, Offer

LEMMA CreateKeeps == ASSUME QuotesInv, RunCreated \/ OrderFails PROVE QuotesInv'
<1> USE DEF QuotesInv
<1>1. CASE RunCreated
  <2>1. PICK b : b = [quote |-> order.quote, for |-> order.for]
    OBVIOUS
  <2>2. bought' = {b} /\ b.quote = b.for /\ Offer(b.for) /\ Quoted(b.for)
    BY <1>1, <2>1 DEF RunCreated
  <2>3. order'.at = "none" /\ UNCHANGED <<setup, tariff>>
    BY <1>1 DEF RunCreated, NoOrder
  <2>4. CASE prepared' = prepared
    BY <2>2, <2>3, <2>4
  <2>5. CASE prepared' = NothingPrepared
    <3>1. prepared'.quoted = FALSE
      BY <2>5 DEF NothingPrepared
    <3>2. QED
      BY <2>2, <2>3, <3>1
  <2>6. QED
    BY <1>1, <2>4, <2>5 DEF RunCreated
<1>2. CASE OrderFails
  BY <1>2 DEF OrderFails, NoOrder, Offer
<1>3. QED
  BY <1>1, <1>2

LEMMA QuotesStep == QuotesInv /\ [QuotesNext]_quotevars => QuotesInv'
<1> SUFFICES ASSUME QuotesInv, [QuotesNext]_quotevars PROVE QuotesInv'
  OBVIOUS
<1>1. CASE QuotesNext
  BY <1>1, TogglesKeep, EditsKeep, StartKeeps, IssueKeeps, CreateKeeps DEF QuotesNext
<1>2. CASE UNCHANGED quotevars
  BY <1>2 DEF quotevars, QuotesInv, Offer
<1>3. QED
  BY <1>1, <1>2

LEMMA PlanMember ==
  ASSUME NEW c, NEW profiles, NEW r
  PROVE  r \in Plan(c, profiles) <=>
           \E p \in Selected(c) : \E f \in profiles[p] : \E i \in 1..c.requests[p] : r = <<p, f, i>>
  BY DEF Plan

\* The requests of a probe, and so those of a plan, are finitely many.
LEMMA PlanFinite ==
  ASSUME NEW c, IsConfig(c),
         NEW profiles, \A p \in Selected(c) : profiles[p] \subseteq Formats \X Contexts
  PROVE  IsFiniteSet(Plan(c, profiles))
<1>1. Selected(c) \subseteq Catalogue /\ c.requests \in [Selected(c) -> Nat]
  BY ConfigFields
<1>2. IsFiniteSet(Selected(c))
  BY <1>1, QuotesAssumption, FS_Subset
<1>3. IsFiniteSet(Formats \X Contexts)
  <2>1. IsFiniteSet({"normal"}) /\ IsFiniteSet({"no_history"})
    BY FS_Singleton
  <2>2. IsFiniteSet(Formats) /\ IsFiniteSet(Contexts)
    <3>1. Formats = {"normal"} \cup {"native_codex"} /\ Contexts = {"no_history"} \cup {"fixed_32k_history"}
      BY DEF Formats, Contexts
    <3>2. IsFiniteSet({"native_codex"}) /\ IsFiniteSet({"fixed_32k_history"})
      BY FS_Singleton
    <3>3. QED
      BY <2>1, <3>1, <3>2, FS_Union
  <2>3. QED
    BY <2>2, FS_Product
<1> DEFINE Slice(p) == {<<p, f, i>> : f \in profiles[p], i \in 1..c.requests[p]}
           slices == {Slice(p) : p \in Selected(c)}
<1>4. ASSUME NEW p \in Selected(c) PROVE IsFiniteSet(Slice(p))
  <2> DEFINE P == profiles[p] \X (1..c.requests[p])
             request == [x \in P |-> <<p, x[1], x[2]>>]
  <2>1. IsFiniteSet(P)
    <3>1. IsFiniteSet(1..c.requests[p])
      BY <1>1, FS_Interval
    <3>2. IsFiniteSet(profiles[p])
      BY <1>3, FS_Subset
    <3>3. QED
      BY <3>1, <3>2, FS_Product
  <2>2. request \in Surjection(P, Slice(p))
    <3>1. \A x \in P : request[x] \in Slice(p)
      OBVIOUS
    <3>2. ASSUME NEW r \in Slice(p) PROVE \E x \in P : request[x] = r
      <4>1. PICK f \in profiles[p] : \E i \in 1..c.requests[p] : r = <<p, f, i>>
        OBVIOUS
      <4>2. PICK i \in 1..c.requests[p] : r = <<p, f, i>>
        BY <4>1
      <4>3. <<f, i>> \in P /\ request[<<f, i>>] = r
        BY <4>2
      <4>4. QED
        BY <4>3
    <3>3. request = [x \in P |-> request[x]] /\ DOMAIN request = P
      OBVIOUS
    <3> HIDE DEF P, request, Slice
    <3>4. request \in [P -> Slice(p)]
      BY <3>1, <3>3
    <3>5. QED
      BY <3>2, <3>4 DEF Surjection
  <2> HIDE DEF P, request, Slice
  <2>3. QED
    BY <2>1, <2>2, FS_Surjection
<1>5. IsFiniteSet(slices)
  <2> DEFINE slice == [p \in Selected(c) |-> Slice(p)]
  <2>1. slice \in Surjection(Selected(c), slices)
    <3> HIDE DEF Slice
    <3> QED
      BY DEF Surjection
  <2> HIDE DEF slice, slices
  <2>2. QED
    BY <1>2, <2>1, FS_Surjection
<1>6. Plan(c, profiles) = UNION slices
  BY DEF Plan
<1>7. \A T \in slices : IsFiniteSet(T)
  BY <1>4
<1> HIDE DEF slices
<1>8. QED
  BY <1>5, <1>6, <1>7, FS_UNION

LEMMA ShownFinite == ASSUME NEW c, IsConfig(c) PROVE IsFiniteSet(Shown(c))
<1>1. ProfilesOf(c) \subseteq Formats \X Contexts
  BY ConfigFields DEF ProfilesOf
<1>2. QED
  BY <1>1, PlanFinite DEF Shown

\* The server's one profile leaves nothing to choose.
LEMMA ServerPlans ==
  ASSUME NEW c, ServerAccepts(c)
  PROVE  ServerJobs(c) = Shown(c) /\ ServerQuoted(c) = Shown(c)
<1>1. ProfilesOf(c) = {Plain}
  BY DEF ServerAccepts, ProfilesOf, Plain
<1>2. [p \in Selected(c) |-> IF p \in Restricted THEN ProfilesOf(c) \cap {Plain} ELSE ProfilesOf(c)]
        = [p \in Selected(c) |-> {Plain}]
  BY <1>1
<1>3. [p \in Selected(c) |-> {f \in ProfilesOf(c) : p \in Restricted => f = Plain}]
        = [p \in Selected(c) |-> {Plain}]
  BY <1>1
<1>4. QED
  BY <1>2, <1>3 DEF ServerJobs, Shown, ServerQuoted

\* What the local runner sends: what is shown, and the restricted probes.
LEMMA RunnerPlans ==
  ASSUME NEW c
  PROVE  RunnerJobs(c) = Shown(c) \cup OwnRequests(c)
<1> DEFINE jobs == [p \in Selected(c) |-> IF p \in Restricted THEN {Plain} ELSE ProfilesOf(c)]
           shown == [p \in Selected(c) |->
                       IF p \in Restricted THEN ProfilesOf(c) \cap {Plain} ELSE ProfilesOf(c)]
           own == [p \in Selected(c) |-> IF p \in Restricted THEN {Plain} ELSE {}]
<1>1. \A p \in Selected(c) : jobs[p] = shown[p] \cup own[p]
  OBVIOUS
<1>2. RunnerJobs(c) = Plan(c, jobs) /\ Shown(c) = Plan(c, shown) /\ OwnRequests(c) = Plan(c, own)
  BY DEF RunnerJobs, Shown, OwnRequests
<1> HIDE DEF jobs, shown, own
<1>3. \A r : r \in Plan(c, jobs) <=> r \in Plan(c, shown) \/ r \in Plan(c, own)
  BY <1>1, PlanMember
<1>4. QED
  BY <1>2, <1>3

\* A budget is a number, and no less than what it is made from.
LEMMA BudgetCovers ==
  ASSUME NEW c, IsConfig(c), NEW t \in Tariffs
  PROVE  /\ Cost(Shown(c), c, t) \in Nat /\ Padded(Cost(Shown(c), c, t)) \in Nat
         /\ Cost(Shown(c), c, t) <= Padded(Cost(Shown(c), c, t))
<1> DEFINE plan == Shown(c)
<1>1. IsFiniteSet(plan) /\ c.retries \in Nat
  BY ShownFinite, ConfigFields
<1> HIDE DEF plan
<1>2. Cardinality(Long(plan)) \in Nat /\ Cardinality(plan \ Long(plan)) \in Nat
  <2>1. Long(plan) \in SUBSET plan /\ plan \ Long(plan) \in SUBSET plan
    BY DEF Long
  <2>2. QED
    BY <1>1, <2>1, FS_Subset, FS_CardinalityType
<1>3. t.long \in Nat /\ t.short \in Nat
  BY QuotesAssumption
<1>4. Cost(plan, c, t) \in Nat
  <2>1. \A x, y, a, b, k \in Nat : (k + 1) * (x * a + y * b) \in Nat
    BY SMT
  <2>2. QED
    BY <1>1, <1>2, <1>3, <2>1 DEF Cost
<1>5. \A n \in Nat : Padded(n) \in Nat /\ n <= Padded(n)
  BY DEF Padded
<1>6. QED
  BY <1>4, <1>5 DEF plan

\* A run sends what the page showed, within the limits that were shown.
LEMMA RunIsAsShownFollows == QuotesInv => RunIsAsShown
<1> SUFFICES ASSUME QuotesInv, NEW b \in bought
             PROVE  IF b.for.at = "server"
                    THEN /\ ServerJobs(b.quote.config) = Shown(b.for.config)
                         /\ Attempts(ServerJobs(b.quote.config), b.quote.config) <= MaxRunRequests
                         /\ Cost(ServerJobs(b.quote.config), b.quote.config, b.for.price)
                              <= b.for.budget
                    ELSE RunnerJobs(b.quote.config)
                           = Shown(b.for.config) \cup OwnRequests(b.quote.config)
  BY DEF RunIsAsShown
<1>1. b.quote = b.for /\ Offer(b.for) /\ Quoted(b.for)
  BY DEF QuotesInv
<1>2. PICK o : o = b.for
  OBVIOUS
<1>3. CASE o.at = "server"
  <2>1. ServerQuotes(o) /\ ServerAccepts(o.config) /\ Offer(o)
    BY <1>1, <1>2, <1>3 DEF Quoted, ServerQuotes
  <2>2. ServerJobs(o.config) = Shown(o.config) /\ ServerQuoted(o.config) = Shown(o.config)
    BY <2>1, ServerPlans
  <2>3. Cost(Shown(o.config), o.config, o.price) <= o.budget
    BY <2>1, BudgetCovers DEF Offer, Budget
  <2>4. QED
    BY <1>1, <1>2, <1>3, <2>1, <2>2, <2>3 DEF ServerQuotes
<1>4. CASE o.at # "server"
  BY <1>1, <1>2, <1>4, RunnerPlans
<1>5. QED
  BY <1>3, <1>4

\* Quotes: a run is what the page showed when it was started (RunIsAsShown),
\* whatever the user edits while its quote is on its way.
THEOREM RunIsAsShownCorrect == QuotesSpec => []RunIsAsShown
  BY QuotesInitial, QuotesStep, RunIsAsShownFollows, PTL DEF QuotesSpec

LEMMA RunnerQuotesShown == ASSUME NEW c PROVE RunnerQuoted(c) = Shown(c)
<1>1. {f \in ProfilesOf(c) : f = Plain} = ProfilesOf(c) \cap {Plain}
  OBVIOUS
<1>2. QED
  BY <1>1 DEF RunnerQuoted, Shown

\* Quotes: what the page shows as the most a run can cost is never too little
\* for the API that works it out once more (BudgetSuffices).
THEOREM BudgetSufficesCorrect == QuotesSpec => []BudgetSuffices
<1>1. QuotesInv => BudgetSuffices
  <2> SUFFICES ASSUME QuotesInv, order.at # "none" PROVE BudgetSuffices
    BY DEF BudgetSuffices
  <2>1. PICK o : o = order.for
    OBVIOUS
  <2>2. IsConfig(o.config) /\ o.price \in Tariffs /\ o.budget = Padded(Cost(Shown(o.config), o.config, o.price))
    BY <2>1 DEF QuotesInv, Offer, Budget
  <2>3. /\ Padded(Cost(Shown(o.config), o.config, o.price)) <= o.budget
        /\ Cost(Shown(o.config), o.config, o.price) <= o.budget
    BY <2>2, BudgetCovers
  <2>4. ServerAccepts(o.config) => ServerQuoted(o.config) = Shown(o.config)
    BY ServerPlans
  <2>5. RunnerQuoted(o.config) = Shown(o.config)
    BY RunnerQuotesShown
  <2>6. QED
    BY <2>1, <2>3, <2>4, <2>5 DEF BudgetSuffices
<1>2. QED
  BY <1>1, QuotesInitial, QuotesStep, PTL DEF QuotesSpec
=============================================================================
