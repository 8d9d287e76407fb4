----------------------------- MODULE Retention -----------------------------
(***************************************************************************)
(* RawRetention beside the store of the session (retention.py, _execute_job*)
(* of detector.py): the exchange of an attempt is appended to a raw file   *)
(* and then to an index, before the attempt is finished in the store. The  *)
(* files and the store outlive the process; the counters do not.           *)
(***************************************************************************)
EXTENDS Naturals, Sequences, SequencesExt

CONSTANTS Exchanges,  \* attempts with an answer, each run by its own thread
          MaxLives    \* bound: times the process is started

ASSUME RetentionAssumption == MaxLives \in Nat /\ "nobody" \notin Exchanges

VARIABLES raw,      \* records of raw_exchange.jsonl
          index,    \* lines of the index: record and place; a torn one has no record
          unended,  \* the last line of the index has no newline
          stored,   \* per exchange: its attempt in the store
          at,       \* per exchange: where its thread is
          writer,   \* holder of RawRetention's lock
          counted,  \* record_count
          failures, \* write_failures of this life
          manifest, \* record_count and complete as last written
          lives

rvars == <<raw, index, unended, stored, at, writer, counted, failures, manifest, lives>>
files == <<raw, index, unended>>

Nobody == "nobody"
Torn == [record |-> Nobody, place |-> 0]
Manifest == [count |-> counted, complete |-> failures = 0]

RetentionInit ==
    /\ raw = <<>> /\ index = <<>> /\ unended = FALSE
    /\ stored = [x \in Exchanges |-> "started"]
    /\ at = [x \in Exchanges |-> "asked"]
    /\ writer = Nobody /\ counted = 0 /\ failures = 0
    /\ manifest = [count |-> 0, complete |-> TRUE] /\ lives = 1

Up == \A x \in Exchanges : at[x] # "down"
To(x, pc) == at' = [at EXCEPT ![x] = pc]

(* write takes the lock.                                                   *)
Take(x) ==
    /\ at[x] = "asked" /\ writer = Nobody
    /\ writer' = x /\ To(x, "raw")
    /\ UNCHANGED <<files, stored, counted, failures, manifest, lives>>

WriteRaw(x) ==
    /\ at[x] = "raw"
    /\ raw' = Append(raw, x) /\ To(x, "index")
    /\ UNCHANGED <<index, unended, stored, writer, counted, failures, manifest, lives>>

(* A line is appended; onto one that has no newline, it makes a torn one.  *)
AddLine(line, ended) ==
    /\ index' = (IF unended THEN [index EXCEPT ![Len(index)] = Torn] ELSE Append(index, line))
    /\ unended' = ~ended

(* The offset was told before the record was appended.                     *)
EntryOf(x) == [record |-> x, place |-> Len(raw)]

WriteIndex(x) ==
    /\ at[x] = "index"
    /\ AddLine(EntryOf(x), TRUE)
    /\ counted' = counted + 1
    /\ writer' = Nobody /\ To(x, "kept")
    /\ UNCHANGED <<raw, stored, failures, manifest, lives>>

(* What a write that is cut short leaves in its file: nothing, a part, all *)
(* but the newline, or the whole, which only was not flushed to the disk.  *)
CutShort(x) ==
    \/ at[x] \in {"raw", "index"} /\ UNCHANGED files
    \/ /\ at[x] = "raw"
       /\ \E r \in {x, Nobody} : raw' = Append(raw, r)
       /\ UNCHANGED <<index, unended>>
    \/ /\ at[x] = "index"
       /\ AddLine(Torn, FALSE) \/ \E ended \in BOOLEAN : AddLine(EntryOf(x), ended)
       /\ UNCHANGED raw

(* OSError: nothing is taken back. The manifest is written unless that     *)
(* fails, too; the attempt is an error, and the other threads go on.       *)
WriteFails(x) ==
    /\ CutShort(x)
    /\ failures' = failures + 1
    /\ manifest' \in {manifest, [count |-> counted, complete |-> FALSE]}
    /\ writer' = Nobody /\ To(x, "lost")
    /\ UNCHANGED <<stored, counted, lives>>

\* Mutant of FinishAttempt: the attempt is finished whatever became of its exchange.
FinishAnyway(x) ==
    /\ at[x] \in {"asked", "kept", "lost"}
    /\ stored' = [stored EXCEPT ![x] = IF at[x] = "lost" THEN "error" ELSE "ok"]
    /\ To(x, "done")
    /\ UNCHANGED <<files, writer, counted, failures, manifest, lives>>

FinishAttempt(x) ==
    /\ at[x] \in {"kept", "lost"}
    /\ stored' = [stored EXCEPT ![x] = IF at[x] = "kept" THEN "ok" ELSE "error"]
    /\ To(x, "done")
    /\ UNCHANGED <<files, writer, counted, failures, manifest, lives>>

(* build_report; RawRetention takes no lock for it.                        *)
Finalize ==
    /\ Up
    /\ manifest' = Manifest
    /\ UNCHANGED <<files, stored, at, writer, counted, failures, lives>>

(* The process dies; the write under way is cut short.                     *)
Crash ==
    /\ Up /\ lives < MaxLives
    /\ at' = [x \in Exchanges |-> "down"] /\ writer' = Nobody
    /\ UNCHANGED files \/ \E x \in Exchanges : CutShort(x)
    /\ UNCHANGED <<stored, counted, failures, manifest, lives>>

(* A new RawRetention over the same directory, which a torn line makes     *)
(* impossible; attempts that were not finished are made again.             *)
Reopen ==
    /\ ~Up /\ ~Contains(index, Torn)
    /\ lives' = lives + 1
    /\ counted' = Len(index) /\ failures' = 0
    /\ at' = [x \in Exchanges |-> IF stored[x] = "started" THEN "asked" ELSE "done"]
    /\ UNCHANGED <<files, stored, writer, manifest>>

RetentionNext ==
    \/ \E x \in Exchanges : \/ Take(x) \/ WriteRaw(x) \/ WriteIndex(x)
                            \/ WriteFails(x) \/ FinishAttempt(x)
    \/ Finalize \/ Crash \/ Reopen

RetentionSpec == RetentionInit /\ [][RetentionNext]_rvars
-----------------------------------------------------------------------------
(* An answered attempt has its whole exchange in the raw file and an entry *)
(* that leads to it, unless a line of the index is torn; whatever can be   *)
(* read of the index leads to the record it names. A process that has been *)
(* the only one knows of a torn line by a write that failed. (A later one  *)
(* may tear a line without a failure: it appends to what a crash has left  *)
(* without a newline.)                                                     *)
AnswersAreRetained ==
    LET torn == Contains(index, Torn) IN
    /\ \A x \in Exchanges : stored[x] = "ok" =>
          /\ Contains(raw, x)
          /\ torn \/ \E i \in DOMAIN index : index[i].record = x
    /\ \A i \in DOMAIN index : index[i] # Torn => raw[index[i].place] = index[i].record
    /\ Up /\ lives = 1 /\ torn => failures > 0
=============================================================================
