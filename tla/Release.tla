------------------------------ MODULE Release ------------------------------
(***************************************************************************)
(* A scoring release on its way from the files of an image into the        *)
(* database (scoring/release-import.ts, scoring/import-cli.ts) and from    *)
(* there into the workers (scoring/repository.ts). Every deployment runs   *)
(* the importer over its own files, so importers of different files can    *)
(* overlap, with one another and with workers. A file stands for its       *)
(* SHA-256; "sound" is what the checks that look at one file alone find.   *)
(***************************************************************************)
EXTENDS Naturals

CONSTANTS Importers, Loaders,
          Disks \* directories an importer may find, functions from names to files

VARIABLES imports,  \* per importer: where it is, the files it took, its transaction's rows
          releases, \* committed rows
          loads     \* per worker: the release, the sections left to read, the rows read

releasevars == <<imports, releases, loads>>

(* The tables of a release with the files each is built from, and the      *)
(* order in which they are filled.                                         *)
Sources == [release      |-> {"manifest", "catalog", "baseline", "calibration"},
            models       |-> {"manifest"},
            probes       |-> {"catalog", "baseline"},
            templates    |-> {"catalog"},
            signatures   |-> {"manifest"},
            cells        |-> {"baseline"},
            calibrations |-> {"manifest", "baseline"},
            rules        |-> {"manifest"}]
Sections == DOMAIN Sources
After == [models |-> "release", probes |-> "models", templates |-> "probes",
          signatures |-> "templates", cells |-> "signatures", calibrations |-> "cells",
          rules |-> "calibrations"]

Releases == {d["manifest"].id : d \in Disks}

Row(files, s) == [release |-> files["manifest"].id, section |-> s,
                  content |-> [name \in Sources[s] \cap DOMAIN files |-> files[name]]]
Seed(files) == {Row(files, s) : s \in Sections}

NoFiles == [name \in {} |-> {}]
With(files, name, file) ==
    [n \in DOMAIN files \cup {name} |-> IF n = name THEN file ELSE files[n]]

ReleaseInit ==
    /\ imports = [i \in Importers |-> [at |-> "idle", files |-> NoFiles, written |-> {}]]
    /\ releases = {}
    /\ loads \in [Loaders -> [id : Releases, left : {{}}, rows : {{}}]]
-----------------------------------------------------------------------------
GoImport(i, at, files, written) ==
    imports' = [imports EXCEPT ![i] = [at |-> at, files |-> files, written |-> written]]
Refuse(i) == GoImport(i, "failed", NoFiles, {})
DatabaseRests == UNCHANGED <<releases, loads>>

(* importScoringRelease reads the manifest, then the files it pins; the    *)
(* directory may have been replaced between any two reads.                 *)
ReadManifest(i) ==
    /\ imports[i].at \in {"idle", "done", "failed"}
    /\ \E d \in Disks : GoImport(i, "reading", With(NoFiles, "manifest", d["manifest"]), {})
    /\ DatabaseRests

Missing(files) == DOMAIN files["manifest"].pins \ DOMAIN files

\* Mutant of ReadArtifact: the file is taken as it is found.
TakeArtifact(i, name) ==
    /\ imports[i].at = "reading" /\ name \in Missing(imports[i].files)
    /\ \E d \in Disks :
          IF name \in DOMAIN d THEN GoImport(i, "reading", With(imports[i].files, name, d[name]), {})
          ELSE Refuse(i)
    /\ DatabaseRests

(* verifyArtifact.                                                         *)
ReadArtifact(i, name) ==
    LET files == imports[i].files IN
    /\ imports[i].at = "reading" /\ name \in Missing(files)
    /\ \E d \in Disks :
          IF name \in DOMAIN d /\ d[name] = files["manifest"].pins[name]
          THEN GoImport(i, "reading", With(files, name, d[name]), {})
          ELSE Refuse(i)
    /\ DatabaseRests

(* buildProbes: the prompts of the catalog are those of the baseline.      *)
PromptsAgree(f) == f["catalog"].prompts = f["baseline"].prompts

(* The calibration is of this baseline and of the manifest's thresholds.   *)
Calibrated(f) ==
    "calibration" \in DOMAIN f =>
        /\ f["manifest"].calibrated = f["baseline"].content
        /\ f["calibration"].content = f["baseline"].content
        /\ f["calibration"].thresholds = f["manifest"].thresholds

Coherent(f) ==
    /\ \A name \in DOMAIN f : f[name].sound
    /\ f["manifest"].content = f["baseline"].content
    /\ PromptsAgree(f) /\ Calibrated(f)

Validate(i) ==
    LET files == imports[i].files IN
    /\ imports[i].at = "reading" /\ Missing(files) = {}
    /\ IF Coherent(files) THEN GoImport(i, "save", files, {}) ELSE Refuse(i)
    /\ DatabaseRests
-----------------------------------------------------------------------------
(* saveScoringRelease, one transaction. INSERT ... ON CONFLICT DO NOTHING  *)
(* waits for another transaction that has inserted the same release.       *)
IdOf(i) == imports[i].files["manifest"].id
Inserting(id) == \E j \in Importers : imports[j].at = "filling" /\ IdOf(j) = id
Stored(id, s) == {r \in releases : r.release = id /\ r.section = s}

InsertRelease(i) ==
    LET files == imports[i].files
        found == Stored(IdOf(i), "release")
    IN  /\ imports[i].at = "save" /\ ~Inserting(IdOf(i))
        /\ \/ found = {} /\ GoImport(i, "filling", files, {Row(files, "release")})
           \/ \E r \in found : IF r.content["manifest"] = files["manifest"]
                               THEN GoImport(i, "done", files, {}) ELSE Refuse(i)
        /\ DatabaseRests

Filled(i) == {r.section : r \in imports[i].written}

FillSection(i) ==
    LET files == imports[i].files IN
    /\ imports[i].at = "filling"
    /\ \E s \in DOMAIN After :
          /\ s \notin Filled(i) /\ After[s] \in Filled(i)
          /\ GoImport(i, "filling", files, imports[i].written \cup {Row(files, s)})
    /\ DatabaseRests

CommitRelease(i) ==
    /\ imports[i].at = "filling" /\ Filled(i) = Sections
    /\ releases' = releases \cup imports[i].written
    /\ GoImport(i, "done", imports[i].files, {})
    /\ UNCHANGED loads

(* An error or the end of the process leaves nothing behind.               *)
RollBack(i) ==
    /\ imports[i].at \in {"save", "filling"}
    /\ Refuse(i) /\ DatabaseRests
-----------------------------------------------------------------------------
(* loadScoringRelease: the release, then each section by a query of its    *)
(* own, in any order.                                                      *)
LoadRelease(w, id) ==
    LET found == Stored(id, "release") IN
    /\ loads[w].left = {}
    /\ loads' = [loads EXCEPT ![w] =
          [id |-> id, left |-> IF found = {} THEN {} ELSE DOMAIN After, rows |-> found]]
    /\ UNCHANGED <<imports, releases>>

LoadSection(w, s) ==
    /\ s \in loads[w].left
    /\ loads' = [loads EXCEPT ![w] =
          [id |-> loads[w].id, left |-> loads[w].left \ {s},
           rows |-> loads[w].rows \cup Stored(loads[w].id, s)]]
    /\ UNCHANGED <<imports, releases>>

ReleaseNext ==
    \/ \E i \in Importers :
          \/ ReadManifest(i) \/ Validate(i)
          \/ \E name \in {"catalog", "baseline", "calibration"} : ReadArtifact(i, name)
          \/ InsertRelease(i) \/ FillSection(i) \/ CommitRelease(i) \/ RollBack(i)
    \/ \E w \in Loaders : (\E id \in Releases : LoadRelease(w, id))
                          \/ (\E s \in Sections : LoadSection(w, s))

ReleaseSpec == ReleaseInit /\ [][ReleaseNext]_releasevars
-----------------------------------------------------------------------------
FilesOf(m) == [n \in DOMAIN m.pins \cup {"manifest"} |-> IF n = "manifest" THEN m ELSE m.pins[n]]

(* What a worker scores with is the release of one manifest, all of it: a  *)
(* set of files that passed every check, none replaced or missing. And an  *)
(* import that succeeds means that the release is that of its own files.   *)
ReleaseIsItsManifests ==
    /\ \A w \in Loaders : loads[w].left = {} =>
          \A r \in loads[w].rows : r.section = "release" =>
             LET f == FilesOf(r.content["manifest"]) IN
             Coherent(f) /\ f["manifest"].id = loads[w].id /\ loads[w].rows = Seed(f)
    /\ \A i \in Importers : imports[i].at = "done" => Seed(imports[i].files) \subseteq releases
=============================================================================
