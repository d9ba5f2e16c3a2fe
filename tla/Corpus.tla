------------------------------- MODULE Corpus -------------------------------
(***************************************************************************)
(* The stroke corpus and the packs that rest on it: the bootstrap of a     *)
(* release imports the one and seeds the others while an application of    *)
(* the release before serves; the application keeps the corpus in memory   *)
(* for its generation runs, and saves the packs they draft.                *)
(*                                                                         *)
(* A sentence is the set of the characters its text is made of: the order  *)
(* of the text, its pinyin and its translation are not modelled, nor are   *)
(* the ids of the rows, which hang on them (upsert_pack).  One curated     *)
(* pack stands for all: seed_database commits them together.               *)
(***************************************************************************)
EXTENDS Integers, FiniteSets, Sequences, SequencesExt

CONSTANTS
    Hanzi,          \* the characters a corpus may have
    Blank,          \* white space, which no corpus has
    Archive,        \* the characters of the archive each release pins
    Sources,        \* CORPUS_SOURCES, the mirrors of the archive
    PackData,       \* what data/packs may say of the pack: [members, sentences]
    Drafts,         \* what a model may draft and a learner may save
    ChunkSize,      \* CHUNK_SIZE
    OutputRetries,  \* _GENERATION_RETRIES
    Runs,           \* the generation runs that overlap
    MaxOwned        \* bound: the packs that are saved

ASSUME CorpusAssumption ==
    /\ Blank \notin Hanzi
    /\ \A v \in DOMAIN Archive : Archive[v] \in (SUBSET Hanzi) \ {{}}
    /\ PackData \cup Drafts \subseteq [members : Seq(Hanzi \cup {Blank}),
                                      sentences : Seq(SUBSET (Hanzi \cup {Blank}))]
    /\ ChunkSize \in Nat \ {0} /\ OutputRetries \in Nat

VARIABLES
    characters,  \* the corpus: the release that wrote each stored character last
    curated,     \* the curated pack: {} or {[members, sentences]}
    owned,       \* the packs of learners
    job,         \* the bootstrap
    cache,       \* _all_hanzi_cache: {} or {the characters}
    run          \* the generation runs of the application

database == <<characters, curated, owned>>
corpusVars == <<database, job, cache, run>>

Releases == DOMAIN Archive
Stored == DOMAIN characters

\* A job's step, its release and pack data, the records it has not written
\* yet, and the characters its open transaction has written.
NoJob == [step |-> "off", release |-> 0, data |-> {}, left |-> {}, open |-> {}]

\* A run's step, the characters its query and its prompt list (until the model
\* has answered), what the model drafted, and the retries that are left.
NoRun == [step |-> "idle", listed |-> {}, draft |-> {}, retries |-> 0]

CorpusInit ==
    /\ characters = [c \in {} |-> 0] /\ curated = {} /\ owned = {}
    /\ job = NoJob
    /\ cache = {}
    /\ run = [r \in Runs |-> NoRun]

SentenceGlyphs(pack) == UNION ToSet(pack.sentences)

\* Mutant: the sentences are not looked at.
MutantMembersOnly(pack) == ToSet(pack.members)

\* required_hanzi, _draft_hanzi: the members and each glyph of the sentences.
Required(pack) == ToSet(pack.members) \cup SentenceGlyphs(pack)

-----------------------------------------------------------------------------
(* The bootstrap (docker/entrypoint.sh): import, then seed.                *)

StartJob(v, data) ==
    /\ job.step = "off"
    /\ job' = [NoJob EXCEPT !.step = "archive", !.release = v, !.data = {data}]
    /\ UNCHANGED <<database, cache, run>>

\* A crash, a failed statement, or data the script refuses: what is not
\* committed is rolled back, and the release is not deployed.
EndJob ==
    /\ job.step # "off"
    /\ job' = NoJob
    /\ UNCHANGED <<database, cache, run>>

\* What may be found under an archive's name, on the disk or on the network.
Files == {"none", "other", "pinned"}

\* cached_archive, _download_source: only a file with the pinned digest will do.
Verified(files) == {s \in Sources : files[s] = "pinned"}

\* ensure_archive and iter_records: any source will do, from the disk or from
\* the network, and all records are parsed before the import.  A file that is
\* not the pinned one might have any records.
ReadArchive ==
    /\ job.step = "archive"
    /\ \E files \in [Sources -> Files], records \in SUBSET Hanzi :
         \E s \in Verified(files) :
            /\ files[s] = "pinned" => records = Archive[job.release]
            /\ job' = [job EXCEPT !.step = "import", !.left = records]
    /\ UNCHANGED <<database, cache, run>>

\* import_records: a statement per chunk, in one transaction.
ImportChunk ==
    /\ job.step = "import"
    /\ \E batch \in SUBSET job.left :
         /\ batch # {} /\ Cardinality(batch) <= ChunkSize
         /\ Cardinality(batch) < ChunkSize => batch = job.left
         /\ job' = [job EXCEPT !.left = @ \ batch, !.open = @ \cup batch]
    /\ UNCHANGED <<database, cache, run>>

\* The upsert: a character that is there gets the strokes of this release.
Imported ==
    [c \in Stored \cup job.open |-> IF c \in job.open THEN job.release ELSE characters[c]]

CommitImport ==
    /\ job.step = "import" /\ job.left = {}
    /\ characters' = Imported
    /\ job' = [job EXCEPT !.step = "seed", !.open = {}]
    /\ UNCHANGED <<curated, owned, cache, run>>

\* seed_database: validate_required_characters, then the upserts, and one
\* commit.  White space is required like any other character here.
Seed ==
    /\ job.step = "seed"
    /\ \A data \in job.data : Required(data) \subseteq Stored
    /\ curated' = job.data
    /\ job' = NoJob
    /\ UNCHANGED <<characters, owned, cache, run>>

-----------------------------------------------------------------------------
(* The application: all_hanzi and the generation runs.                     *)

ToModel(r, listed) ==
    [run EXCEPT ![r] = [NoRun EXCEPT !.step = "model", !.listed = listed,
                                     !.retries = OutputRetries]]

\* A first turn builds the prompt: from the cache, or by a query.
StartRun(r) ==
    /\ run[r].step = "idle"
    /\ IF cache # {}
       THEN run' = ToModel(r, CHOOSE listed \in cache : TRUE)
       ELSE run' = [run EXCEPT ![r].step = "query"]
    /\ UNCHANGED <<database, job, cache>>

QueryCorpus(r) ==
    /\ run[r].step = "query"
    /\ run' = [run EXCEPT ![r].step = "fill", ![r].listed = Stored]
    /\ UNCHANGED <<database, job, cache>>

\* Mutant: an empty corpus is cached too.
MutantFillCache(r) ==
    /\ run[r].step = "fill"
    /\ cache' = {run[r].listed}
    /\ run' = ToModel(r, run[r].listed)
    /\ UNCHANGED <<database, job>>

\* The query's answer is cached for the life of the process unless it is empty.
FillCache(r) ==
    /\ run[r].step = "fill"
    /\ cache' = IF run[r].listed = {} THEN cache ELSE {run[r].listed}
    /\ run' = ToModel(r, run[r].listed)
    /\ UNCHANGED <<database, job>>

Draft(r, draft) ==
    /\ run[r].step = "model"
    /\ run' = [run EXCEPT ![r].step = "check", ![r].listed = {}, ![r].draft = {draft}]
    /\ UNCHANGED <<database, job, cache>>

\* What validate_corpus_membership and PackRepository.create find missing:
\* both pass over white space.
Missing(draft) == (Required(draft) \ {Blank}) \ Stored

\* The output validator: the draft is accepted, tried again, or given up.
CheckDraft(r) ==
    LET missing == UNION {Missing(d) : d \in run[r].draft}
    IN  /\ run[r].step = "check"
        /\ run' = [run EXCEPT ![r] =
                     IF missing = {} THEN [run[r] EXCEPT !.step = "drafted"]
                     ELSE IF run[r].retries > 0
                          THEN [run[r] EXCEPT !.step = "model", !.draft = {}, !.retries = @ - 1]
                          ELSE NoRun]
        /\ UNCHANGED <<database, job, cache>>

\* The run is answered, or it fails.
EndRun(r) ==
    /\ run[r].step # "idle"
    /\ run' = [run EXCEPT ![r] = NoRun]
    /\ UNCHANGED <<database, job, cache>>

\* save_pack_draft of what a client holds.  A glyph that is missing is a 422,
\* a blank member too (create looks members up as they are), and a member that
\* is there twice breaks the primary key: none is committed.
SaveDraft(draft) ==
    /\ Missing(draft) = {}
    /\ Blank \notin ToSet(draft.members) /\ IsInjective(draft.members)
    /\ draft \notin owned /\ Cardinality(owned) < MaxOwned
    /\ owned' = owned \cup {draft}
    /\ UNCHANGED <<characters, curated, job, cache, run>>

\* The application is started again, with an empty cache.
Restart ==
    /\ cache' = {}
    /\ run' = [r \in Runs |-> NoRun]
    /\ UNCHANGED <<database, job>>

-----------------------------------------------------------------------------
Bootstrap ==
    \/ \E v \in Releases, data \in PackData : StartJob(v, data)
    \/ ReadArchive \/ ImportChunk \/ CommitImport \/ Seed \/ EndJob

Application ==
    \/ \E r \in Runs : \/ StartRun(r) \/ QueryCorpus(r) \/ FillCache(r)
                       \/ CheckDraft(r) \/ EndRun(r)
                       \/ \E draft \in Drafts : Draft(r, draft)
    \/ \E draft \in Drafts : SaveDraft(draft)
    \/ Restart

CorpusNext == Bootstrap \/ Application

CorpusSpec == CorpusInit /\ [][CorpusNext]_corpusVars

-----------------------------------------------------------------------------
(* Properties.                                                             *)

\* The cache never holds half an import, nor the empty corpus from before the
\* first one, and a prompt lists no character that could not be traced: runs
\* race each other and the bootstrap to fill it, whichever crashes
\* (characters.py, "doesn't pin an empty corpus for the whole process").
CacheWhole ==
    LET whole == {S \in SUBSET Stored : \E v \in Releases : Archive[v] \subseteq S}
    IN  /\ cache \subseteq whole
        /\ \A r \in Runs : run[r].step = "model" => run[r].listed \in whole \cup {{}}

\* Every character of a pack, in a sentence or not, has its strokes: of a pack
\* that is curated, drafted or saved, while releases come and go; white space
\* in drafts apart (verification.md, WF-15).  When packs are seeded the corpus
\* is that of the release, whatever releases, crashes and files came before.
PacksGrounded ==
    LET drafted == UNION {run[r].draft : r \in {q \in Runs : run[q].step = "drafted"}}
        glyphs(pack) == ToSet(pack.members) \cup SentenceGlyphs(pack)
    IN  /\ \A pack \in owned \cup drafted : glyphs(pack) \ {Blank} \subseteq Stored
        /\ \A pack \in curated : glyphs(pack) \subseteq Stored
        /\ job.step = "seed" =>
             \A c \in Archive[job.release] : c \in Stored /\ characters[c] = job.release
=============================================================================
