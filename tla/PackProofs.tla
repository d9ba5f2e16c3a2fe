---------------------------- MODULE PackProofs -----------------------------
(***************************************************************************)
(* Theorems about packs: the corpus and the packs that rest on it, for     *)
(* every archive, pack data, number of runs and order of crashes; and the  *)
(* library, bench and pack screens of the clients, for every set of packs. *)
(* The two components share no state; each has its invariant and theorems. *)
(***************************************************************************)
EXTENDS Corpus, Library, TLAPS

-----------------------------------------------------------------------------
(* The corpus and the packs that rest on it: the inductive invariant.      *)

\* At least what some release pins, of what is stored.
Whole(S) == S \subseteq Stored /\ \E v \in Releases : Archive[v] \subseteq S

IsJob ==
    job \in [step : {"off", "archive", "import", "seed"}, release : Releases \cup {0},
             data : SUBSET PackData, left : SUBSET Hanzi, open : SUBSET Hanzi]

RunState ==
    [step : {"idle", "query", "fill", "model", "check", "drafted"},
     listed : SUBSET Hanzi, draft : SUBSET Drafts, retries : Nat]

IsRun == run \in [Runs -> RunState]

\* The transaction and what is left to write are the archive of the release.
\* Once it is committed the corpus is that of the release.
JobOK ==
    /\ job.step # "off" =>
         job.release \in Releases /\ \E data \in PackData : job.data = {data}
    /\ job.step = "archive" => job.open = {}
    /\ job.step = "import" => job.open \cup job.left = Archive[job.release]
    /\ job.step = "seed" =>
         \A c \in Archive[job.release] : c \in Stored /\ characters[c] = job.release

\* There is one commit of all of an import, so what is stored, or was when a
\* query read it, is nothing or a whole import.
WholeOrEmpty ==
    /\ Stored # {} => Whole(Stored)
    /\ \A listed \in cache : Whole(listed)
    /\ \A r \in Runs : run[r].listed # {} => Whole(run[r].listed)

\* What a pack of learners needs; white space has no strokes.
Grounded(pack) == Required(pack) \ {Blank} \subseteq Stored

PacksOK ==
    /\ \A pack \in owned : Grounded(pack)
    /\ \A r \in Runs : run[r].step = "drafted" => \A d \in run[r].draft : Grounded(d)
    /\ \A pack \in curated : Required(pack) \subseteq Stored

CorpusInv == /\ Stored \subseteq Hanzi /\ IsJob /\ IsRun /\ JobOK
             /\ WholeOrEmpty /\ PacksOK

-----------------------------------------------------------------------------
(* Growth: the import only ever adds characters.                           *)

\* What is whole or grounded stays so while the corpus grows.
LEMMA GrowthKeeps ==
    ASSUME Stored \subseteq Stored'
    PROVE  /\ \A S : Whole(S) => Whole(S)'
           /\ \A pack : Grounded(pack) => Grounded(pack)'
BY DEF Whole, Grounded, Releases

\* Steps that leave the corpus, the packs and the cache alone, as far as the
\* job goes.
LEMMA JobStep ==
    ASSUME CorpusInv, UNCHANGED <<database, cache, run>>, IsJob', JobOK'
    PROVE  CorpusInv'
BY DEF CorpusInv, database, IsRun, WholeOrEmpty, Whole, PacksOK, Grounded,
       Stored, Releases

\* What the bootstrap does up to its first commit, and how it ends.
LEMMA JobKeeps ==
    ASSUME CorpusInv,
           \/ \E v \in Releases, data \in PackData : StartJob(v, data)
           \/ ReadArchive \/ ImportChunk \/ EndJob
    PROVE  CorpusInv'
<1> USE DEF CorpusInv
<1>1. ASSUME NEW v \in Releases, NEW data \in PackData, StartJob(v, data)
      PROVE  CorpusInv'
  <2>1. IsJob' /\ JobOK'
    BY <1>1 DEF StartJob, IsJob, JobOK, NoJob
  <2> QED
    BY <1>1, <2>1, JobStep DEF StartJob
<1>2. CASE ReadArchive
  <2>1. PICK files \in [Sources -> Files], records \in SUBSET Hanzi :
          \E s \in Verified(files) :
            /\ files[s] = "pinned" => records = Archive[job.release]
            /\ job' = [job EXCEPT !.step = "import", !.left = records]
    BY <1>2 DEF ReadArchive
  <2>2. /\ job' = [job EXCEPT !.step = "import", !.left = records]
        /\ records = Archive[job.release] /\ job.step = "archive"
    BY <1>2, <2>1 DEF ReadArchive, Verified
  <2>3. IsJob' /\ JobOK'
    BY <2>2 DEF IsJob, JobOK
  <2> QED
    BY <1>2, <2>3, JobStep DEF ReadArchive
<1>3. CASE ImportChunk
  <2>1. PICK batch \in SUBSET job.left :
          job' = [job EXCEPT !.left = @ \ batch, !.open = @ \cup batch]
    BY <1>3 DEF ImportChunk
  <2>2. job.step = "import"
    BY <1>3 DEF ImportChunk
  <2>3. IsJob' /\ JobOK'
    BY <2>1, <2>2 DEF IsJob, JobOK
  <2> QED
    BY <1>3, <2>3, JobStep DEF ImportChunk
<1>4. CASE EndJob
  <2>1. IsJob' /\ JobOK'
    BY <1>4 DEF EndJob, IsJob, JobOK, NoJob
  <2> QED
    BY <1>4, <2>1, JobStep DEF EndJob
<1> QED
  BY <1>1, <1>2, <1>3, <1>4

\* The commit of an import: the corpus grows to that of the release.
LEMMA ImportKeeps == CorpusInv /\ CommitImport => CorpusInv'
<1> SUFFICES ASSUME CorpusInv, CommitImport PROVE CorpusInv'
  OBVIOUS
<1>1. /\ job.step = "import" /\ job.left = {}
      /\ characters' = Imported
      /\ job' = [job EXCEPT !.step = "seed", !.open = {}]
      /\ UNCHANGED <<curated, owned, cache, run>>
  BY DEF CommitImport
<1>2. job.release \in Releases /\ job.open = Archive[job.release]
  BY <1>1 DEF CorpusInv, JobOK
<1>3. Stored' = Stored \cup job.open /\ \A c \in job.open : characters'[c] = job.release
  BY <1>1 DEF Stored, Imported
<1>4. Stored \subseteq Stored'
  BY <1>3
<1>5. /\ \A S : Whole(S) => Whole(S)'
      /\ \A pack : Grounded(pack) => Grounded(pack)'
  BY <1>4, GrowthKeeps
<1>6. Whole(Stored)'
  BY <1>2, <1>3 DEF Whole, Releases
<1>7. IsJob' /\ IsRun' /\ Stored' \subseteq Hanzi
  BY <1>1, <1>3 DEF CorpusInv, IsJob, IsRun, Releases
<1>8. JobOK'
  BY <1>1, <1>2, <1>3 DEF CorpusInv, IsJob, JobOK, Releases
<1>9. WholeOrEmpty'
  BY <1>1, <1>5, <1>6 DEF CorpusInv, WholeOrEmpty, Whole
<1>10. PacksOK'
  BY <1>1, <1>4, <1>5 DEF CorpusInv, PacksOK
<1> QED
  BY <1>7, <1>8, <1>9, <1>10 DEF CorpusInv

\* The seed writes a pack whose characters it has checked.
LEMMA SeedKeeps == CorpusInv /\ Seed => CorpusInv'
<1> SUFFICES ASSUME CorpusInv, Seed PROVE CorpusInv'
  OBVIOUS
<1>1. /\ \A data \in job.data : Required(data) \subseteq Stored
      /\ curated' = job.data /\ job' = NoJob
      /\ UNCHANGED <<characters, owned, cache, run>>
  BY DEF Seed
<1>2. Stored' = Stored
  BY <1>1 DEF Stored
<1>3. IsJob' /\ JobOK'
  BY <1>1 DEF NoJob, IsJob, JobOK
<1>4. Stored' \subseteq Hanzi /\ IsRun' /\ WholeOrEmpty'
  BY <1>1, <1>2 DEF CorpusInv, IsRun, WholeOrEmpty, Whole, Releases
<1>5. PacksOK'
  BY <1>1, <1>2 DEF CorpusInv, PacksOK, Grounded
<1> QED
  BY <1>3, <1>4, <1>5 DEF CorpusInv

-----------------------------------------------------------------------------
(* The application.                                                        *)

\* Steps that leave the corpus and the bootstrap alone.
LEMMA RunStep ==
    ASSUME CorpusInv, UNCHANGED <<characters, curated, owned, job>>, IsRun',
           \A listed \in cache' : Whole(listed),
           \A r \in Runs : run'[r].listed # {} => Whole(run'[r].listed),
           \A r \in Runs : run'[r].step = "drafted"
                             => \A d \in run'[r].draft : Grounded(d)
    PROVE  CorpusInv'
<1>1. Stored' = Stored /\ Stored' \subseteq Hanzi
  BY DEF CorpusInv, Stored
<1>2. /\ \A S : Whole(S) => Whole(S)'
      /\ \A pack : Grounded(pack) => Grounded(pack)'
  BY <1>1, GrowthKeeps
<1>3. IsJob' /\ JobOK'
  BY <1>1 DEF CorpusInv, IsJob, JobOK, Releases
<1>4. WholeOrEmpty'
  BY <1>1, <1>2 DEF CorpusInv, WholeOrEmpty, Whole
<1>5. PacksOK'
  BY <1>1, <1>2 DEF CorpusInv, PacksOK
<1> QED
  BY <1>1, <1>3, <1>4, <1>5 DEF CorpusInv

\* What one run becomes, while the others stay as they are.
LEMMA RunBecomes ==
    ASSUME CorpusInv, UNCHANGED <<database, job>>, NEW r \in Runs, NEW after,
           run' = [run EXCEPT ![r] = after],
           after \in RunState,
           \A listed \in cache' : Whole(listed),
           after.listed # {} => Whole(after.listed),
           after.step = "drafted" => \A d \in after.draft : Grounded(d)
    PROVE  CorpusInv'
<1>1. /\ run'[r] = after
      /\ \A q \in Runs : q # r => run'[q] = run[q]
  BY DEF CorpusInv, IsRun
<1>2. IsRun'
  BY DEF CorpusInv, IsRun
<1>3. \A q \in Runs : run'[q].listed # {} => Whole(run'[q].listed)
  BY <1>1 DEF CorpusInv, WholeOrEmpty
<1>4. \A q \in Runs : run'[q].step = "drafted" => \A d \in run'[q].draft : Grounded(d)
  BY <1>1 DEF CorpusInv, PacksOK
<1> QED
  BY <1>2, <1>3, <1>4, RunStep DEF database

\* A step of a run lists a whole corpus, or passes on a draft that was checked.
LEMMA RunsKeep ==
    ASSUME CorpusInv, NEW r \in Runs,
           \/ StartRun(r) \/ QueryCorpus(r) \/ FillCache(r) \/ CheckDraft(r) \/ EndRun(r)
           \/ \E draft \in Drafts : Draft(r, draft)
    PROVE  CorpusInv'
<1>1. /\ run[r] \in RunState
      /\ \A listed \in cache : Whole(listed)
      /\ run[r].listed # {} => Whole(run[r].listed)
      /\ Stored # {} => Whole(Stored)
      /\ Stored \subseteq Hanzi
  BY DEF CorpusInv, IsRun, WholeOrEmpty
<1>2. ASSUME NEW listed \in SUBSET Hanzi, listed # {} => Whole(listed),
             run' = ToModel(r, listed), UNCHANGED <<database, job>>,
             \A l \in cache' : Whole(l)
      PROVE  CorpusInv'
  <2> DEFINE after == [NoRun EXCEPT !.step = "model", !.listed = listed,
                                    !.retries = OutputRetries]
  <2>1. run' = [run EXCEPT ![r] = after]
    BY <1>2 DEF ToModel
  <2>2. /\ after \in RunState
        /\ after.step = "model" /\ after.listed = listed
    BY CorpusAssumption DEF NoRun, RunState
  <2> HIDE DEF after
  <2> QED
    BY <1>2, <2>1, <2>2, RunBecomes
<1>3. CASE StartRun(r)
  <2>1. CASE cache # {}
    <3>1. PICK listed \in cache : run' = ToModel(r, listed)
      BY <1>3, <2>1 DEF StartRun
    <3>2. listed \in SUBSET Hanzi /\ Whole(listed)
      BY <1>1 DEF Whole
    <3> QED
      BY <1>1, <1>2, <1>3, <3>1, <3>2 DEF StartRun
  <2>2. CASE cache = {}
    <3>1. run' = [run EXCEPT ![r] = [run[r] EXCEPT !.step = "query"]]
      BY <1>3, <2>2 DEF StartRun
    <3> DEFINE after == [run[r] EXCEPT !.step = "query"]
    <3>2. /\ after \in RunState
          /\ after.step = "query" /\ after.listed = run[r].listed
      BY <1>1 DEF RunState
    <3> HIDE DEF after
    <3> QED
      BY <1>1, <1>3, <3>1, <3>2, RunBecomes DEF StartRun, after
  <2> QED
    BY <2>1, <2>2
<1>4. CASE QueryCorpus(r)
  <2> DEFINE after == [run[r] EXCEPT !.step = "fill", !.listed = Stored]
  <2>1. run' = [run EXCEPT ![r] = after]
    BY <1>4 DEF QueryCorpus, CorpusInv, IsRun
  <2>2. /\ after \in RunState
        /\ after.step = "fill" /\ after.listed = Stored
    BY <1>1 DEF RunState
  <2> HIDE DEF after
  <2> QED
    BY <1>1, <1>4, <2>1, <2>2, RunBecomes DEF QueryCorpus
<1>5. CASE FillCache(r)
  <2>1. /\ run[r].step = "fill" /\ run' = ToModel(r, run[r].listed)
        /\ cache' = IF run[r].listed = {} THEN cache ELSE {run[r].listed}
        /\ UNCHANGED <<database, job>>
    BY <1>5 DEF FillCache
  <2>2. /\ run[r].listed \in SUBSET Hanzi
        /\ run[r].listed # {} => Whole(run[r].listed)
    BY <1>1, <2>1 DEF RunState
  <2>3. \A l \in cache' : Whole(l)
    BY <1>1, <2>1, <2>2
  <2> QED
    BY <1>2, <2>1, <2>2, <2>3
<1>6. ASSUME NEW draft \in Drafts, Draft(r, draft)
      PROVE  CorpusInv'
  <2> DEFINE after == [run[r] EXCEPT !.step = "check", !.listed = {}, !.draft = {draft}]
  <2>1. run' = [run EXCEPT ![r] = after]
    BY <1>6 DEF Draft, CorpusInv, IsRun
  <2>2. /\ after \in RunState
        /\ after.step = "check" /\ after.listed = {}
    BY <1>1 DEF RunState
  <2> HIDE DEF after
  <2> QED
    BY <1>1, <1>6, <2>1, <2>2, RunBecomes DEF Draft
<1>7. CASE CheckDraft(r)
  <2> DEFINE missing == UNION {Missing(d) : d \in run[r].draft}
  <2>1. /\ UNCHANGED <<database, job, cache>> /\ run[r].step = "check"
        /\ run' = [run EXCEPT ![r] =
                     IF missing = {} THEN [run[r] EXCEPT !.step = "drafted"]
                     ELSE IF run[r].retries > 0
                          THEN [run[r] EXCEPT !.step = "model", !.draft = {}, !.retries = @ - 1]
                          ELSE NoRun]
    BY <1>7 DEF CheckDraft
  <2>2. CASE missing = {}
    <3> DEFINE after == [run[r] EXCEPT !.step = "drafted"]
    <3>1. run' = [run EXCEPT ![r] = after]
      BY <2>1, <2>2
    <3>2. /\ after \in RunState
          /\ after.step = "drafted" /\ after.draft = run[r].draft
          /\ after.listed = run[r].listed
      BY <1>1 DEF RunState
    <3>3. \A d \in run[r].draft : Grounded(d)
      BY <2>2 DEF Grounded, Missing
    <3> HIDE DEF after
    <3> QED
      BY <1>1, <2>1, <3>1, <3>2, <3>3, RunBecomes
  <2>3. CASE missing # {} /\ run[r].retries > 0
    <3> DEFINE after == [run[r] EXCEPT !.step = "model", !.draft = {}, !.retries = @ - 1]
    <3>1. run' = [run EXCEPT ![r] = after]
      BY <2>1, <2>3
    <3>2. run[r].retries - 1 \in Nat
      BY <1>1, <2>3 DEF RunState
    <3>3. after \in RunState /\ after.step = "model" /\ after.listed = run[r].listed
      BY <1>1, <3>2 DEF RunState
    <3> HIDE DEF after
    <3> QED
      BY <1>1, <2>1, <3>1, <3>3, RunBecomes
  <2>4. CASE missing # {} /\ ~(run[r].retries > 0)
    <3>1. run' = [run EXCEPT ![r] = NoRun]
      BY <2>1, <2>4
    <3>2. NoRun.step = "idle" /\ NoRun.listed = {} /\ NoRun \in RunState
      BY CorpusAssumption DEF NoRun, RunState
    <3> QED
      BY <1>1, <2>1, <3>1, <3>2, RunBecomes
  <2> QED
    BY <2>2, <2>3, <2>4
<1>8. CASE EndRun(r)
  <2>2. NoRun.step = "idle" /\ NoRun.listed = {} /\ NoRun \in RunState
    BY CorpusAssumption DEF NoRun, RunState
  <2> QED
    BY <1>1, <1>8, <2>2, RunBecomes DEF EndRun
<1> QED
  BY <1>3, <1>4, <1>5, <1>6, <1>7, <1>8

\* A pack is saved: create has looked its characters up.
LEMMA SaveKeeps == ASSUME CorpusInv, NEW draft \in Drafts, SaveDraft(draft) PROVE CorpusInv'
<1>1. /\ Missing(draft) = {} /\ owned' = owned \cup {draft}
      /\ UNCHANGED <<characters, curated, job, cache, run>>
  BY DEF SaveDraft
<1>2. Grounded(draft)
  BY <1>1 DEF Grounded, Missing
<1>3. PacksOK'
  BY <1>1, <1>2 DEF CorpusInv, PacksOK, Grounded, Stored
<1> QED
  BY <1>1, <1>3 DEF CorpusInv, IsJob, IsRun, JobOK, WholeOrEmpty, Whole, Stored,
                    Releases

\* The application starts again with nothing in its memory.
LEMMA RestartKeeps == CorpusInv /\ Restart => CorpusInv'
<1> SUFFICES ASSUME CorpusInv, Restart PROVE CorpusInv'
  OBVIOUS
<1>1. /\ cache' = {} /\ run' = [r \in Runs |-> NoRun]
      /\ UNCHANGED <<characters, curated, owned, job>>
  BY DEF Restart, database
<1>2. NoRun.step = "idle" /\ NoRun.listed = {} /\ NoRun \in RunState
  BY DEF NoRun, RunState
<1>3. IsRun'
  BY <1>1, <1>2 DEF IsRun
<1> QED
  BY <1>1, <1>2, <1>3, RunStep

\* Every step keeps the invariant.
LEMMA CorpusStep == CorpusInv /\ [CorpusNext]_corpusVars => CorpusInv'
<1>1. CorpusInv /\ Bootstrap => CorpusInv'
  BY JobKeeps, ImportKeeps, SeedKeeps DEF Bootstrap
<1>2. CorpusInv /\ Application => CorpusInv'
  BY RunsKeep, SaveKeeps, RestartKeeps DEF Application
<1>3. CorpusInv /\ UNCHANGED corpusVars => CorpusInv'
  BY JobStep DEF corpusVars, CorpusInv, IsJob, JobOK, Stored, database, Releases
<1> QED
  BY <1>1, <1>2, <1>3 DEF CorpusNext

\* The invariant holds in every behaviour: the typing of the bootstrap and of
\* the runs, and what links them to the corpus.
THEOREM CorpusInvariant == CorpusSpec => []CorpusInv
<1>1. CorpusInit => CorpusInv
  <2> SUFFICES ASSUME CorpusInit PROVE CorpusInv
    OBVIOUS
  <2>1. /\ Stored = {} /\ cache = {} /\ curated = {} /\ owned = {}
        /\ job = NoJob /\ run = [r \in Runs |-> NoRun]
    BY DEF CorpusInit, Stored
  <2>2. IsJob /\ JobOK
    BY <2>1 DEF NoJob, IsJob, JobOK
  <2>3. NoRun.step = "idle" /\ NoRun.listed = {} /\ NoRun \in RunState
    BY CorpusAssumption DEF NoRun, RunState
  <2>4. IsRun /\ WholeOrEmpty /\ PacksOK
    BY <2>1, <2>3 DEF IsRun, WholeOrEmpty, PacksOK
  <2> QED
    BY <2>1, <2>2, <2>4 DEF CorpusInv
<1> QED
  BY <1>1, CorpusStep, PTL DEF CorpusSpec

-----------------------------------------------------------------------------
(* What follows.                                                           *)

\* The cache never holds half an import, nor the empty corpus, and no prompt
\* lists such a thing, however runs, the bootstrap and crashes interleave
\* (all_hanzi fills _all_hanzi_cache after an await).
THEOREM CacheIsWhole == CorpusSpec => []CacheWhole
<1>1. CorpusInv => CacheWhole
  BY DEF CorpusInv, WholeOrEmpty, Whole, CacheWhole
<1> QED
  BY <1>1, CorpusInvariant, PTL

\* Every character of a curated, drafted or saved pack has its strokes, white
\* space apart, whatever releases come and go (validate_required_characters,
\* validate_corpus_membership, PackRepository.create).
THEOREM PacksAreGrounded == CorpusSpec => []PacksGrounded
<1>1. CorpusInv => PacksGrounded
  BY DEF CorpusInv, JobOK, PacksOK, Grounded, Required, PacksGrounded
<1> QED
  BY <1>1, CorpusInvariant, PTL

-----------------------------------------------------------------------------
(* The cache of the library: types.                                        *)

ViewsOf(q) ==
    CASE q = Library -> SUBSET GlobalPacks
      [] q = Bench   -> SUBSET (Packs \X BOOLEAN)
      [] OTHER       -> BOOLEAN \X BOOLEAN

\* At most one view: what the cache has of a query, or has been answered.
OneAtMost(S) == S = {} \/ \E d \in ViewsOf(key) : S = {d}

Entries ==
    [data : SUBSET ViewsOf(key), valid : BOOLEAN, step : {"idle", "asked", "answered"},
     answer : SUBSET ViewsOf(key), old : BOOLEAN, doubt : BOOLEAN]

TypeOK ==
    /\ on \in SUBSET Packs /\ progress \in SUBSET Packs
    /\ key \in Keys /\ mounted \in BOOLEAN /\ failures \in Nat
    /\ entry \in Entries
    /\ mutation \in Seq(Mutations)

Shape ==
    /\ OneAtMost(entry.data) /\ OneAtMost(entry.answer)
    /\ entry.data = {} => ~entry.valid
    /\ entry.step = "answered" => entry.answer # {}

PacksOfKinds ==
    \A k \in DOMAIN mutation :
        /\ mutation[k].kind \in {"toggle", "set"} => mutation[k].pack \in GlobalPacks
        /\ mutation[k].kind \in {"save", "remove"} => mutation[k].pack \in OwnedPacks

\* Only what is shown of the library is kept for a roll-back.
RollsBackLibrary == \A k \in DOMAIN mutation : mutation[k].previous # {} => key = Library

-----------------------------------------------------------------------------
(* What the client has yet to learn of.                                    *)

\* The answer to m will correct the query that is followed: the server has done
\* m, or the cache shows m as done already.
Unsettled(m) ==
    /\ m.step = "sent" /\ key \in Touched(m)
    /\ \/ m.done /\ ~(m.kind = "save" /\ key = Detail(m.pack))
       \/ m.kind = "toggle" /\ key = Library

\* A change of the setting of the pack whose screen is followed is done, and
\* its answer is awaited.
Moved(m) ==
    /\ m.step = "sent" /\ m.done
    /\ m.kind \in {"toggle", "set", "remove"} /\ key = Detail(m.pack)

Settled == \A k \in DOMAIN mutation : ~Unsettled(mutation[k])
Unmoved == \A k \in DOMAIN mutation : ~Moved(mutation[k])

IsDetail == \E p \in Packs : key = Detail(p)

Right(S) ==
    /\ Settled => S = {View}
    /\ IsDetail /\ Unmoved => \E d \in ViewsOf(key) : S = {d} /\ d[1] = (key[2] \in on)

DataIsRight == entry.valid /\ ~entry.doubt => Right(entry.data)
AnswerIsRight == entry.step = "answered" /\ ~entry.old => Right(entry.answer)

AloneIsAlone ==
    \A j, k \in DOMAIN mutation :
        /\ j # k /\ mutation[j].step = "sent" /\ mutation[k].step = "sent"
        /\ mutation[j].alone
        => ~Overlap(mutation[j], mutation[k])

ValueIsProgress ==
    \A k \in DOMAIN mutation :
        LET m == mutation[k]
        IN  m.step = "sent" /\ m.done /\ m.alone /\ m.kind \in {"reset", "complete"} =>
              m.value = (m.pack \in progress)

Empty == entry.data = {} /\ entry.step # "answered"

NothingUnsaved ==
    \A p \in OwnedPacks :
        key = Detail(p) /\ p \notin on /\ (\A k \in DOMAIN mutation : mutation[k].pack # p) => Empty

SavesAreNew ==
    \A k \in DOMAIN mutation :
        mutation[k].kind = "save" =>
            /\ \A j \in DOMAIN mutation :
                 j # k /\ mutation[j].kind = "save" => mutation[j].pack # mutation[k].pack
            /\ ~mutation[k].done /\ key = Detail(mutation[k].pack) =>
                 Empty /\ mutation[k].pack \notin on

ToggleIsAlone ==
    \A k \in DOMAIN mutation :
        key = Library /\ mutation[k].step = "sent" /\ mutation[k].kind = "toggle" /\ mutation[k].alone =>
            ~Running(entry)

Inv ==
    /\ TypeOK /\ Shape /\ PacksOfKinds /\ RollsBackLibrary
    /\ DataIsRight /\ AnswerIsRight
    /\ AloneIsAlone /\ ValueIsProgress /\ NothingUnsaved /\ SavesAreNew
    /\ ToggleIsAlone /\ OptimismHolds

-----------------------------------------------------------------------------
(* What the operators do.                                                  *)

\* The keys are told apart, and the packs of the two kinds.
LEMMA KeysApart ==
    /\ Library # Bench
    /\ \A p \in Packs : Detail(p) # Library /\ Detail(p) # Bench /\ Detail(p)[2] = p
    /\ \A p, q \in Packs : Detail(p) = Detail(q) => p = q
    /\ \A p \in GlobalPacks : p \notin OwnedPacks
    /\ GlobalPacks \subseteq Packs /\ OwnedPacks \subseteq Packs
BY LibraryAssumption DEF Library, Bench, Detail, Packs

\* A pair of truth values, or of anything and a truth value.
LEMMA TruthsPaired ==
    ASSUME NEW a, NEW b, NEW S, NEW T
    PROVE  /\ <<a \in S, b \in T>> \in BOOLEAN \X BOOLEAN
           /\ \A P : a \in P => <<a, b \in T>> \in P \X BOOLEAN
<1>1. (a \in S) \in BOOLEAN /\ (b \in T) \in BOOLEAN
  OBVIOUS
<1>2. \A P : \A x \in P, y \in BOOLEAN : <<x, y>> \in P \X BOOLEAN
  OBVIOUS
<1> QED BY <1>1, <1>2, Zenon

\* What a screen shows is a view of its query, on the screen of a pack the
\* setting and the progress.
LEMMA ViewTyped ==
    ASSUME TypeOK
    PROVE  /\ View \in ViewsOf(key)
           /\ \A p \in Packs : key = Detail(p) =>
                ViewsOf(key) = BOOLEAN \X BOOLEAN /\ View = <<p \in on, p \in progress>>
<1>1. CASE key = Library
  BY <1>1, KeysApart DEF View, LibraryView, ViewsOf
<1>2. CASE key = Bench
  <2>1. on \subseteq Packs
    BY DEF TypeOK
  <2>2. \A p \in on : <<p, p \in progress>> \in Packs \X BOOLEAN
    BY <2>1, TruthsPaired
  <2>3. BenchView \subseteq Packs \X BOOLEAN
    BY <2>2 DEF BenchView
  <2> QED BY <1>2, <2>3, KeysApart DEF View, ViewsOf
<1>3. CASE key \notin {Library, Bench}
  <2>1. PICK p \in Packs : key = Detail(p)
    BY <1>3 DEF TypeOK, Keys
  <2>2. View = <<p \in on, p \in progress>> /\ key[2] = p
    BY <1>3, <2>1, KeysApart DEF View, DetailView
  <2>3. <<p \in on, p \in progress>> \in BOOLEAN \X BOOLEAN
    BY TruthsPaired
  <2>4. ViewsOf(key) = BOOLEAN \X BOOLEAN
    BY <1>3 DEF ViewsOf
  <2> QED BY <2>1, <2>2, <2>3, <2>4, KeysApart
<1> QED BY <1>1, <1>2, <1>3

\* The fields of an entry.
LEMMA EntryFields ==
    ASSUME NEW e \in Entries
    PROVE  /\ e.data \in SUBSET ViewsOf(key) /\ e.valid \in BOOLEAN
           /\ e.step \in {"idle", "asked", "answered"}
           /\ e.answer \in SUBSET ViewsOf(key) /\ e.old \in BOOLEAN /\ e.doubt \in BOOLEAN
BY DEF Entries

\* What is stopped or asked again keeps its data, and has no answer.
LEMMA Asking ==
    ASSUME NEW e \in Entries
    PROVE  /\ Stop(e) \in Entries /\ Ask(e) \in Entries
           /\ Stop(e).step = "idle" /\ Ask(e).step = "asked"
           /\ \A f \in {Stop(e), Ask(e)} :
                /\ f.data = e.data /\ f.valid = e.valid /\ f.doubt = e.doubt
                /\ f.answer = {} /\ f.old = FALSE
BY DEF Entries, Stop, Ask

\* A fetch keeps the data, and starts a request or joins one.
LEMMA Fetching ==
    ASSUME NEW e \in Entries
    PROVE  /\ Fetch(e) \in Entries /\ Fetch(e).data = e.data
           /\ Fetch(e).valid = e.valid /\ Fetch(e).doubt = e.doubt
           /\ \/ Fetch(e) = e
              \/ Fetch(e).step = "asked" /\ Fetch(e).answer = {}
BY Asking DEF Fetch

\* What is invalidated is not valid, keeps its data, and no answer that comes
\* of a request sent before counts.
LEMMA Invalidating ==
    ASSUME NEW e \in Entries, mounted \in BOOLEAN
    PROVE  /\ Invalidated(e) \in Entries /\ Invalidated(e).data = e.data
           /\ ~Invalidated(e).valid
           /\ \/ Invalidated(e).step = "asked" /\ Invalidated(e).answer = {}
              \/ /\ Invalidated(e).step = e.step /\ Invalidated(e).answer = e.answer
                 /\ Invalidated(e).old = (e.step # "idle")
<1> DEFINE stale == [e EXCEPT !.valid = FALSE]
<1>1. /\ stale \in Entries /\ stale.data = e.data /\ ~stale.valid /\ stale.step = e.step
      /\ stale.answer = e.answer
  BY DEF Entries
<1> HIDE DEF stale
<1>2. CASE mounted /\ ~(Running(e) /\ e.data = {})
  <2>1. Invalidated(e) = Ask(stale)
    BY <1>2 DEF Invalidated, stale
  <2>2. Ask(stale).data = stale.data /\ Ask(stale).valid = stale.valid /\ Ask(stale).answer = {}
    BY <1>1, Asking
  <2> QED BY <1>1, <2>1, <2>2, Asking
<1>3. CASE ~(mounted /\ ~(Running(e) /\ e.data = {}))
  <2>1. Invalidated(e) = [stale EXCEPT !.old = (e.step # "idle")]
    BY <1>3 DEF Invalidated, stale, Running
  <2> QED BY <1>1, <2>1 DEF Entries
<1> QED BY <1>2, <1>3

\* What is in doubt keeps its data, and no answer under way counts.
LEMMA Doubting ==
    ASSUME NEW e \in Entries
    PROVE  /\ Doubted(e) \in Entries /\ Doubted(e).data = e.data /\ Doubted(e).valid = e.valid
           /\ Doubted(e).step = e.step /\ Doubted(e).answer = e.answer
           /\ Doubted(e).doubt /\ Doubted(e).old = (e.step # "idle")
BY DEF Entries, Doubted, Running

\* What is written takes the place of data, and of nothing else.
LEMMA Writing ==
    ASSUME NEW e \in Entries, NEW d \in ViewsOf(key)
    PROVE  /\ Written(e, d) \in Entries
           /\ Written(e, d).step = e.step /\ Written(e, d).answer = e.answer
           /\ Written(e, d).old = e.old /\ Written(e, d).doubt = e.doubt
           /\ e.data = {} => Written(e, d) = e
           /\ e.data # {} => Written(e, d).data = {d} /\ Written(e, d).valid
BY DEF Entries, Written

\* The one member of a set.
LEMMA TheOne == \A d : The({d}) = d
BY DEF The

\* The fields of a change.
LEMMA MutationFields ==
    ASSUME NEW m \in Mutations
    PROVE  /\ m.kind \in Kinds /\ m.pack \in Packs /\ m.value \in BOOLEAN /\ m.done \in BOOLEAN
           /\ m.step \in {"sent", "lost", "over"} /\ m.previous \in SUBSET SUBSET GlobalPacks
           /\ m.alone \in BOOLEAN
BY DEF Mutations

\* What has been asked, by its number.
LEMMA MutationTyped ==
    ASSUME TypeOK
    PROVE  /\ Len(mutation) \in Nat /\ DOMAIN mutation = 1 .. Len(mutation)
           /\ \A k \in DOMAIN mutation : mutation[k] \in Mutations
BY DEF TypeOK

-----------------------------------------------------------------------------
(* What a step does to the changes.                                        *)

\* b has become a, which may have been joined by others.
Alike(a, b) ==
    /\ a.kind = b.kind /\ a.pack = b.pack /\ a.value = b.value
    /\ a.done = b.done /\ a.step = b.step /\ a.previous = b.previous
    /\ a.alone => b.alone

\* b has become a, which may be done or over.
Follows(a, b) ==
    /\ a.kind = b.kind /\ a.pack = b.pack /\ a.previous = b.previous
    /\ a.step = "sent" => b.step = "sent"
    /\ a.alone => b.alone

\* No change of the learner's is new, done or over.
Same ==
    /\ mutation' \in Seq(Mutations) /\ DOMAIN mutation' = DOMAIN mutation
    /\ \A k \in DOMAIN mutation : Alike(mutation'[k], mutation[k])

\* n is new, and what it meets is not alone, nor n if it meets any.
Joined(m, n) ==
    /\ mutation' \in Seq(Mutations) /\ DOMAIN mutation' = DOMAIN mutation \cup {n}
    /\ n \notin DOMAIN mutation
    /\ \A k \in DOMAIN mutation : Alike(mutation'[k], mutation[k])
    /\ Alike(mutation'[n], m) /\ m.step = "sent" /\ ~m.done
    /\ \A k \in DOMAIN mutation :
         mutation[k].step = "sent" /\ Overlap(mutation[k], m) =>
           ~mutation'[k].alone /\ ~mutation'[n].alone

\* The change k is in another step.
Moves(k, step) ==
    /\ mutation' \in Seq(Mutations) /\ DOMAIN mutation' = DOMAIN mutation
    /\ \A j \in DOMAIN mutation : j # k => mutation'[j] = mutation[j]
    /\ Follows(mutation'[k], mutation[k])
    /\ mutation'[k].done = mutation[k].done /\ mutation'[k].step = step

\* A function on the numbers of the changes is a sequence of as many.
LEMMA Renewed ==
    ASSUME TypeOK, NEW f, DOMAIN f = DOMAIN mutation,
           \A k \in DOMAIN mutation : f[k] \in Mutations,
           f = [k \in DOMAIN mutation |-> f[k]]
    PROVE  f \in Seq(Mutations) /\ Len(f) = Len(mutation)
<1>1. Len(mutation) \in Nat /\ DOMAIN mutation = 1 .. Len(mutation)
  BY MutationTyped
<1>2. f = [k \in 1 .. Len(mutation) |-> f[k]]
  BY <1>1
<1>3. [k \in 1 .. Len(mutation) |-> f[k]] \in Seq(Mutations)
  BY <1>1
<1> QED BY <1>1, <1>2, <1>3

\* A change that is joined is alike.
LEMMA JoinedIsAlike ==
    ASSUME NEW m \in Mutations, NEW b \in BOOLEAN, m.alone \/ ~b
    PROVE  /\ [m EXCEPT !.alone = b] \in Mutations /\ Alike([m EXCEPT !.alone = b], m)
           /\ [m EXCEPT !.alone = b].alone = b
BY DEF Mutations, Alike

\* A screen that asks again is no change.
LEMMA ShowIsSame == TypeOK /\ Show => Same
<1> SUFFICES ASSUME TypeOK, Show PROVE Same
  OBVIOUS
<1>1. PICK refetch \in BOOLEAN :
        mutation' = [k \in DOMAIN mutation |-> [mutation[k] EXCEPT !.alone = @ /\ ~refetch]]
  <2>1. PICK refetch \in {TRUE, entry.data = {} \/ ~entry.valid} :
          mutation' = [k \in DOMAIN mutation |-> [mutation[k] EXCEPT !.alone = @ /\ ~refetch]]
    BY Zenon DEF Show
  <2>2. refetch \in BOOLEAN
    BY <2>1, Zenon
  <2> QED BY <2>1, <2>2, Zenon
<1>2. /\ DOMAIN mutation' = DOMAIN mutation
      /\ \A k \in DOMAIN mutation :
           mutation'[k] = [mutation[k] EXCEPT !.alone = mutation[k].alone /\ ~refetch]
  BY <1>1, Zenon
<1>3. \A k \in DOMAIN mutation : mutation[k] \in Mutations
  BY MutationTyped
<1>4. CASE refetch
  <2>1. \A k \in DOMAIN mutation : mutation'[k] = [mutation[k] EXCEPT !.alone = FALSE]
    BY <1>2, <1>4
  <2>2. \A k \in DOMAIN mutation :
          mutation'[k] \in Mutations /\ Alike(mutation'[k], mutation[k])
    <3> TAKE k \in DOMAIN mutation
    <3>1. mutation[k] \in Mutations /\ mutation'[k] = [mutation[k] EXCEPT !.alone = FALSE]
      BY <1>3, <2>1
    <3> DEFINE m == mutation[k]
    <3>2. [m EXCEPT !.alone = FALSE] \in Mutations /\ Alike([m EXCEPT !.alone = FALSE], m)
      <4> HIDE DEF m
      <4>1. m \in Mutations
        BY <3>1 DEF m
      <4> QED BY <4>1, JoinedIsAlike
    <3> QED BY <3>1, <3>2, Zenon
  <2>3. mutation' = [k \in DOMAIN mutation |-> mutation'[k]]
    BY <1>1, <1>2, Zenon
  <2> QED BY <1>2, <2>2, <2>3, Renewed DEF Same
<1>5. CASE ~refetch
  <2>1. \A k \in DOMAIN mutation : mutation'[k] = mutation[k]
    BY <1>2, <1>3, <1>5 DEF Mutations
  <2>2. mutation' = [k \in DOMAIN mutation |-> mutation'[k]]
    BY <1>1, <1>2, Zenon
  <2> QED BY <1>2, <1>3, <2>1, <2>2, Renewed DEF Same, Alike
<1> QED BY <1>4, <1>5

\* The query changes nothing of the learner's.
LEMMA NothingIsSame == TypeOK /\ UNCHANGED mutation => Same
BY DEF TypeOK, Same, Alike

\* A change that is sent joins those that are under way.
LEMMA SendingJoins ==
    ASSUME TypeOK, NEW m \in Mutations, m.step = "sent", ~m.done, m.alone, Sending(m)
    PROVE  Joined(m, Len(mutation) + 1)
<1> DEFINE met == {k \in Sent : Overlap(mutation[k], m)}
           lowered == [k \in DOMAIN mutation |-> [mutation[k] EXCEPT !.alone = @ /\ k \notin met]]
           new == [m EXCEPT !.alone = met = {}]
           n == Len(mutation) + 1
<1>1. /\ Len(mutation) \in Nat /\ DOMAIN mutation = 1 .. Len(mutation)
      /\ \A k \in DOMAIN mutation : mutation[k] \in Mutations
  BY MutationTyped
<1>2. mutation' = Append(lowered, new)
  BY DEF Sending
<1>3. \A k \in DOMAIN mutation : mutation[k].step = "sent" /\ Overlap(mutation[k], m) => k \in met
  BY DEF Sent
<1>4. \A k \in DOMAIN mutation :
        lowered[k] = [mutation[k] EXCEPT !.alone = mutation[k].alone /\ k \notin met]
  BY Zenon
<1>5. met = {} \/ met # {}
  OBVIOUS
<1> HIDE DEF met
<1>6. \A k \in DOMAIN mutation :
        /\ lowered[k] \in Mutations /\ Alike(lowered[k], mutation[k])
        /\ k \in met => ~lowered[k].alone
  <2> SUFFICES ASSUME NEW k \in DOMAIN mutation
               PROVE  /\ lowered[k] \in Mutations /\ Alike(lowered[k], mutation[k])
                      /\ k \in met => ~lowered[k].alone
    OBVIOUS
  <2>1. CASE k \in met
    <3>1. lowered[k] = [mutation[k] EXCEPT !.alone = FALSE]
      BY <1>4, <2>1
    <3> HIDE DEF lowered
    <3> QED BY <1>1, <2>1, <3>1, JoinedIsAlike
  <2>2. CASE k \notin met
    <3>1. lowered[k] = [mutation[k] EXCEPT !.alone = mutation[k].alone]
      BY <1>1, <1>4, <2>2 DEF Mutations
    <3> HIDE DEF lowered
    <3> QED BY <1>1, <2>2, <3>1 DEF Mutations, Alike
  <2> QED BY <2>1, <2>2
<1>7. new \in Mutations /\ Alike(new, m) /\ (met # {} => ~new.alone)
  <2>1. CASE met = {}
    <3>1. new = [m EXCEPT !.alone = TRUE]
      BY <2>1
    <3> QED BY <2>1, <3>1, JoinedIsAlike
  <2>2. CASE met # {}
    <3>1. new = [m EXCEPT !.alone = FALSE]
      BY <2>2
    <3> QED BY <2>2, <3>1, JoinedIsAlike
  <2> QED BY <2>1, <2>2
<1>8. lowered \in Seq(Mutations) /\ Len(lowered) = Len(mutation)
  <2>1. lowered = [k \in DOMAIN mutation |-> lowered[k]] /\ DOMAIN lowered = DOMAIN mutation
    OBVIOUS
  <2> HIDE DEF lowered
  <2> QED BY <1>6, <2>1, Renewed
<1>9. DOMAIN lowered = DOMAIN mutation
  OBVIOUS
<1> HIDE DEF lowered, new
<1>10. /\ mutation' \in Seq(Mutations) /\ Len(mutation') = n
       /\ mutation'[n] = new /\ \A k \in DOMAIN mutation : mutation'[k] = lowered[k]
  BY <1>1, <1>2, <1>7, <1>8
<1>11. DOMAIN mutation' = DOMAIN mutation \cup {n} /\ n \notin DOMAIN mutation
  BY <1>1, <1>10
<1> QED BY <1>3, <1>6, <1>7, <1>10, <1>11 DEF Joined

\* Only the step of a change that is answered or fails is another.
LEMMA ClosingMoves ==
    ASSUME TypeOK, NEW k \in DOMAIN mutation, NEW step \in {"lost", "over"},
           mutation' = [mutation EXCEPT ![k].step = step]
    PROVE  Moves(k, step)
<1>1. /\ \A j \in DOMAIN mutation : mutation[j] \in Mutations
  BY MutationTyped
<1>2. /\ mutation' = [j \in DOMAIN mutation |-> mutation'[j]]
      /\ DOMAIN mutation' = DOMAIN mutation
      /\ \A j \in DOMAIN mutation : j # k => mutation'[j] = mutation[j]
      /\ mutation'[k] = [mutation[k] EXCEPT !.step = step]
  BY MutationTyped
<1>3. mutation'[k] \in Mutations /\ Follows(mutation'[k], mutation[k])
      /\ mutation'[k].done = mutation[k].done /\ mutation'[k].step = step
  BY <1>1, <1>2 DEF Mutations, Follows
<1> QED BY <1>1, <1>2, <1>3, Renewed DEF Moves

\* A change that is done follows what it was.
LEMMA DoneFollows ==
    ASSUME NEW m \in Mutations, NEW v \in BOOLEAN, NEW step \in {"sent", "over"},
           step = "sent" => m.step = "sent",
           NEW n, n = [m EXCEPT !.done = TRUE, !.value = v, !.step = step]
    PROVE  n \in Mutations /\ Follows(n, m) /\ n.done /\ n.value = v /\ n.step = step
BY DEF Mutations, Follows

\* The server does one change; what an abandoned one meets is not alone.
LEMMA CommitMoves ==
    ASSUME TypeOK, NEW k \in DOMAIN mutation, Commit(k)
    PROVE  /\ mutation' \in Seq(Mutations) /\ DOMAIN mutation' = DOMAIN mutation
           /\ \A j \in DOMAIN mutation : j # k =>
                /\ Alike(mutation'[j], mutation[j])
                /\ mutation[k].step = "lost" /\ mutation[j].step = "sent"
                   /\ Overlap(mutation[j], mutation[k]) => ~mutation'[j].alone
           /\ Follows(mutation'[k], mutation[k]) /\ mutation'[k].done
           /\ mutation'[k].step = IF mutation[k].step = "lost" THEN "over" ELSE "sent"
           /\ mutation[k].kind \in {"reset", "complete"} =>
                mutation'[k].value = (mutation[k].pack \in progress')
<1> DEFINE m == mutation[k]
           lost == m.step = "lost"
           met == IF lost THEN {j \in Sent : Overlap(mutation[j], m)} ELSE {}
           value == IF m.kind \in {"reset", "complete"} THEN m.pack \in progress' ELSE m.value
           step == IF lost THEN "over" ELSE m.step
<1>1. \A j \in DOMAIN mutation : mutation[j] \in Mutations
  BY MutationTyped
<1>2. mutation' = [j \in DOMAIN mutation |->
                     IF j # k THEN [mutation[j] EXCEPT !.alone = @ /\ j \notin met]
                     ELSE [m EXCEPT !.done = TRUE, !.value = value, !.step = step]]
  BY Zenon DEF Commit
<1>3. /\ DOMAIN mutation' = DOMAIN mutation
      /\ mutation' = [j \in DOMAIN mutation |-> mutation'[j]]
      /\ mutation'[k] = [m EXCEPT !.done = TRUE, !.value = value, !.step = step]
      /\ \A j \in DOMAIN mutation : j # k =>
           mutation'[j] = [mutation[j] EXCEPT !.alone = mutation[j].alone /\ j \notin met]
  BY <1>2, Zenon
<1>4. /\ value \in BOOLEAN /\ step \in {"sent", "over"}
      /\ m.kind \in {"reset", "complete"} => value = (m.pack \in progress')
      /\ step = IF lost THEN "over" ELSE "sent"
  <2>1. (m.pack \in progress') \in BOOLEAN
    OBVIOUS
  <2>2. m.value \in BOOLEAN /\ m.step \in {"sent", "lost", "over"} /\ m.step # "over"
    BY <1>1 DEF Mutations, Commit
  <2>3. step \in {"sent", "over"} /\ step = IF lost THEN "over" ELSE "sent"
    BY <2>2
  <2> QED BY <2>1, <2>2, <2>3, Zenon
<1>5. \A j \in DOMAIN mutation : lost /\ mutation[j].step = "sent" /\ Overlap(mutation[j], m) => j \in met
  BY DEF Sent
<1> HIDE DEF met, value, step
<1>6. \A j \in DOMAIN mutation : j # k =>
        /\ mutation'[j] \in Mutations /\ Alike(mutation'[j], mutation[j])
        /\ j \in met => ~mutation'[j].alone
  <2> SUFFICES ASSUME NEW j \in DOMAIN mutation, j # k
               PROVE  /\ mutation'[j] \in Mutations /\ Alike(mutation'[j], mutation[j])
                      /\ j \in met => ~mutation'[j].alone
    OBVIOUS
  <2>1. CASE j \in met
    <3>1. mutation'[j] = [mutation[j] EXCEPT !.alone = FALSE]
      BY <1>3, <2>1
    <3> QED BY <1>1, <2>1, <3>1, JoinedIsAlike
  <2>2. CASE j \notin met
    <3>1. mutation'[j] = [mutation[j] EXCEPT !.alone = mutation[j].alone]
      BY <1>1, <1>3, <2>2 DEF Mutations
    <3> QED BY <1>1, <2>2, <3>1, MutationFields, JoinedIsAlike
  <2> QED BY <2>1, <2>2
<1>7. /\ mutation'[k] \in Mutations /\ Follows(mutation'[k], m)
      /\ mutation'[k].done /\ mutation'[k].value = value /\ mutation'[k].step = step
  <2>1. m \in Mutations /\ (step = "sent" => m.step = "sent")
    BY <1>1, <1>4 DEF Mutations, Commit
  <2>2. value \in BOOLEAN /\ step \in {"sent", "over"}
    BY <1>4, Zenon
  <2>3. mutation'[k] = [m EXCEPT !.done = TRUE, !.value = value, !.step = step]
    BY <1>3, Zenon
  <2> HIDE DEF m
  <2> HIDE DEF step
  <2> DEFINE n == mutation'[k]
  <2>4. n = [m EXCEPT !.done = TRUE, !.value = value, !.step = step]
    BY <2>3
  <2> HIDE DEF n
  <2>5. n \in Mutations /\ Follows(n, m) /\ n.done /\ n.value = value /\ n.step = step
    BY <2>1, <2>2, <2>4, DoneFollows, ZenonT(30)
  <2> QED BY <2>5 DEF n
<1>8. mutation' \in Seq(Mutations)
  BY <1>1, <1>3, <1>6, <1>7, Renewed
<1> QED BY <1>3, <1>4, <1>5, <1>6, <1>7, <1>8

-----------------------------------------------------------------------------
(* Steps that leave the server as it is.                                   *)

\* What S must be for Right(S) after the step.
RightNext(S) ==
    /\ Settled' => S = {View'}
    /\ IsDetail' /\ Unmoved' => \E d \in ViewsOf(key') : S = {d} /\ d[1] = (key'[2] \in on')

\* What a change touches and meets depends on its kind and its pack.
LEMMA TouchedAlike ==
    \A a, b : a.kind = b.kind /\ a.pack = b.pack =>
        Touched(a) = Touched(b) /\ \A c : Overlap(a, c) = Overlap(b, c) /\ Overlap(c, a) = Overlap(c, b)
BY DEF Touched, Overlap

\* Changes that meet, meet each other.
LEMMA OverlapBothWays == \A a, b : Overlap(a, b) = Overlap(b, a)
BY DEF Overlap

\* A change that is alike is as much unsettled.
LEMMA UnsettledAlike ==
    ASSUME NEW a, NEW b, a.kind = b.kind, a.pack = b.pack, a.done = b.done, a.step = b.step
    PROVE  (Unsettled(a) <=> Unsettled(b)) /\ (Moved(a) <=> Moved(b))
BY TouchedAlike DEF Unsettled, Moved

\* The same after a step that keeps the key.
LEMMA UnsettledNext ==
    ASSUME key' = key, mutation' \in Seq(Mutations)
    PROVE  /\ Settled' <=> \A k \in DOMAIN mutation' : ~Unsettled(mutation'[k])
           /\ Unmoved' <=> \A k \in DOMAIN mutation' : ~Moved(mutation'[k])
           /\ IsDetail' <=> IsDetail
BY DEF Settled, Unmoved, Unsettled, Moved, Touched, IsDetail, Library, Bench, Detail

\* As long as the client has no less to learn, what was right is right.
LEMMA RightKept ==
    ASSUME key' = key, on' = on, progress' = progress, Settled' => Settled, Unmoved' => Unmoved,
           NEW S, Right(S)
    PROVE  RightNext(S)
BY DEF Right, RightNext, IsDetail, View, LibraryView, BenchView, DetailView, ViewsOf

\* No change that is alike or new settles anything.
LEMMA NothingSettles ==
    ASSUME key' = key, mutation' \in Seq(Mutations), DOMAIN mutation \subseteq DOMAIN mutation',
           \A k \in DOMAIN mutation : Alike(mutation'[k], mutation[k])
    PROVE  (Settled' => Settled) /\ (Unmoved' => Unmoved)
BY UnsettledNext, UnsettledAlike DEF Settled, Unmoved, Alike

\* What no step of the server or the client alters of the changes.
LEMMA OthersKept ==
    ASSUME PacksOfKinds, AloneIsAlone, RollsBackLibrary, key' = key,
           DOMAIN mutation' = DOMAIN mutation,
           \A k \in DOMAIN mutation : Follows(mutation'[k], mutation[k])
    PROVE  PacksOfKinds' /\ AloneIsAlone' /\ RollsBackLibrary'
<1>1. PacksOfKinds'
  BY DEF PacksOfKinds, Follows
<1>2. RollsBackLibrary'
  BY DEF RollsBackLibrary, Follows, Library
<1>3. AloneIsAlone'
  <2> SUFFICES ASSUME NEW j \in DOMAIN mutation, NEW k \in DOMAIN mutation, j # k,
                      mutation'[j].step = "sent", mutation'[k].step = "sent", mutation'[j].alone
               PROVE  ~Overlap(mutation'[j], mutation'[k])
    BY DEF AloneIsAlone, Overlap, Touched, Library, Bench, Detail
  <2>1. ~Overlap(mutation[j], mutation[k])
    BY DEF AloneIsAlone, Follows
  <2> QED BY <2>1, TouchedAlike DEF Follows
<1> QED BY <1>1, <1>2, <1>3

\* What the entry must be for the invariant after a step.
EntryRight ==
    /\ entry'.valid /\ ~entry'.doubt => RightNext(entry'.data)
    /\ entry'.step = "answered" /\ ~entry'.old => RightNext(entry'.answer)

\* That it is.
LEMMA EntryRightNext ==
    ASSUME EntryRight
    PROVE  DataIsRight' /\ AnswerIsRight'
BY DEF EntryRight, RightNext, DataIsRight, AnswerIsRight, Right

\* An empty entry stays so.
StaysEmpty == Empty => Empty'

\* A step that neither asks nor alters a change, but may alter the entry.
LEMMA SameKeeps ==
    ASSUME Inv, TypeOK', Shape', Same, UNCHANGED <<server, key>>, EntryRight,
           (\E p \in OwnedPacks : key = Detail(p) /\ p \notin on) => StaysEmpty,
           ToggleIsAlone', OptimismHolds'
    PROVE  Inv'
<1>1. key' = key /\ on' = on /\ progress' = progress
  BY DEF server
<1>2. /\ mutation' \in Seq(Mutations) /\ DOMAIN mutation' = DOMAIN mutation
      /\ \A k \in DOMAIN mutation :
           Alike(mutation'[k], mutation[k]) /\ Follows(mutation'[k], mutation[k])
  BY DEF Same, Alike, Follows
<1>3. PacksOfKinds' /\ AloneIsAlone' /\ RollsBackLibrary'
  BY <1>1, <1>2, OthersKept DEF Inv
<1>4. ValueIsProgress'
  BY <1>1, <1>2 DEF Inv, ValueIsProgress, Alike
<1>5. NothingUnsaved'
  <2> SUFFICES ASSUME NEW p \in OwnedPacks, key = Detail(p), p \notin on,
                      \A k \in DOMAIN mutation : mutation'[k].pack # p
               PROVE  Empty'
    BY <1>1, <1>2 DEF NothingUnsaved, Detail
  <2>1. \A k \in DOMAIN mutation : mutation[k].pack # p
    BY <1>2 DEF Alike
  <2> QED BY <2>1 DEF Inv, NothingUnsaved, StaysEmpty
<1>6. SavesAreNew'
  <2> SUFFICES ASSUME NEW k \in DOMAIN mutation, mutation'[k].kind = "save"
               PROVE  /\ \A j \in DOMAIN mutation :
                           j # k /\ mutation'[j].kind = "save" =>
                             mutation'[j].pack # mutation'[k].pack
                      /\ ~mutation'[k].done /\ key = Detail(mutation'[k].pack) =>
                           Empty' /\ mutation'[k].pack \notin on
    BY <1>1, <1>2 DEF SavesAreNew, Detail
  <2>1. mutation[k].kind = "save" /\ mutation[k].pack \in OwnedPacks
    BY <1>2 DEF Alike, Inv, PacksOfKinds
  <2>2. \A j \in DOMAIN mutation :
          j # k /\ mutation'[j].kind = "save" => mutation'[j].pack # mutation'[k].pack
    BY <1>2, <2>1 DEF Inv, SavesAreNew, Alike
  <2>3. ASSUME ~mutation'[k].done, key = Detail(mutation'[k].pack)
        PROVE  Empty' /\ mutation'[k].pack \notin on
    <3>1. ~mutation[k].done /\ mutation'[k].pack = mutation[k].pack
      BY <1>2, <2>3 DEF Alike
    <3>2. Empty /\ mutation[k].pack \notin on
      BY <2>1, <2>3, <3>1 DEF Inv, SavesAreNew
    <3> QED BY <2>1, <2>3, <3>1, <3>2 DEF StaysEmpty
  <2> QED BY <2>2, <2>3
<1> QED BY <1>3, <1>4, <1>5, <1>6, EntryRightNext DEF Inv

\* A toggle stays shown as long as the data does.
LEMMA OptimismKept ==
    ASSUME Inv, Same, key' = key, entry'.data = entry.data
    PROVE  OptimismHolds'
BY DEF Inv, OptimismHolds, Same, Alike, Sent, Library

\* No toggle is alone while the query runs, if it is not asked now.
LEMMA AloneKept ==
    ASSUME Inv, Same, key' = key, Running(entry)' => Running(entry)
    PROVE  ToggleIsAlone'
BY DEF Inv, ToggleIsAlone, Same, Alike, Library, Running

\* The queries' types after a step that keeps the key.
LEMMA TypesKept ==
    ASSUME key' = key
    PROVE  /\ Entries' = Entries /\ ViewsOf(key)' = ViewsOf(key)
           /\ \A S : (S = {} \/ \E d \in ViewsOf(key) : S = {d}) <=> OneAtMost(S)
           /\ OneAtMost(entry.data)' <=> OneAtMost(entry'.data)
           /\ OneAtMost(entry.answer)' <=> OneAtMost(entry'.answer)
BY DEF Entries, ViewsOf, OneAtMost, Packs, Library, Bench

\* The screen is shown, and the query asked again perhaps.
LEMMA ShowKeeps == Inv /\ Show => Inv'
<1> SUFFICES ASSUME Inv, Show PROVE Inv'
  OBVIOUS
<1> USE DEF Inv
<1>1. Same /\ UNCHANGED <<server, key, failures>> /\ mounted' = TRUE
  BY ShowIsSame DEF Show
<1>2. key' = key /\ on' = on /\ progress' = progress
  BY <1>1 DEF server
<1>3. entry \in Entries
  BY DEF TypeOK
<1>4. /\ entry' \in Entries /\ entry'.data = entry.data /\ entry'.valid = entry.valid
      /\ entry'.doubt = entry.doubt
      /\ entry' = entry \/ (entry'.step = "asked" /\ entry'.answer = {})
  BY <1>3, Fetching DEF Show
<1>5. entry' = entry \/ (\A k \in DOMAIN mutation : ~mutation'[k].alone)
  <2>1. PICK refetch \in {TRUE, entry.data = {} \/ ~entry.valid} :
          /\ entry' = IF refetch THEN Fetch(entry) ELSE entry
          /\ mutation' = [k \in DOMAIN mutation |-> [mutation[k] EXCEPT !.alone = @ /\ ~refetch]]
    BY Zenon DEF Show
  <2>2. CASE ~refetch
    BY <2>1, <2>2
  <2>3. CASE refetch
    <3>1. \A k \in DOMAIN mutation : mutation'[k] = [mutation[k] EXCEPT !.alone = FALSE]
      BY <2>1, <2>3
    <3>2. \A k \in DOMAIN mutation : ~mutation'[k].alone
      BY <3>1, MutationTyped, JoinedIsAlike, ZenonT(30)
    <3> QED BY <3>2
  <2> QED BY <2>2, <2>3
<1>6. TypeOK' /\ Shape'
  BY <1>1, <1>2, <1>4, TypesKept DEF TypeOK, Shape, Same, OneAtMost
<1>7. EntryRight
  <2>1. (Settled' => Settled) /\ (Unmoved' => Unmoved)
    BY <1>1, <1>2, NothingSettles DEF Same
  <2> QED BY <1>2, <1>4, <2>1, RightKept DEF EntryRight, DataIsRight, AnswerIsRight
<1>8. StaysEmpty
  BY <1>4 DEF StaysEmpty, Empty
<1>9. ToggleIsAlone' /\ OptimismHolds'
  <2>1. CASE entry' = entry
    BY <1>1, <1>2, <2>1, AloneKept, OptimismKept
  <2>2. CASE \A k \in DOMAIN mutation : ~mutation'[k].alone
    BY <1>1, <2>2 DEF ToggleIsAlone, OptimismHolds, Sent, Same
  <2> QED BY <1>5, <2>1, <2>2
<1> QED BY <1>1, <1>6, <1>7, <1>8, <1>9, SameKeeps

\* The screen is left.
LEMMA LeaveKeeps == Inv /\ Leave => Inv'
<1> SUFFICES ASSUME Inv, Leave PROVE Inv'
  OBVIOUS
<1> USE DEF Inv
<1>1. /\ UNCHANGED <<server, key, entry, mutation, failures>> /\ mounted' = FALSE
      /\ key' = key /\ on' = on /\ progress' = progress /\ entry' = entry /\ mutation' = mutation
  BY DEF Leave, server
<1>2. Same
  BY <1>1, NothingIsSame
<1>3. TypeOK' /\ Shape'
  BY <1>1, TypesKept DEF TypeOK, Shape
<1>4. EntryRight
  <2>1. (Settled' => Settled) /\ (Unmoved' => Unmoved)
    BY <1>1, <1>2, NothingSettles DEF Same
  <2> QED BY <1>1, <2>1, RightKept DEF EntryRight, DataIsRight, AnswerIsRight
<1>5. StaysEmpty /\ ToggleIsAlone' /\ OptimismHolds'
  BY <1>1, <1>2, AloneKept, OptimismKept DEF StaysEmpty, Empty
<1> QED BY <1>1, <1>2, <1>3, <1>4, <1>5, SameKeeps

\* The server answers the query: with what it has.
LEMMA AnswerKeeps == Inv /\ Answer => Inv'
<1> SUFFICES ASSUME Inv, Answer PROVE Inv'
  OBVIOUS
<1> USE DEF Inv
<1>1. /\ UNCHANGED <<server, key, mounted, mutation, failures>>
      /\ key' = key /\ on' = on /\ progress' = progress /\ mutation' = mutation
  BY DEF Answer, server
<1>2. Same
  BY <1>1, NothingIsSame
<1>3. entry \in Entries /\ View \in ViewsOf(key)
  BY ViewTyped DEF TypeOK
<1>4. /\ entry' \in Entries /\ entry'.data = entry.data /\ entry'.valid = entry.valid
      /\ entry'.doubt = entry.doubt /\ entry'.old = entry.old
      /\ entry'.step = "answered" /\ entry'.answer = {View}
  <2> HIDE DEF Inv
  <2> QED BY <1>3 DEF Answer, Entries
<1>5. TypeOK' /\ Shape'
  BY <1>1, <1>3, <1>4, TypesKept DEF TypeOK, Shape, OneAtMost
<1>6. EntryRight
  <2>1. (Settled' => Settled) /\ (Unmoved' => Unmoved)
    BY <1>1, <1>2, NothingSettles DEF Same
  <2>2. Right({View})
    <3>1. ASSUME NEW p \in Packs, key = Detail(p)
          PROVE  View[1] = (key[2] \in on)
      <4>1. View = <<p \in on, p \in progress>> /\ key[2] = p
        BY <3>1, ViewTyped, KeysApart
      <4>2. View[1] = (p \in on)
        BY <4>1, Zenon, \A a, b : <<a, b>>[1] = a
      <4> QED BY <4>1, <4>2
    <3> QED BY <1>3, <3>1 DEF Right, IsDetail
  <2> QED BY <1>1, <1>4, <2>1, <2>2, RightKept DEF EntryRight, DataIsRight
<1>7. (\E p \in OwnedPacks : key = Detail(p) /\ p \notin on) => FALSE
  BY KeysApart DEF Answer
<1>8. ToggleIsAlone' /\ OptimismHolds'
  BY <1>1, <1>2, <1>4, AloneKept, OptimismKept DEF Running, Answer
<1> QED BY <1>1, <1>2, <1>5, <1>6, <1>7, <1>8, SameKeeps

\* The answer arrives, and is the data from now on.
LEMMA ArriveKeeps == Inv /\ Arrive => Inv'
<1> SUFFICES ASSUME Inv, Arrive PROVE Inv'
  OBVIOUS
<1> USE DEF Inv
<1>1. /\ UNCHANGED <<server, key, mounted, mutation, failures>> /\ entry.step = "answered"
      /\ key' = key /\ on' = on /\ progress' = progress /\ mutation' = mutation
  BY DEF Arrive, server
<1>2. Same
  BY <1>1, NothingIsSame
<1>3. entry \in Entries /\ entry.answer # {} /\ OneAtMost(entry.answer)
  BY <1>1 DEF TypeOK, Shape
<1>4. /\ entry' \in Entries /\ entry'.data = entry.answer /\ entry'.valid = TRUE
      /\ entry'.doubt = entry.old
      /\ entry'.step = "idle" /\ entry'.answer = {}
  <2> HIDE DEF Inv
  <2> QED BY <1>3 DEF Arrive, NoEntry, Entries
<1>5. TypeOK' /\ Shape'
  BY <1>1, <1>3, <1>4, TypesKept DEF TypeOK, Shape, OneAtMost
<1>6. EntryRight
  <2>1. (Settled' => Settled) /\ (Unmoved' => Unmoved)
    BY <1>1, <1>2, NothingSettles DEF Same
  <2> QED BY <1>1, <1>4, <2>1, RightKept DEF EntryRight, AnswerIsRight
<1>7. StaysEmpty
  BY <1>1 DEF StaysEmpty, Empty
<1>8. ToggleIsAlone' /\ OptimismHolds'
  <2>1. Running(entry) /\ ~Running(entry)'
    BY <1>1, <1>4 DEF Running
  <2>2. ToggleIsAlone'
    BY <1>1, <1>2, <2>1, AloneKept
  <2>3. OptimismHolds'
    BY <1>1, <2>1 DEF ToggleIsAlone, OptimismHolds, Sent, Library
  <2> QED BY <2>2, <2>3
<1> QED BY <1>1, <1>2, <1>5, <1>6, <1>7, <1>8, SameKeeps

\* The query fails: nothing comes of it.
LEMMA FailQueryKeeps == Inv /\ FailQuery => Inv'
<1> SUFFICES ASSUME Inv, FailQuery PROVE Inv'
  OBVIOUS
<1> USE DEF Inv
<1>1. /\ UNCHANGED <<server, key, mounted, mutation, failures>>
      /\ key' = key /\ on' = on /\ progress' = progress /\ mutation' = mutation
  BY DEF FailQuery, server
<1>2. Same
  BY <1>1, NothingIsSame
<1>3. entry \in Entries
  BY DEF TypeOK
<1>4. /\ entry' \in Entries /\ entry'.data = entry.data /\ entry'.valid = entry.valid
      /\ entry'.doubt = entry.doubt /\ entry'.step = "idle" /\ entry'.answer = {}
  BY <1>3, Asking DEF FailQuery
<1>5. TypeOK' /\ Shape'
  BY <1>1, <1>3, <1>4, TypesKept DEF TypeOK, Shape, OneAtMost
<1>6. EntryRight
  <2>1. (Settled' => Settled) /\ (Unmoved' => Unmoved)
    BY <1>1, <1>2, NothingSettles DEF Same
  <2> QED BY <1>1, <1>4, <2>1, RightKept DEF EntryRight, DataIsRight
<1>7. StaysEmpty /\ ToggleIsAlone' /\ OptimismHolds'
  BY <1>1, <1>2, <1>4, AloneKept, OptimismKept DEF StaysEmpty, Empty, Running
<1> QED BY <1>1, <1>2, <1>5, <1>6, <1>7, SameKeeps

-----------------------------------------------------------------------------
(* The learner's changes.                                                  *)

\* A new change is a change.
LEMMA PlainTyped ==
    ASSUME NEW kind \in Kinds, NEW p \in Packs, NEW value \in BOOLEAN
    PROVE  LET m == NewMutation(kind, p, value)
           IN  /\ m \in Mutations /\ m.kind = kind /\ m.pack = p /\ m.value = value
               /\ m.previous = {}
               /\ m.step = "sent" /\ ~m.done /\ m.alone
BY DEF NewMutation, Mutations

\* What is known of a change that is sent.
Admitted(m) ==
    /\ m \in Mutations
    /\ m.previous # {} => key = Library
    /\ m.kind \in {"toggle", "set"} => m.pack \in GlobalPacks
    /\ m.kind \in {"save", "remove"} => m.pack \in OwnedPacks
    /\ m.kind = "save" => m.pack \notin on /\ \A k \in DOMAIN mutation : mutation[k].pack # m.pack

\* The entry as it is, or with the pack of a toggle flipped and its request
\* stopped.
Shown(m) ==
    \/ entry' = entry /\ (m.kind = "toggle" => key # Library)
    \/ /\ m.kind = "toggle" /\ key = Library
       /\ entry' \in Entries /\ entry.data # {} /\ entry'.step = "idle" /\ entry'.answer = {}
       /\ \E shown \in ViewsOf(key) : entry'.data = {shown} /\ m.value = (m.pack \in shown)

\* A change of the learner's leaves the server as it is.
Submitted(m) ==
    /\ Admitted(m) /\ Shown(m) /\ Joined(m, Len(mutation) + 1)
    /\ UNCHANGED <<server, key, mounted, failures>>

\* One that does not alter the cache.
LEMMA PlainSubmits ==
    ASSUME TypeOK, NEW kind \in Kinds, NEW p \in Packs, NEW value \in BOOLEAN,
           Sending(NewMutation(kind, p, value)), entry' = entry,
           kind = "toggle" => key # Library,
           kind \in {"toggle", "set"} => p \in GlobalPacks,
           kind \in {"save", "remove"} => p \in OwnedPacks,
           kind = "save" => p \notin on /\ \A k \in DOMAIN mutation : mutation[k].pack # p
    PROVE  Submitted(NewMutation(kind, p, value))
<1> DEFINE m == NewMutation(kind, p, value)
<1>1. /\ m \in Mutations /\ m.kind = kind /\ m.pack = p /\ m.step = "sent" /\ ~m.done /\ m.alone
      /\ m.previous = {}
  BY PlainTyped
<1>2. UNCHANGED <<server, key, mounted, failures>>
  BY DEF Sending
<1> HIDE DEF m
<1>3. Joined(m, Len(mutation) + 1)
  BY <1>1, SendingJoins DEF m
<1>4. Admitted(m) /\ Shown(m)
  BY <1>1 DEF Admitted, Shown
<1>5. Submitted(m)
  BY <1>2, <1>3, <1>4 DEF Submitted
<1> QED BY <1>5 DEF m

\* There is such a change.
LEMMA SomethingSubmitted ==
    ASSUME NEW m, Submitted(m)
    PROVE  \E n \in Mutations : Submitted(n)
BY DEF Submitted, Admitted

\* The kinds of changes.
LEMMA KindsAre == {"toggle", "set", "reset", "complete", "remove", "save"} \subseteq Kinds
BY DEF Kinds

\* Toggles flip what is shown.
LEMMA ToggleSubmits ==
    ASSUME TypeOK, Shape, NEW p \in GlobalPacks, Toggle(p)
    PROVE  \E m \in Mutations : Submitted(m)
<1>0. p \in Packs
  BY KeysApart
<1>1. CASE key # Library
  <2>1. PICK value \in BOOLEAN : Sending(NewMutation("toggle", p, value)) /\ entry' = entry
    BY <1>1 DEF Toggle
  <2>2. Submitted(NewMutation("toggle", p, value))
    BY <1>0, <1>1, <2>1, PlainSubmits DEF Kinds
  <2>3. NewMutation("toggle", p, value) \in Mutations
    BY <1>0, <2>1, PlainTyped DEF Kinds
  <2> QED BY <2>2, <2>3
<1>2. CASE key = Library
  <2>1. PICK shown \in entry.data :
          LET value == p \notin shown
          IN  /\ Sending([NewMutation("toggle", p, value) EXCEPT !.previous = entry.data])
              /\ entry' = Written(Stop(entry), Flipped(shown, p, value))
    BY <1>2, Zenon DEF Toggle
  <2> DEFINE value == p \notin shown
             m == [NewMutation("toggle", p, value) EXCEPT !.previous = entry.data]
             flipped == Flipped(shown, p, value)
  <2>2. Sending(m) /\ entry' = Written(Stop(entry), flipped)
    BY <2>1, Zenon
  <2>3. entry \in Entries /\ ViewsOf(key) = SUBSET GlobalPacks
    <3>1. entry \in Entries
      BY DEF TypeOK
    <3>2. ViewsOf(key) = SUBSET GlobalPacks
      BY <1>2, KeysApart DEF ViewsOf
    <3> QED BY <3>1, <3>2
  <2>4. value \in BOOLEAN /\ entry.data \in SUBSET SUBSET GlobalPacks /\ "toggle" \in Kinds
    BY <2>3, EntryFields DEF Kinds
  <2>5. flipped \in ViewsOf(key) /\ value = (p \in flipped)
    <3>1. shown \in SUBSET GlobalPacks
      BY <2>1, <2>3, EntryFields
    <3>2. CASE p \in shown
      <4>1. value = FALSE
        BY <3>2
      <4>2. flipped = shown \ {p}
        BY <4>1 DEF Flipped
      <4> QED BY <2>3, <3>1, <4>1, <4>2
    <3>3. CASE p \notin shown
      <4>1. value = TRUE
        BY <3>3
      <4>2. flipped = shown \cup {p}
        BY <4>1 DEF Flipped
      <4> QED BY <2>3, <3>1, <4>1, <4>2
    <3> QED BY <3>2, <3>3
  <2> HIDE DEF value, flipped
  <2>15. m = [NewMutation("toggle", p, value) EXCEPT !.previous = entry.data]
    OBVIOUS
  <2> HIDE DEF m
  <2>6. /\ m \in Mutations /\ m.kind = "toggle" /\ m.pack = p /\ m.value = value
        /\ m.step = "sent" /\ ~m.done /\ m.alone
    BY <1>0, <2>4, <2>15 DEF NewMutation, Mutations
  <2>7. Joined(m, Len(mutation) + 1)
    BY <2>2, <2>6, SendingJoins
  <2>8. /\ Stop(entry) \in Entries /\ Stop(entry).data = entry.data /\ Stop(entry).step = "idle"
        /\ Stop(entry).answer = {} /\ entry.data # {}
    BY <2>1, <2>3, Asking
  <2>9. /\ entry' \in Entries /\ entry'.step = "idle" /\ entry'.answer = {}
        /\ entry'.data = {flipped}
    BY <2>2, <2>5, <2>8, Writing
  <2>10. Admitted(m) /\ Shown(m)
    BY <1>2, <2>5, <2>6, <2>8, <2>9 DEF Admitted, Shown
  <2>11. UNCHANGED <<server, key, mounted, failures>>
    BY <2>2 DEF Sending
  <2> QED BY <2>6, <2>7, <2>10, <2>11 DEF Submitted
<1> QED BY <1>1, <1>2

\* And so do all the others.
LEMMA LearnerSubmits ==
    ASSUME TypeOK, Shape, Learner
    PROVE  Show \/ Leave \/ \E m \in Mutations : Submitted(m)
<1>1. ASSUME NEW p \in GlobalPacks, SetEnabled(p) PROVE \E m \in Mutations : Submitted(m)
  <2>1. PICK value \in BOOLEAN : Sending(NewMutation("set", p, value)) /\ entry' = entry
    BY <1>1 DEF SetEnabled, OnPackScreen
  <2>2. p \in Packs /\ "set" \in Kinds
    BY KeysApart, KindsAre
  <2>3. Submitted(NewMutation("set", p, value))
    BY <2>1, <2>2, PlainSubmits
  <2> QED BY <2>3, SomethingSubmitted
<1>2. ASSUME NEW p \in Packs, ResetProgress(p) \/ CompleteActivity(p)
      PROVE  \E m \in Mutations : Submitted(m)
  <2>1. /\ entry' = entry
        /\ \/ Sending(NewMutation("reset", p, FALSE))
           \/ Sending(NewMutation("complete", p, FALSE))
    BY <1>2 DEF ResetProgress, CompleteActivity, OnPackScreen
  <2>2. "reset" \in Kinds /\ "complete" \in Kinds
    BY KindsAre
  <2>3. CASE Sending(NewMutation("reset", p, FALSE))
    <3>1. Submitted(NewMutation("reset", p, FALSE))
      BY <2>1, <2>2, <2>3, PlainSubmits
    <3> QED BY <3>1, SomethingSubmitted
  <2>4. CASE Sending(NewMutation("complete", p, FALSE))
    <3>1. Submitted(NewMutation("complete", p, FALSE))
      BY <2>1, <2>2, <2>4, PlainSubmits
    <3> QED BY <3>1, SomethingSubmitted
  <2> QED BY <2>1, <2>3, <2>4
<1>3. ASSUME NEW p \in OwnedPacks, RemovePack(p) PROVE \E m \in Mutations : Submitted(m)
  <2>1. Sending(NewMutation("remove", p, FALSE)) /\ entry' = entry
    BY <1>3 DEF RemovePack, OnPackScreen
  <2>2. p \in Packs /\ "remove" \in Kinds
    BY KeysApart, KindsAre
  <2>3. Submitted(NewMutation("remove", p, FALSE))
    BY <2>1, <2>2, PlainSubmits
  <2> QED BY <2>3, SomethingSubmitted
<1>4. ASSUME NEW p \in OwnedPacks, SavePack(p) PROVE \E m \in Mutations : Submitted(m)
  <2>1. /\ Sending(NewMutation("save", p, FALSE)) /\ entry' = entry
        /\ p \notin on /\ \A k \in DOMAIN mutation : mutation[k].pack # p
    BY <1>4 DEF SavePack
  <2>2. p \in Packs /\ "save" \in Kinds
    BY KeysApart, KindsAre
  <2>3. Submitted(NewMutation("save", p, FALSE))
    BY <2>1, <2>2, PlainSubmits
  <2> QED BY <2>3, SomethingSubmitted
<1> QED BY <1>1, <1>2, <1>3, <1>4, ToggleSubmits DEF Learner

\* A change that is sent keeps the invariant: what it is shown to do counts as
\* unsettled, and what it meets is not alone from now on.
LEMMA SubmittedKeeps == ASSUME Inv, NEW m \in Mutations, Submitted(m) PROVE Inv'
<1> USE DEF Inv
<1> DEFINE n == Len(mutation) + 1
<1>1. /\ Admitted(m) /\ Shown(m) /\ Joined(m, n) /\ UNCHANGED <<server, key, mounted, failures>>
      /\ key' = key /\ on' = on /\ progress' = progress
  BY DEF Submitted, server
<1> HIDE DEF n
<1>2. /\ mutation' \in Seq(Mutations) /\ DOMAIN mutation' = DOMAIN mutation \cup {n}
      /\ n \notin DOMAIN mutation
      /\ \A k \in DOMAIN mutation : Alike(mutation'[k], mutation[k])
      /\ mutation'[n].kind = m.kind /\ mutation'[n].pack = m.pack
      /\ mutation'[n].value = m.value /\ mutation'[n].previous = m.previous
      /\ mutation'[n].step = "sent" /\ ~mutation'[n].done
      /\ \A k \in DOMAIN mutation :
           mutation[k].step = "sent" /\ Overlap(mutation[k], m) =>
             ~mutation'[k].alone /\ ~mutation'[n].alone
  BY <1>1 DEF Joined, Alike
<1>3. entry \in Entries
  BY DEF TypeOK
<1>4. TypeOK' /\ Shape'
  <2>1. CASE entry' = entry
    BY <1>1, <1>2, <2>1, TypesKept DEF TypeOK, Shape
  <2>2. CASE entry' # entry
    BY <1>1, <1>2, <2>2, TypesKept DEF TypeOK, Shape, Shown, OneAtMost
  <2> QED BY <2>1, <2>2
<1>5. PacksOfKinds' /\ RollsBackLibrary'
  <2>1. PacksOfKinds'
    BY <1>1, <1>2 DEF PacksOfKinds, Admitted, Alike
  <2>2. RollsBackLibrary'
    BY <1>1, <1>2 DEF RollsBackLibrary, Admitted, Alike, Library
  <2> QED BY <2>1, <2>2
<1>6. AloneIsAlone'
  <2> SUFFICES ASSUME NEW j \in DOMAIN mutation', NEW k \in DOMAIN mutation', j # k,
                      mutation'[j].step = "sent", mutation'[k].step = "sent", mutation'[j].alone
               PROVE  ~Overlap(mutation'[j], mutation'[k])
    BY DEF AloneIsAlone, Overlap, Touched, Library, Bench, Detail
  <2>1. CASE j # n /\ k # n
    <3>1. ~Overlap(mutation[j], mutation[k])
      BY <1>2, <2>1 DEF AloneIsAlone, Alike
    <3> QED BY <1>2, <2>1, <3>1, TouchedAlike DEF Alike
  <2>2. CASE j = n
    <3>1. k \in DOMAIN mutation /\ ~Overlap(mutation[k], m)
      BY <1>2, <2>2 DEF Alike
    <3>2. ~Overlap(m, mutation[k])
      BY <3>1, OverlapBothWays
    <3> QED BY <1>2, <2>2, <3>1, <3>2, TouchedAlike DEF Alike
  <2>3. CASE k = n
    <3>1. j \in DOMAIN mutation /\ ~Overlap(mutation[j], m)
      BY <1>2, <2>3 DEF Alike
    <3> QED BY <1>2, <2>3, <3>1, TouchedAlike DEF Alike
  <2> QED BY <2>1, <2>2, <2>3
<1>7. ValueIsProgress'
  BY <1>1, <1>2 DEF ValueIsProgress, Alike
<1>8. EntryRight
  <2>1. CASE entry' = entry
    <3>1. (Settled' => Settled) /\ (Unmoved' => Unmoved)
      BY <1>1, <1>2, NothingSettles
    <3> QED BY <1>1, <2>1, <3>1, RightKept DEF EntryRight, DataIsRight, AnswerIsRight
  <2>2. CASE entry' # entry
    <3>1. m.kind = "toggle" /\ key = Library /\ entry'.step = "idle"
      BY <1>1, <2>2 DEF Shown
    <3>2. Unsettled(mutation'[n])
      BY <1>2, <3>1 DEF Unsettled, Touched
    <3>3. ~Settled'
      BY <1>1, <1>2, <3>2, UnsettledNext
    <3>4. m.pack \in Packs /\ ~IsDetail'
      BY <1>1, <1>2, <3>1, KeysApart, UnsettledNext, MutationFields DEF IsDetail
    <3> QED BY <3>1, <3>3, <3>4 DEF EntryRight, RightNext
  <2> QED BY <2>1, <2>2
<1>9. \A p \in OwnedPacks : key = Detail(p) => entry' = entry
  BY <1>1, KeysApart DEF Shown
<1>10. NothingUnsaved'
  <2> SUFFICES ASSUME NEW p \in OwnedPacks, key = Detail(p), p \notin on,
                      \A k \in DOMAIN mutation' : mutation'[k].pack # p
               PROVE  Empty'
    BY <1>1 DEF NothingUnsaved, Detail
  <2>1. \A k \in DOMAIN mutation : mutation[k].pack # p
    BY <1>2 DEF Alike
  <2>2. Empty
    BY <2>1 DEF NothingUnsaved
  <2> QED BY <1>9, <2>2 DEF Empty
<1>11. SavesAreNew'
  <2> SUFFICES ASSUME NEW k \in DOMAIN mutation', mutation'[k].kind = "save"
               PROVE  /\ \A j \in DOMAIN mutation' :
                           j # k /\ mutation'[j].kind = "save" =>
                             mutation'[j].pack # mutation'[k].pack
                      /\ ~mutation'[k].done /\ key = Detail(mutation'[k].pack) =>
                           Empty' /\ mutation'[k].pack \notin on
    BY <1>1 DEF SavesAreNew, Detail
  <2>1. \A j \in DOMAIN mutation' :
          j # k /\ mutation'[j].kind = "save" => mutation'[j].pack # mutation'[k].pack
    <3>1. \A i, j \in DOMAIN mutation : i # j /\ mutation[i].kind = "save" /\ mutation[j].kind = "save"
                                          => mutation[i].pack # mutation[j].pack
      BY DEF SavesAreNew
    <3>2. m.kind = "save" => \A i \in DOMAIN mutation : mutation[i].pack # m.pack
      BY <1>1 DEF Admitted
    <3> QED BY <1>2, <3>1, <3>2 DEF Alike
  <2>2. ASSUME ~mutation'[k].done, key = Detail(mutation'[k].pack)
        PROVE  Empty' /\ mutation'[k].pack \notin on
    <3>1. CASE k = n
      <4>1. m.pack \in OwnedPacks /\ m.pack \notin on /\ \A i \in DOMAIN mutation : mutation[i].pack # m.pack
        BY <1>1, <1>2, <3>1 DEF Admitted
      <4>2. Empty /\ entry' = entry
        BY <1>2, <1>9, <2>2, <3>1, <4>1 DEF NothingUnsaved
      <4> QED BY <1>2, <3>1, <4>1, <4>2 DEF Empty
    <3>2. CASE k # n
      <4>1. /\ k \in DOMAIN mutation /\ mutation[k].kind = "save" /\ ~mutation[k].done
            /\ mutation'[k].pack = mutation[k].pack
        BY <1>2, <2>2, <3>2 DEF Alike
      <4>2. Empty /\ mutation[k].pack \notin on /\ mutation[k].pack \in OwnedPacks
        BY <2>2, <4>1 DEF SavesAreNew, PacksOfKinds
      <4> QED BY <1>9, <2>2, <4>1, <4>2 DEF Empty
    <3> QED BY <3>1, <3>2
  <2> QED BY <2>1, <2>2
<1>12. ToggleIsAlone'
  <2>1. CASE entry' = entry
    BY <1>1, <1>2, <2>1 DEF ToggleIsAlone, Shown, Running, Alike, Library
  <2>2. CASE entry' # entry
    BY <1>1, <2>2 DEF ToggleIsAlone, Shown, Running
  <2> QED BY <2>1, <2>2
<1>13. OptimismHolds'
  <2>1. CASE entry' = entry
    BY <1>1, <1>2, <2>1 DEF OptimismHolds, Sent, Shown, Alike, Library
  <2>2. CASE entry' # entry
    <3>1. /\ m.kind = "toggle" /\ key = Library
          /\ \E shown \in ViewsOf(key) : entry'.data = {shown} /\ m.value = (m.pack \in shown)
      BY <1>1, <2>2 DEF Shown
    <3>2. \A k \in DOMAIN mutation :
            mutation[k].kind = "toggle" /\ mutation[k].step = "sent" => ~mutation'[k].alone
      <4> SUFFICES ASSUME NEW k \in DOMAIN mutation, mutation[k].kind = "toggle",
                          mutation[k].step = "sent"
                   PROVE  Overlap(mutation[k], m)
        BY <1>2
      <4>1. Library \in Touched(mutation[k]) /\ Library \in Touched(m)
        BY <3>1 DEF Touched
      <4> QED BY <4>1, KeysApart DEF Overlap
    <3> SUFFICES ASSUME NEW k \in DOMAIN mutation', mutation'[k].step = "sent",
                        mutation'[k].kind = "toggle", mutation'[k].alone,
                        NEW shown \in entry'.data
                 PROVE  mutation'[k].value = (mutation'[k].pack \in shown)
      BY DEF OptimismHolds, Sent
    <3>3. k = n
      BY <1>2, <3>2 DEF Alike
    <3>4. m.value = (m.pack \in shown)
      BY <3>1
    <3> QED BY <1>2, <3>3, <3>4, Zenon
  <2> QED BY <2>1, <2>2
<1> QED BY <1>4, <1>5, <1>6, <1>7, <1>8, <1>10, <1>11, <1>12, <1>13, EntryRightNext

-----------------------------------------------------------------------------
(* What the server does.                                                   *)

\* A change alters its pack alone, and a part of it.
LEMMA Doing ==
    ASSUME TypeOK, NEW m \in Mutations, Do(m),
           m.kind \in {"toggle", "set"} => m.pack \in GlobalPacks,
           m.kind \in {"save", "remove"} => m.pack \in OwnedPacks
    PROVE  /\ on' \in SUBSET Packs /\ progress' \in SUBSET Packs
           /\ \A p : p # m.pack => (p \in on' <=> p \in on) /\ (p \in progress' <=> p \in progress)
           /\ m.kind \in {"reset", "complete"} => on' = on
           /\ m.kind \notin {"toggle", "set", "save"} => on' \subseteq on
           /\ m.kind \notin {"toggle", "set"} => on' \cap GlobalPacks = on \cap GlobalPacks
<1>1. /\ on \subseteq Packs /\ progress \subseteq Packs /\ m.pack \in Packs
      /\ m.kind \in Kinds
  BY MutationFields DEF TypeOK
<1>2. /\ m.kind \in {"toggle", "set"} =>
           on' = (IF m.value THEN on \cup {m.pack} ELSE on \ {m.pack}) /\ progress' = progress
      /\ m.kind = "save" => on' = on \cup {m.pack} /\ progress' = progress
      /\ m.kind = "remove" => on' = on \ {m.pack} /\ progress' = progress \ {m.pack}
      /\ m.kind = "reset" => on' = on /\ progress' = progress \ {m.pack}
      /\ m.kind = "complete" => on' = on /\ progress' = progress \cup {m.pack}
  BY DEF Do
<1>3. CASE m.kind \in {"toggle", "set"}
  BY <1>1, <1>2, <1>3
<1>4. CASE m.kind \in {"reset", "complete"}
  BY <1>1, <1>2, <1>4
<1>5. CASE m.kind \in {"save", "remove"}
  <2>1. m.pack \notin GlobalPacks
    BY <1>5, KeysApart
  <2> QED BY <1>1, <1>2, <1>5, <2>1
<1> QED BY <1>1, <1>3, <1>4, <1>5 DEF Kinds

\* A query that a change does not touch shows what it did.
LEMMA UntouchedView ==
    ASSUME TypeOK, NEW m \in Mutations, Do(m), key' = key, key \notin Touched(m),
           m.kind \in {"toggle", "set"} => m.pack \in GlobalPacks,
           m.kind \in {"save", "remove"} => m.pack \in OwnedPacks
    PROVE  View' = View /\ \A p \in Packs : key = Detail(p) => (p \in on' <=> p \in on)
<1>1. key \in Keys /\ key # Bench /\ key # Detail(m.pack)
  BY DEF TypeOK, Touched
<1>2. CASE key = Library
  <2>1. m.kind \notin {"toggle", "set"}
    BY <1>2 DEF Touched
  <2>2. on' \cap GlobalPacks = on \cap GlobalPacks
    BY <2>1, Doing
  <2> QED BY <1>2, <2>2, KeysApart DEF View, LibraryView, Library
<1>3. CASE key # Library
  <2>1. PICK p \in Packs : key = Detail(p)
    BY <1>1, <1>3 DEF Keys
  <2>2. p # m.pack
    BY <1>1, <2>1
  <2>3. (p \in on' <=> p \in on) /\ (p \in progress' <=> p \in progress)
    BY <2>2, Doing
  <2>4. View = <<p \in on, p \in progress>> /\ View' = <<p \in on', p \in progress'>>
    BY <1>1, <1>3, <2>1, KeysApart DEF View, DetailView, Detail, Library, Bench
  <2>5. (p \in on') = (p \in on) /\ (p \in progress') = (p \in progress)
    BY <2>3
  <2>6. View' = View
    BY <2>4, <2>5, Zenon
  <2>7. \A q \in Packs : key = Detail(q) => q = p
    BY <2>1, KeysApart
  <2> QED BY <2>3, <2>6, <2>7
<1> QED BY <1>2, <1>3

\* The client has not less to learn of a change that is done.
LEMMA DoneSettlesNothing ==
    ASSUME TypeOK, NEW k \in DOMAIN mutation, ~mutation[k].done, key' = key,
           mutation' \in Seq(Mutations), DOMAIN mutation' = DOMAIN mutation,
           \A j \in DOMAIN mutation : j # k => Alike(mutation'[j], mutation[j])
    PROVE  /\ Unmoved' => Unmoved
           /\ key \notin Touched(mutation[k]) => (Settled' => Settled)
<1>1. \A j \in DOMAIN mutation : j # k =>
        /\ Unsettled(mutation'[j]) <=> Unsettled(mutation[j])
        /\ Moved(mutation'[j]) <=> Moved(mutation[j])
  BY UnsettledAlike DEF Alike
<1>2. ~Moved(mutation[k]) /\ (key \notin Touched(mutation[k]) => ~Unsettled(mutation[k]))
  BY DEF Moved, Unsettled
<1> QED BY <1>1, <1>2, UnsettledNext DEF Settled, Unmoved

\* A change that is done keeps the invariant.
LEMMA CommitKeeps == ASSUME Inv, NEW k \in DOMAIN mutation, Commit(k) PROVE Inv'
<1> USE DEF Inv
<1> DEFINE m == mutation[k]
<1>1. /\ m \in Mutations /\ m.step \in {"sent", "lost"} /\ ~m.done /\ Do(m)
      /\ UNCHANGED <<key, mounted, failures>> /\ key' = key
      /\ m.step = "lost" /\ key \in Touched(m) => entry' = Doubted(entry)
      /\ ~(m.step = "lost" /\ key \in Touched(m)) => entry' = entry
      /\ m.kind \in {"toggle", "set"} => m.pack \in GlobalPacks
      /\ m.kind \in {"save", "remove"} => m.pack \in OwnedPacks
      /\ m.kind \in Kinds /\ m.pack \in Packs
  <2>1. m \in Mutations /\ PacksOfKinds
    BY MutationTyped
  <2> QED BY <2>1, MutationFields DEF Commit, PacksOfKinds
<1>2. /\ mutation' \in Seq(Mutations) /\ DOMAIN mutation' = DOMAIN mutation
      /\ \A j \in DOMAIN mutation : j # k =>
           /\ Alike(mutation'[j], mutation[j])
           /\ m.step = "lost" /\ mutation[j].step = "sent" /\ Overlap(mutation[j], m) =>
                ~mutation'[j].alone
      /\ Follows(mutation'[k], m) /\ mutation'[k].done
      /\ mutation'[k].step = IF m.step = "lost" THEN "over" ELSE "sent"
  BY CommitMoves
<1>3. m.kind \in {"reset", "complete"} => mutation'[k].value = (m.pack \in progress')
  BY CommitMoves
<1> HIDE DEF m
<1>4. /\ on' \in SUBSET Packs /\ progress' \in SUBSET Packs
      /\ \A p : p # m.pack => (p \in on' <=> p \in on) /\ (p \in progress' <=> p \in progress)
      /\ m.kind \in {"reset", "complete"} => on' = on
      /\ m.kind \notin {"toggle", "set", "save"} => on' \subseteq on
  BY <1>1, Doing
<1>5. /\ entry \in Entries /\ entry' \in Entries /\ entry'.data = entry.data
      /\ entry'.valid = entry.valid /\ entry'.step = entry.step /\ entry'.answer = entry.answer
      /\ \/ entry' = entry
         \/ m.step = "lost" /\ key \in Touched(m) /\ entry'.doubt /\ entry'.old = (entry.step # "idle")
  <2>1. entry \in Entries
    BY DEF TypeOK
  <2> QED BY <1>1, <2>1, Doubting
<1>6. \A j \in DOMAIN mutation : Follows(mutation'[j], mutation[j])
  BY <1>2 DEF Alike, Follows, m
<1>7. TypeOK' /\ Shape'
  BY <1>1, <1>2, <1>4, <1>5, TypesKept DEF TypeOK, Shape, Packs
<1>8. PacksOfKinds' /\ AloneIsAlone' /\ RollsBackLibrary'
  BY <1>1, <1>2, <1>6, OthersKept
<1>9. EntryRight
  <2>1. (Unmoved' => Unmoved) /\ (key \notin Touched(m) => (Settled' => Settled))
    BY <1>1, <1>2, DoneSettlesNothing DEF m
  <2>2. CASE key \notin Touched(m)
    <3>1. View' = View /\ \A p \in Packs : key = Detail(p) => (p \in on' <=> p \in on)
      BY <1>1, <2>2, UntouchedView
    <3>2. ASSUME NEW S, Right(S) PROVE RightNext(S)
      <4>1. Settled' => S = {View'}
        BY <2>1, <2>2, <3>1, <3>2 DEF Right
      <4>2. IsDetail' /\ Unmoved' => \E d \in ViewsOf(key') : S = {d} /\ d[1] = (key'[2] \in on')
        <5> SUFFICES ASSUME IsDetail', Unmoved'
                     PROVE  \E d \in ViewsOf(key) : S = {d} /\ d[1] = (key[2] \in on')
          BY <1>1
        <5>1. PICK p \in Packs : key = Detail(p)
          BY <1>1 DEF IsDetail, Detail, Packs
        <5>2. (key[2] \in on') = (key[2] \in on)
          BY <3>1, <5>1, KeysApart
        <5>3. PICK d \in ViewsOf(key) : S = {d} /\ d[1] = (key[2] \in on)
          BY <2>1, <3>2, <5>1 DEF Right, IsDetail
        <5> QED BY <5>2, <5>3
      <4> QED BY <4>1, <4>2 DEF RightNext
    <3> QED BY <1>1, <2>2, <3>2 DEF EntryRight, DataIsRight, AnswerIsRight
  <2>3. CASE key \in Touched(m) /\ m.step = "lost"
    <3>1. entry'.doubt /\ entry'.old = (entry.step # "idle")
      BY <1>1, <1>5, <2>3, Doubting
    <3> QED BY <1>5, <3>1 DEF EntryRight
  <2>4. CASE key \in Touched(m) /\ m.step = "sent" /\ m.kind = "save" /\ key = Detail(m.pack)
    <3>1. Empty
      BY <1>1, <2>4 DEF SavesAreNew, m
    <3> QED BY <1>5, <3>1 DEF Empty, Shape, EntryRight
  <2>5. CASE key \in Touched(m) /\ m.step = "sent" /\ ~(m.kind = "save" /\ key = Detail(m.pack))
    <3>1. mutation'[k].step = "sent" /\ mutation'[k].kind = m.kind /\ mutation'[k].pack = m.pack
      BY <1>2, <2>5 DEF Follows
    <3>2. Unsettled(mutation'[k])
      BY <1>2, <2>5, <3>1, TouchedAlike DEF Unsettled
    <3>3. ~Settled'
      BY <1>1, <1>2, <3>2, UnsettledNext
    <3>4. entry' = entry
      BY <1>1, <2>5
    <3>5. ASSUME NEW S, Right(S), IsDetail', Unmoved'
          PROVE  \E d \in ViewsOf(key') : S = {d} /\ d[1] = (key'[2] \in on')
      <4>1. PICK p \in Packs : key = Detail(p)
        BY <1>1, <3>5 DEF IsDetail, Detail, Packs
      <4>2. p = m.pack
        BY <1>1, <2>5, <4>1, KeysApart DEF Touched
      <4>3. ~Moved(mutation'[k])
        BY <1>1, <1>2, <3>5, UnsettledNext
      <4>4. m.kind \notin {"toggle", "set", "remove"}
        BY <1>2, <3>1, <4>1, <4>2, <4>3 DEF Moved
      <4>5. on' = on
        BY <1>1, <1>4, <2>5, <4>1, <4>2, <4>4 DEF Kinds
      <4> QED BY <1>1, <2>1, <3>5, <4>1, <4>5 DEF Right, IsDetail
    <3> QED BY <3>3, <3>4, <3>5 DEF EntryRight, RightNext, DataIsRight, AnswerIsRight
  <2> QED BY <1>1, <2>2, <2>3, <2>4, <2>5
<1>10. ValueIsProgress'
  <2> SUFFICES ASSUME NEW j \in DOMAIN mutation, mutation'[j].step = "sent", mutation'[j].done,
                      mutation'[j].alone, mutation'[j].kind \in {"reset", "complete"}
               PROVE  mutation'[j].value = (mutation'[j].pack \in progress')
    BY <1>2 DEF ValueIsProgress
  <2>1. CASE j = k
    <3>1. mutation'[k].pack = m.pack /\ mutation'[k].kind = m.kind
      BY <1>2 DEF Follows
    <3>2. mutation'[k].value = (m.pack \in progress')
      BY <1>3, <2>1, <3>1
    <3> QED BY <2>1, <3>1, <3>2, Zenon
  <2>2. CASE j # k
    <3>1. Alike(mutation'[j], mutation[j])
      BY <1>2, <2>2
    <3>2. mutation'[j].value = (mutation[j].pack \in progress)
      BY <3>1 DEF ValueIsProgress, Alike
    <3>3. ~Overlap(mutation[j], m)
      BY <1>1, <1>2, <2>2, <3>1 DEF AloneIsAlone, Alike, m
    <3>4. mutation[j].pack # m.pack
      <4> SUFFICES ASSUME mutation[j].pack = m.pack PROVE FALSE
        OBVIOUS
      <4>1. Detail(m.pack) \in Touched(m) /\ Detail(m.pack) \in Touched(mutation[j])
        BY DEF Touched
      <4>2. Detail(m.pack) # Bench
        BY <1>1, KeysApart
      <4> QED BY <3>3, <4>1, <4>2 DEF Overlap
    <3>5. (mutation[j].pack \in progress') = (mutation[j].pack \in progress)
      BY <1>4, <3>4
    <3>6. mutation'[j].pack = mutation[j].pack
      BY <3>1 DEF Alike
    <3> QED BY <3>2, <3>5, <3>6, Zenon
  <2> QED BY <2>1, <2>2
<1>11. StaysEmpty
  BY <1>5 DEF StaysEmpty, Empty
<1>12. NothingUnsaved'
  <2> SUFFICES ASSUME NEW p \in OwnedPacks, key = Detail(p), p \notin on',
                      \A j \in DOMAIN mutation : mutation'[j].pack # p
               PROVE  Empty'
    BY <1>1, <1>2 DEF NothingUnsaved, Detail
  <2>1. \A j \in DOMAIN mutation : mutation[j].pack # p
    BY <1>6 DEF Follows
  <2>2. p \notin on
    BY <1>4, <2>1 DEF m
  <2> QED BY <1>11, <2>1, <2>2 DEF NothingUnsaved, StaysEmpty
<1>13. SavesAreNew'
  <2> SUFFICES ASSUME NEW j \in DOMAIN mutation, mutation'[j].kind = "save"
               PROVE  /\ \A i \in DOMAIN mutation :
                           i # j /\ mutation'[i].kind = "save" =>
                             mutation'[i].pack # mutation'[j].pack
                      /\ ~mutation'[j].done /\ key = Detail(mutation'[j].pack) =>
                           Empty' /\ mutation'[j].pack \notin on'
    BY <1>1, <1>2 DEF SavesAreNew, Detail
  <2>1. mutation[j].kind = "save" /\ mutation[j].pack \in OwnedPacks
    BY <1>6 DEF Follows, PacksOfKinds
  <2>2. \A i \in DOMAIN mutation :
          i # j /\ mutation'[i].kind = "save" => mutation'[i].pack # mutation'[j].pack
    BY <1>6, <2>1 DEF SavesAreNew, Follows
  <2>3. ASSUME ~mutation'[j].done, key = Detail(mutation'[j].pack)
        PROVE  Empty' /\ mutation'[j].pack \notin on'
    <3>1. j # k /\ ~mutation[j].done /\ mutation'[j].pack = mutation[j].pack
      BY <1>2, <2>3 DEF Alike
    <3>2. Empty /\ mutation[j].pack \notin on
      BY <2>1, <2>3, <3>1 DEF SavesAreNew
    <3>3. mutation[j].pack = m.pack => m.kind \notin {"toggle", "set", "save"}
      BY <1>1, <2>1, <3>1, KeysApart DEF SavesAreNew, m
    <3>4. mutation[j].pack \notin on'
      BY <1>4, <3>2, <3>3
    <3> QED BY <1>11, <3>1, <3>2, <3>4 DEF StaysEmpty
  <2> QED BY <2>2, <2>3
<1>14. ToggleIsAlone'
  BY <1>1, <1>2, <1>5, <1>6 DEF ToggleIsAlone, Running, Follows, Library
<1>15. OptimismHolds'
  <2> SUFFICES ASSUME NEW j \in DOMAIN mutation, mutation'[j].step = "sent", key = Library,
                      mutation'[j].kind = "toggle", mutation'[j].alone, NEW shown \in entry.data
               PROVE  mutation'[j].value = (mutation'[j].pack \in shown)
    BY <1>1, <1>2, <1>5 DEF OptimismHolds, Sent, Library
  <2>1. mutation[j].value = (mutation[j].pack \in shown)
    BY <1>6 DEF OptimismHolds, Sent, Follows
  <2>2. mutation'[j].pack = mutation[j].pack
    BY <1>6 DEF Follows
  <2>3. mutation'[j].value = mutation[j].value
    <3>1. CASE j # k
      BY <1>2, <3>1 DEF Alike
    <3>2. CASE j = k
      <4>1. m.kind = "toggle"
        BY <1>2, <3>2 DEF Follows
      <4>2. mutation'[k] = [m EXCEPT !.done = TRUE, !.value = m.value,
                                     !.step = IF m.step = "lost" THEN "over" ELSE @]
        BY <4>1, Zenon DEF Commit, m
      <4> QED BY <1>1, <3>2, <4>2 DEF Mutations, m
    <3> QED BY <3>1, <3>2
  <2> QED BY <2>1, <2>2, <2>3, Zenon
<1> QED BY <1>7, <1>8, <1>9, <1>10, <1>12, <1>13, <1>14, <1>15, EntryRightNext

-----------------------------------------------------------------------------
(* What the client is told.                                                *)

\* A change that is over, or that the client gives up on, keeps the invariant if
\* the entry has then what the client has learnt.
LEMMA ClosingKeeps ==
    ASSUME Inv, NEW k \in DOMAIN mutation, NEW step \in {"lost", "over"}, Moves(k, step),
           UNCHANGED <<server, key>>, TypeOK', Shape', EntryRight, StaysEmpty,
           \A j \in DOMAIN mutation :
             /\ j # k /\ mutation[j].step = "sent" /\ mutation[j].alone
             /\ key = Library /\ mutation[j].kind = "toggle"
             => entry' = entry
    PROVE  Inv'
<1> USE DEF Inv
<1>1. key' = key /\ on' = on /\ progress' = progress
  BY DEF server
<1>2. /\ mutation' \in Seq(Mutations) /\ DOMAIN mutation' = DOMAIN mutation
      /\ \A j \in DOMAIN mutation : j # k => mutation'[j] = mutation[j]
      /\ mutation'[k].kind = mutation[k].kind /\ mutation'[k].pack = mutation[k].pack
      /\ mutation'[k].done = mutation[k].done /\ mutation'[k].step # "sent"
      /\ \A j \in DOMAIN mutation : Follows(mutation'[j], mutation[j])
  BY DEF Moves, Follows
<1>3. PacksOfKinds' /\ AloneIsAlone' /\ RollsBackLibrary'
  BY <1>1, <1>2, OthersKept
<1>4. ValueIsProgress'
  BY <1>1, <1>2 DEF ValueIsProgress
<1>5. NothingUnsaved'
  <2> SUFFICES ASSUME NEW p \in OwnedPacks, key = Detail(p), p \notin on,
                      \A j \in DOMAIN mutation : mutation'[j].pack # p
               PROVE  Empty'
    BY <1>1, <1>2 DEF NothingUnsaved, Detail
  <2>1. \A j \in DOMAIN mutation : mutation[j].pack # p
    BY <1>2 DEF Follows
  <2> QED BY <2>1 DEF NothingUnsaved, StaysEmpty
<1>6. SavesAreNew'
  <2> SUFFICES ASSUME NEW j \in DOMAIN mutation, mutation'[j].kind = "save"
               PROVE  /\ \A i \in DOMAIN mutation :
                           i # j /\ mutation'[i].kind = "save" =>
                             mutation'[i].pack # mutation'[j].pack
                      /\ ~mutation'[j].done /\ key = Detail(mutation'[j].pack) =>
                           Empty' /\ mutation'[j].pack \notin on
    BY <1>1, <1>2 DEF SavesAreNew, Detail
  <2>1. /\ mutation[j].kind = "save" /\ mutation[j].pack = mutation'[j].pack
        /\ mutation'[j].done = mutation[j].done
    BY <1>2
  <2>2. \A i \in DOMAIN mutation :
          i # j /\ mutation'[i].kind = "save" => mutation'[i].pack # mutation'[j].pack
    BY <1>2, <2>1 DEF SavesAreNew, Follows
  <2> QED BY <2>1, <2>2 DEF SavesAreNew, StaysEmpty
<1>7. ToggleIsAlone' /\ OptimismHolds'
  <2>1. \A j \in DOMAIN mutation : mutation'[j].step = "sent" => j # k /\ mutation'[j] = mutation[j]
    BY <1>2
  <2> QED BY <1>1, <1>2, <2>1 DEF ToggleIsAlone, OptimismHolds, Sent, Running, Library
<1> QED BY <1>3, <1>4, <1>5, <1>6, <1>7, EntryRightNext

\* Closing a change that is neither unsettled nor a move settles nothing.
LEMMA ClosingSettles ==
    ASSUME key' = key, NEW k \in DOMAIN mutation, NEW step \in {"lost", "over"}, Moves(k, step)
    PROVE  /\ ~Unsettled(mutation[k]) => (Settled' => Settled)
           /\ ~Moved(mutation[k]) => (Unmoved' => Unmoved)
           /\ Settled' /\ ~Moved(mutation[k]) => Unmoved
<1>1. /\ mutation' \in Seq(Mutations) /\ DOMAIN mutation' = DOMAIN mutation
      /\ \A j \in DOMAIN mutation : j # k => mutation'[j] = mutation[j]
  BY DEF Moves
<1>2. \A m : Moved(m) => Unsettled(m)
  BY DEF Moved, Unsettled, Touched
<1> QED BY <1>1, <1>2, UnsettledNext DEF Settled, Unmoved

\* While a toggle is under way alone, no other change of the library is.
LEMMA NoOtherToggles ==
    ASSUME Inv, NEW j \in DOMAIN mutation, NEW k \in DOMAIN mutation, j # k,
           mutation[j].step = "sent", mutation[j].alone, mutation[k].step = "sent",
           key = Library, mutation[j].kind = "toggle"
    PROVE  mutation[k].kind \notin {"toggle", "set"}
<1> SUFFICES ASSUME mutation[k].kind \in {"toggle", "set"} PROVE FALSE
  OBVIOUS
<1>1. Library \in Touched(mutation[j]) /\ Library \in Touched(mutation[k])
  BY DEF Touched
<1>2. Overlap(mutation[j], mutation[k])
  BY <1>1, KeysApart DEF Overlap
<1> QED BY <1>2 DEF Inv, AloneIsAlone

\* An answer of a reset or a completion is patched into the data, and no answer
\* that is under way counts.
LEMMA Patching ==
    ASSUME Inv, NEW m \in Mutations, key = Detail(m.pack)
    PROVE  /\ Patched(m) \in Entries
           /\ Patched(m).step = entry.step /\ Patched(m).answer = entry.answer
           /\ Patched(m).old = (entry.step # "idle")
           /\ entry.data = {} => Patched(m).data = {} /\ ~Patched(m).valid
           /\ \A d : entry.data = {d} =>
                /\ d \in ViewsOf(key) /\ <<d[1], m.value>> \in ViewsOf(key)
                /\ Patched(m).data = {<<d[1], m.value>>} /\ Patched(m).valid
                /\ ~Patched(m).doubt => ~entry.doubt /\ entry.valid /\ m.alone
           /\ entry.data = {} \/ \E d \in ViewsOf(key) : entry.data = {d}
<1>1. /\ entry \in Entries /\ entry.data \in SUBSET ViewsOf(key) /\ m.value \in BOOLEAN
      /\ m.alone \in BOOLEAN /\ entry.valid \in BOOLEAN /\ entry.doubt \in BOOLEAN
      /\ m.pack \in Packs
  BY EntryFields, MutationFields DEF Inv, TypeOK
<1>2. ViewsOf(key) = BOOLEAN \X BOOLEAN
  BY <1>1, KeysApart DEF ViewsOf
<1>3. (entry.step # "idle") \in BOOLEAN
  OBVIOUS
<1>4. entry.data = {} \/ \E d \in ViewsOf(key) : entry.data = {d}
  BY DEF Inv, Shape, OneAtMost
<1>5. CASE entry.data = {}
  <2>1. Patched(m) = [entry EXCEPT !.old = (entry.step # "idle")]
    BY <1>5 DEF Patched, Running
  <2>2. ~entry.valid
    BY <1>5 DEF Inv, Shape
  <2> QED BY <1>1, <1>3, <1>5, <2>1, <2>2 DEF Entries
<1>6. CASE entry.data # {}
  <2>1. PICK d \in ViewsOf(key) : entry.data = {d}
    BY <1>4, <1>6
  <2> DEFINE v == <<d[1], m.value>>
             w == Written(entry, v)
             doubt == entry.doubt \/ ~entry.valid \/ ~m.alone
  <2>2. v \in ViewsOf(key)
    BY <1>1, <1>2, <2>1
  <2>3. The(entry.data) = d
    BY <2>1, TheOne
  <2>4. /\ w \in Entries /\ w.data = {v} /\ w.valid /\ w.step = entry.step
        /\ w.answer = entry.answer /\ w.doubt = entry.doubt
    BY <1>1, <1>6, <2>2, Writing
  <2>5. Patched(m) = [w EXCEPT !.doubt = w.doubt \/ ~entry.valid \/ ~m.alone, !.old = (entry.step # "idle")]
    BY <1>6, <2>3 DEF Patched, Running
  <2>6. doubt \in BOOLEAN /\ doubt = (w.doubt \/ ~entry.valid \/ ~m.alone)
    BY <2>4
  <2>7. ~doubt => ~entry.doubt /\ entry.valid /\ m.alone
    OBVIOUS
  <2>8. Patched(m) = [w EXCEPT !.doubt = doubt, !.old = (entry.step # "idle")]
    BY <2>5, <2>6, Zenon
  <2> HIDE DEF w, doubt
  <2>9. /\ Patched(m) \in Entries /\ Patched(m).data = {v} /\ Patched(m).valid
        /\ Patched(m).step = entry.step /\ Patched(m).answer = entry.answer
        /\ Patched(m).doubt = doubt /\ Patched(m).old = (entry.step # "idle")
    BY <1>3, <2>4, <2>6, <2>8 DEF Entries
  <2>10. \A c : entry.data = {c} => c = d
    BY <2>1
  <2> HIDE DEF v
  <2>11. ASSUME NEW c, entry.data = {c}
         PROVE  /\ c \in ViewsOf(key) /\ <<c[1], m.value>> \in ViewsOf(key)
                /\ Patched(m).data = {<<c[1], m.value>>} /\ Patched(m).valid
                /\ ~Patched(m).doubt => ~entry.doubt /\ entry.valid /\ m.alone
    <3>1. c = d /\ v = <<c[1], m.value>>
      BY <2>10, <2>11 DEF v
    <3> QED BY <2>1, <2>2, <2>7, <2>9, <3>1
  <2> QED BY <1>4, <1>6, <2>9, <2>11
<1> QED BY <1>5, <1>6

\* A change that is answered is told to the query, by what is patched, asked
\* again or put in doubt.
LEMMA SucceedKeeps == ASSUME Inv, NEW k \in DOMAIN mutation, Succeed(k) PROVE Inv'
<1> DEFINE m == mutation[k]
<1>1. /\ m \in Mutations /\ m.step = "sent" /\ m.done
      /\ UNCHANGED <<server, key, failures>> /\ key' = key /\ on' = on /\ progress' = progress
      /\ entry' = Refreshed(m) /\ mounted' \in BOOLEAN
      /\ m.kind \in {"toggle", "set"} => m.pack \in GlobalPacks
      /\ m.kind \in {"save", "remove"} => m.pack \in OwnedPacks
      /\ m.kind \in Kinds /\ m.pack \in Packs /\ m.value \in BOOLEAN
  <2>1. m \in Mutations /\ TypeOK /\ PacksOfKinds
    BY MutationTyped DEF Inv
  <2>2. mounted' = (mounted /\ Target(m) = key)
    BY DEF Succeed
  <2> QED BY <2>1, <2>2, MutationFields DEF Succeed, server, PacksOfKinds
<1>2. Moves(k, "over")
  BY ClosingMoves DEF Succeed, Inv
<1>3. /\ mutation' \in Seq(Mutations) /\ DOMAIN mutation' = DOMAIN mutation
  BY <1>2 DEF Moves
<1>4. entry \in Entries /\ mounted \in BOOLEAN /\ TypeOK /\ Shape
  BY DEF Inv, TypeOK
<1> DEFINE patched == key = Detail(m.pack) /\ m.kind \in {"reset", "complete"}
           written == IF patched THEN Patched(m) ELSE entry
<1>5. /\ written \in Entries /\ written.step = entry.step /\ written.answer = entry.answer
      /\ OneAtMost(written.data) /\ (written.data = {} => ~written.valid)
      /\ entry.data = {} => written.data = {}
  <2>1. CASE patched
    BY <1>1, <2>1, Patching DEF OneAtMost
  <2>2. CASE ~patched
    BY <1>4, <2>2 DEF Shape
  <2> QED BY <2>1, <2>2
<1>6. (Settled' /\ ~Moved(m) => Unmoved) /\ (~Unsettled(m) => (Settled' => Settled))
      /\ (~Moved(m) => (Unmoved' => Unmoved))
  BY <1>1, <1>2, ClosingSettles
<1> HIDE DEF m
<1>7. \/ entry' = NoEntry
      \/ entry' = Invalidated(written)
      \/ entry' = Doubted(written)
      \/ patched /\ m.kind = "reset" /\ entry' = Patched(m)
      \/ entry' = entry /\ ~Unsettled(m) /\ ~Moved(m)
  <2>1. CASE key = Detail(m.pack) /\ m.kind = "remove"
    BY <1>1, <2>1 DEF Refreshed
  <2>2. CASE ~(key = Detail(m.pack) /\ m.kind = "remove") /\ key \in News(m)
    BY <1>1, <2>2 DEF Refreshed
  <2>3. CASE ~(key = Detail(m.pack) /\ m.kind = "remove") /\ key \notin News(m) /\ key \in Untold(m)
    BY <1>1, <2>3 DEF Refreshed
  <2>4. CASE ~(key = Detail(m.pack) /\ m.kind = "remove") /\ key \notin News(m) /\ key \notin Untold(m)
    <3>1. entry' = written
      BY <1>1, <2>4 DEF Refreshed
    <3>2. CASE patched
      BY <2>4, <3>1, <3>2 DEF News
    <3>3. CASE ~patched
      <4>1. key \in Touched(m) => m.kind = "save" /\ key = Detail(m.pack)
        BY <1>1, <2>4, <3>3 DEF Touched, News, Untold, Kinds
      <4>2. ~Unsettled(m) /\ ~Moved(m)
        BY <4>1 DEF Unsettled, Moved, Touched
      <4> QED BY <3>1, <3>3, <4>2
    <3> QED BY <3>2, <3>3
  <2> QED BY <2>1, <2>2, <2>3, <2>4
<1> HIDE DEF written
<1>8. /\ entry' \in Entries /\ OneAtMost(entry'.data) /\ OneAtMost(entry'.answer)
      /\ entry'.data = {} => ~entry'.valid
      /\ entry'.step = "answered" => entry'.answer # {}
  <2>1. CASE entry' = NoEntry
    BY <2>1 DEF NoEntry, Entries, OneAtMost
  <2>2. CASE entry' = Invalidated(written)
    BY <1>4, <1>5, <2>2, Invalidating DEF Shape, OneAtMost
  <2>3. CASE entry' = Doubted(written)
    BY <1>4, <1>5, <2>3, Doubting DEF Shape, OneAtMost
  <2>4. CASE patched /\ entry' = Patched(m)
    <3>1. written = entry'
      BY <2>4 DEF written
    <3> QED BY <1>4, <1>5, <3>1 DEF Shape
  <2>5. CASE entry' = entry
    BY <1>4, <2>5 DEF Shape
  <2> QED BY <1>7, <2>1, <2>2, <2>3, <2>4, <2>5
<1>9. TypeOK' /\ Shape'
  BY <1>1, <1>3, <1>4, <1>8, TypesKept DEF TypeOK, Shape, Packs, server
<1>10. StaysEmpty
  <2> SUFFICES ASSUME Empty PROVE Empty'
    BY DEF StaysEmpty
  <2>1. written.data = {} /\ written.step # "answered"
    BY <1>5 DEF Empty
  <2>2. CASE entry' = NoEntry
    BY <2>2 DEF NoEntry, Empty
  <2>3. CASE entry' = Invalidated(written)
    BY <1>4, <1>5, <2>1, <2>3, Invalidating DEF Empty
  <2>4. CASE entry' = Doubted(written)
    BY <1>5, <2>1, <2>4, Doubting DEF Empty
  <2>5. CASE patched /\ entry' = Patched(m)
    BY <2>1, <2>5 DEF Empty, written
  <2>6. CASE entry' = entry
    BY <2>6 DEF Empty
  <2> QED BY <1>7, <2>2, <2>3, <2>4, <2>5, <2>6
<1>11. EntryRight
  <2>1. CASE entry' = NoEntry
    BY <2>1 DEF NoEntry, EntryRight
  <2>2. CASE entry' = Invalidated(written)
    BY <1>4, <1>5, <2>2, Invalidating DEF EntryRight
  <2>3. CASE entry' = Doubted(written)
    BY <1>5, <2>3, Doubting DEF EntryRight
  <2>4. CASE patched /\ m.kind = "reset" /\ entry' = Patched(m)
    <3>1. ~Moved(m) /\ key = Detail(m.pack)
      BY <2>4 DEF Moved
    <3>2. entry'.step = "answered" => entry'.old
      BY <1>1, <2>4, <3>1, Patching
    <3>3. ASSUME entry'.valid, ~entry'.doubt PROVE RightNext(entry'.data)
      <4>1. PICK d \in ViewsOf(key) : entry.data = {d}
        BY <1>1, <2>4, <3>1, <3>3, Patching
      <4>2. /\ <<d[1], m.value>> \in ViewsOf(key) /\ entry'.data = {<<d[1], m.value>>}
            /\ ~entry.doubt /\ entry.valid /\ m.alone
        BY <1>1, <2>4, <3>1, <3>3, <4>1, Patching
      <4>3. Right(entry.data) /\ IsDetail
        BY <1>1, <3>1, <4>2 DEF Inv, DataIsRight, IsDetail
      <4>4. Unmoved => d[1] = (m.pack \in on)
        <5>1. key[2] = m.pack
          BY <1>1, <3>1, KeysApart
        <5>2. Unmoved => \E c \in ViewsOf(key) : entry.data = {c} /\ c[1] = (key[2] \in on)
          BY <4>3 DEF Right
        <5> QED BY <4>1, <5>1, <5>2
      <4>5. m.value = (m.pack \in progress)
        BY <1>1, <2>4, <4>2 DEF Inv, ValueIsProgress, m
      <4>6. View' = <<m.pack \in on, m.pack \in progress>>
        BY <1>1, <1>9, <3>1, ViewTyped, ZenonT(30) DEF View, LibraryView, BenchView, DetailView, Library, Bench, Inv
      <4>7. Settled' => entry'.data = {View'}
        <5> SUFFICES ASSUME Settled' PROVE entry'.data = {View'}
          OBVIOUS
        <5>1. d[1] = (m.pack \in on)
          BY <1>6, <3>1, <4>4
        <5> QED BY <4>2, <4>5, <4>6, <5>1, Zenon
      <4>8. IsDetail' /\ Unmoved' =>
              \E c \in ViewsOf(key') : entry'.data = {c} /\ c[1] = (key'[2] \in on')
        <5> SUFFICES ASSUME Unmoved'
                     PROVE  \E c \in ViewsOf(key) : entry'.data = {c} /\ c[1] = (key[2] \in on)
          BY <1>1, TypesKept
        <5>1. d[1] = (m.pack \in on) /\ key[2] = m.pack
          BY <1>1, <1>6, <3>1, <4>4, KeysApart
        <5> DEFINE c == <<d[1], m.value>>
        <5>2. c[1] = d[1]
          OBVIOUS
        <5>3. c[1] = (key[2] \in on)
          BY <5>1, <5>2, Zenon
        <5> HIDE DEF c
        <5> QED BY <4>2, <5>3 DEF c
      <4> QED BY <4>7, <4>8 DEF RightNext
    <3> QED BY <3>2, <3>3 DEF EntryRight
  <2>5. CASE entry' = entry /\ ~Unsettled(m) /\ ~Moved(m)
    BY <1>1, <1>6, <2>5, RightKept DEF Inv, EntryRight, DataIsRight, AnswerIsRight
  <2> QED BY <1>7, <2>1, <2>2, <2>3, <2>4, <2>5
<1>12. ASSUME NEW j \in DOMAIN mutation, j # k, mutation[j].step = "sent", mutation[j].alone,
              key = Library, mutation[j].kind = "toggle"
       PROVE  entry' = entry
  <2>1. m.kind \notin {"toggle", "set"}
    BY <1>1, <1>12, NoOtherToggles DEF m
  <2>2. key # Detail(m.pack) /\ key # Bench
    BY <1>1, <1>12, KeysApart
  <2>3. key \notin News(m) /\ key \notin Untold(m)
    BY <1>1, <2>1, <2>2 DEF News, Untold, Kinds
  <2> QED BY <1>1, <2>2, <2>3 DEF Refreshed
<1> QED BY <1>1, <1>2, <1>9, <1>10, <1>11, <1>12, ClosingKeeps

\* A change that fails is rolled back if it is a toggle; of one that was done
\* all the same the client does not learn.
LEMMA FailKeeps == ASSUME Inv, NEW k \in DOMAIN mutation, Fail(k) PROVE Inv'
<1> DEFINE m == mutation[k]
           refused == ~m.done /\ ~Possible(m)
           step == IF m.done \/ refused THEN "over" ELSE "lost"
<1>1. /\ m \in Mutations /\ m.step = "sent" /\ m.kind \in Kinds
      /\ UNCHANGED <<server, key, mounted>> /\ key' = key /\ on' = on /\ progress' = progress
      /\ entry' = RolledBack(m) /\ m.previous \in SUBSET SUBSET GlobalPacks
      /\ m.previous # {} => key = Library
      /\ failures' \in Nat
  <2>1. m \in Mutations /\ failures \in Nat
    BY MutationTyped DEF Inv, TypeOK
  <2>2. failures' = failures \/ failures' = failures + 1
    BY DEF Fail
  <2> QED BY <2>1, <2>2, MutationFields DEF Fail, server, Inv, RollsBackLibrary
<1>2. Moves(k, step) /\ step \in {"lost", "over"}
  BY ClosingMoves DEF Fail, Inv
<1>3. /\ mutation' \in Seq(Mutations) /\ DOMAIN mutation' = DOMAIN mutation
  BY <1>2 DEF Moves
<1>4. entry \in Entries /\ mounted \in BOOLEAN /\ TypeOK /\ Shape
  BY DEF Inv, TypeOK
<1>5. /\ ~Unsettled(m) => (Settled' => Settled)
      /\ ~Moved(m) => (Unmoved' => Unmoved)
  BY <1>1, <1>2, ClosingSettles
<1> HIDE DEF m, step
<1> DEFINE back == IF m.previous = {} THEN entry ELSE Written(entry, The(m.previous))
<1>6. /\ back \in Entries /\ back.step = entry.step /\ back.answer = entry.answer
      /\ OneAtMost(back.data) /\ (entry.data = {} => back.data = {})
  <2>1. CASE m.previous = {}
    BY <1>4, <2>1 DEF Shape
  <2>2. CASE m.previous # {}
    <3>1. The(m.previous) \in m.previous
      BY <2>2 DEF The
    <3>2. The(m.previous) \in ViewsOf(key)
      BY <1>1, <2>2, <3>1, KeysApart DEF ViewsOf
    <3> QED BY <1>4, <2>2, <3>2, Writing DEF OneAtMost
  <2> QED BY <2>1, <2>2
<1>7. \/ entry' = Invalidated(back)
      \/ entry' = Doubted(entry)
      \/ entry' = entry /\ ~Unsettled(m) /\ ~Moved(m)
  <2>1. CASE m.kind = "toggle" /\ key \in News(m)
    BY <1>1, <2>1 DEF RolledBack
  <2>2. CASE ~(m.kind = "toggle" /\ key \in News(m)) /\ m.done /\ key \in Touched(m)
    BY <1>1, <2>2 DEF RolledBack
  <2>3. CASE ~(m.kind = "toggle" /\ key \in News(m)) /\ ~(m.done /\ key \in Touched(m))
    <3>1. entry' = entry
      BY <1>1, <2>3 DEF RolledBack
    <3>2. ~Unsettled(m) /\ ~Moved(m)
      BY <2>3 DEF Unsettled, Moved, Touched, News
    <3> QED BY <3>1, <3>2
  <2> QED BY <2>1, <2>2, <2>3
<1> HIDE DEF back
<1>8. /\ entry' \in Entries /\ OneAtMost(entry'.data) /\ OneAtMost(entry'.answer)
      /\ entry'.data = {} => ~entry'.valid
      /\ entry'.step = "answered" => entry'.answer # {}
  <2>1. CASE entry' = Invalidated(back)
    BY <1>4, <1>6, <2>1, Invalidating DEF Shape, OneAtMost
  <2>2. CASE entry' = Doubted(entry)
    BY <1>4, <2>2, Doubting DEF Shape
  <2>3. CASE entry' = entry
    BY <1>4, <2>3 DEF Shape
  <2> QED BY <1>7, <2>1, <2>2, <2>3
<1>9. TypeOK' /\ Shape'
  BY <1>1, <1>3, <1>4, <1>8, TypesKept DEF TypeOK, Shape, Packs, server
<1>10. StaysEmpty
  <2>1. CASE entry' = Invalidated(back)
    BY <1>4, <1>6, <2>1, Invalidating DEF StaysEmpty, Empty
  <2>2. CASE entry' = Doubted(entry)
    BY <1>4, <2>2, Doubting DEF StaysEmpty, Empty
  <2>3. CASE entry' = entry
    BY <2>3 DEF StaysEmpty, Empty
  <2> QED BY <1>7, <2>1, <2>2, <2>3
<1>11. EntryRight
  <2>1. CASE entry' = Invalidated(back)
    BY <1>4, <1>6, <2>1, Invalidating DEF EntryRight
  <2>2. CASE entry' = Doubted(entry)
    BY <1>4, <2>2, Doubting DEF EntryRight
  <2>3. CASE entry' = entry /\ ~Unsettled(m) /\ ~Moved(m)
    BY <1>1, <1>5, <2>3, RightKept DEF Inv, EntryRight, DataIsRight, AnswerIsRight
  <2> QED BY <1>7, <2>1, <2>2, <2>3
<1>12. ASSUME NEW j \in DOMAIN mutation, j # k, mutation[j].step = "sent", mutation[j].alone,
              key = Library, mutation[j].kind = "toggle"
       PROVE  entry' = entry
  <2>1. m.kind \notin {"toggle", "set"}
    BY <1>1, <1>12, NoOtherToggles DEF m
  <2>2. m.pack \in Packs
    BY <1>1, MutationFields
  <2>3. key \notin Touched(m)
    BY <1>1, <1>12, <2>1, <2>2, KeysApart DEF Touched
  <2> QED BY <1>1, <2>1, <2>3 DEF RolledBack
<1> QED BY <1>1, <1>2, <1>9, <1>10, <1>11, <1>12, ClosingKeeps

-----------------------------------------------------------------------------
(* The theorems.                                                           *)

\* The cache starts empty.
LEMMA Starts == Init => Inv
<1> SUFFICES ASSUME Init PROVE Inv
  OBVIOUS
<1>1. /\ entry = NoEntry /\ mutation = <<>> /\ DOMAIN mutation = {}
  BY DEF Init
<1>2. TypeOK /\ Shape
  <2>1. entry \in Entries /\ Shape
    BY <1>1 DEF Shape, NoEntry, Entries, OneAtMost
  <2>2. <<>> \in Seq(Mutations)
    OBVIOUS
  <2>3. /\ on \in SUBSET Packs /\ progress = {} /\ key \in Keys /\ mounted = FALSE /\ failures = 0
    BY DEF Init
  <2> QED BY <1>1, <2>1, <2>2, <2>3 DEF TypeOK
<1> QED BY <1>1, <1>2 DEF Inv, NoEntry, PacksOfKinds, RollsBackLibrary, DataIsRight,
           AnswerIsRight, AloneIsAlone, ValueIsProgress, NothingUnsaved, SavesAreNew,
           ToggleIsAlone, OptimismHolds, Sent, Empty

\* Every step keeps it.
LEMMA Steps == Inv /\ [Next]_vars => Inv'
<1> SUFFICES ASSUME Inv, [Next]_vars PROVE Inv'
  OBVIOUS
<1>1. CASE Learner
  <2>1. Show \/ Leave \/ \E m \in Mutations : Submitted(m)
    BY <1>1, LearnerSubmits DEF Inv
  <2> QED BY <2>1, ShowKeeps, LeaveKeeps, SubmittedKeeps
<1>2. CASE Query
  BY <1>2, AnswerKeeps, ArriveKeeps, FailQueryKeeps DEF Query
<1>3. CASE Changes
  BY <1>3, CommitKeeps, SucceedKeeps, FailKeeps DEF Changes
<1>4. CASE UNCHANGED vars
  <2>1. /\ key' = key /\ on' = on /\ progress' = progress /\ entry' = entry
        /\ mounted' = mounted /\ mutation' = mutation /\ failures' = failures
        /\ UNCHANGED <<server, key>>
    BY <1>4 DEF vars, server, client
  <2>2. Same
    BY <2>1, NothingIsSame DEF Inv
  <2>3. TypeOK' /\ Shape'
    BY <2>1, TypesKept DEF Inv, TypeOK, Shape
  <2>4. EntryRight
    <3>1. (Settled' => Settled) /\ (Unmoved' => Unmoved)
      BY <2>1, <2>2, NothingSettles DEF Same
    <3> QED BY <2>1, <3>1, RightKept DEF Inv, EntryRight, DataIsRight, AnswerIsRight
  <2>5. StaysEmpty /\ ToggleIsAlone' /\ OptimismHolds'
    BY <2>1, <2>2, AloneKept, OptimismKept DEF StaysEmpty, Empty
  <2> QED BY <2>1, <2>2, <2>3, <2>4, <2>5, SameKeeps
<1> QED BY <1>1, <1>2, <1>3, <1>4 DEF Next

\* The inductive invariant of the cache: what an entry has, what an answer under
\* way will bring, which changes are alone, and what the client has yet to
\* learn of (packs.library.tsx, packs.$packId.tsx and packs.bench.tsx).
THEOREM CacheInvariant == Spec => []Inv
<1> QED BY Starts, Steps, PTL DEF Spec

\* Data that counts as fresh is what the server has, once nothing is under way
\* that could correct it, unless the client could not learn that it is not:
\* in any order of changes, answers, failures and roll-backs, for any packs and
\* any number of changes.
THEOREM CacheStaysTrue == Spec => []CacheIsTrue
<1>1. Inv => CacheIsTrue
  <2> SUFFICES ASSUME Inv, entry.valid, ~entry.doubt,
                      \A k \in Sent : key \notin Touched(mutation[k])
               PROVE  entry.data = {View}
    BY DEF CacheIsTrue
  <2>1. Settled
    BY DEF Settled, Unsettled, Sent
  <2> QED BY <2>1 DEF Inv, DataIsRight, Right
<1> QED BY <1>1, CacheInvariant, PTL

\* A toggle that is under way alone stays shown as made: no answer of an earlier
\* request takes it back.
THEOREM TogglesStayShown == Spec => []OptimismHolds
<1>1. Inv => OptimismHolds
  BY DEF Inv
<1> QED BY <1>1, CacheInvariant, PTL
=============================================================================
