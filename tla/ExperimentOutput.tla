---- MODULE ExperimentOutput ----
(* How the headless runner publishes an experiment (aon-headless experiment.rs):
   it writes everything into a staging directory of its own beside the output
   and renames that into place.  Several runners may publish to one path, any
   call to the file system may fail, and a runner may die at any point; what is
   on disk stays, and the next process starts counting its names anew, maybe
   under the same process id. *)
EXTENDS Integers, FiniteSets, TLAPS

CONSTANTS
    Runners,       \* processes, by process id
    Editions,      \* what may be published: sets of profile files
    MaxAttempts,   \* names tried for a staging directory (128)
    MaxStarts      \* bound: publications started in all

OutputAssumption == MaxAttempts \in Nat \ {0} /\ MaxStarts \in Nat /\ Runners \subseteq Nat \ {0}

VARIABLES
    disk,       \* path -> files in the directory there
    runner,     \* pid -> [at, edition, path, next, written]
    starts,
    published   \* what the runners that reported success had to publish
outputVars == <<disk, runner, starts, published>>

Manifest == "runs.json"
Output == <<0, 0>>
StagingPath(pid, sequence) == <<pid, sequence>>
Exists(path) == path \in DOMAIN disk
At(path) == IF Exists(path) THEN disk[path] ELSE {}
Put(path, files) == [p \in DOMAIN disk \cup {path} |-> IF p = path THEN files ELSE disk[p]]
Without(path) == [p \in DOMAIN disk \ {path} |-> disk[p]]

\* A file: its name, the edition it was written for, and whether all of it is there.
File(name, edition, whole) == [name |-> name, edition |-> edition, whole |-> whole]
Whole(edition) == {File(name, edition, TRUE) : name \in edition \cup {Manifest}}

Fresh == [at |-> "idle", edition |-> {}, path |-> Output, next |-> 0, tries |-> 0, written |-> {}]

InitOutput ==
    /\ disk = [p \in {} |-> {}]
    /\ runner = [pid \in Runners |-> Fresh] /\ starts = 0 /\ published = {}

\* publish_materialized_experiment begins: the output must not exist.
Begin(pid) ==
    /\ runner[pid].at = "idle" /\ starts < MaxStarts
    /\ \E edition \in Editions :
           runner' = [runner EXCEPT ![pid].edition = edition, ![pid].tries = 0, ![pid].written = {},
                                    ![pid].at = IF Exists(Output) THEN "idle" ELSE "naming"]
    /\ starts' = starts + 1 /\ UNCHANGED <<disk, published>>

IsFree_OrLeft(path) == TRUE
IsFree(path) == ~Exists(path)

\* create_staging_directory: the next name that is not taken.
CreateStaging(pid) ==
    LET r == runner[pid]
        path == StagingPath(pid, r.next)
    IN /\ r.at = "naming"
       /\ IF r.tries = MaxAttempts THEN runner' = [runner EXCEPT ![pid].at = "idle"] /\ UNCHANGED disk
          ELSE IF IsFree(path)
          THEN /\ disk' = Put(path, At(path))
               /\ runner' = [runner EXCEPT ![pid].at = "writing", ![pid].path = path, ![pid].next = @ + 1]
          ELSE /\ runner' = [runner EXCEPT ![pid].next = @ + 1, ![pid].tries = @ + 1]
               /\ UNCHANGED disk
       /\ UNCHANGED <<starts, published>>

Wanted(r) == IF r.edition \subseteq r.written THEN {Manifest} ELSE r.edition \ r.written
IsWritten_ProfilesOnly(r) == r.edition \subseteq r.written
IsWritten(r) == r.edition \cup {Manifest} \subseteq r.written

\* fs::write replaces a file of that name; the profiles first, then the manifest.
Replaced(files, name, edition, whole) == {f \in files : f.name # name} \cup {File(name, edition, whole)}
Write(pid) ==
    LET r == runner[pid] IN
    /\ r.at = "writing" /\ ~IsWritten(r)
    /\ \E name \in Wanted(r) :
           /\ disk' = Put(r.path, Replaced(At(r.path), name, r.edition, TRUE))
           /\ runner' = [runner EXCEPT ![pid].written = @ \cup {name}]
    /\ UNCHANGED <<starts, published>>

\* fs::rename of a directory: it goes to a path that is free or an empty directory.
MayRename(to) == At(to) = {}
Publish(pid) ==
    LET r == runner[pid] IN
    /\ r.at = "writing" /\ IsWritten(r) /\ MayRename(Output)
    /\ disk' = [p \in (DOMAIN disk \ {r.path}) \cup {Output} |-> IF p = Output THEN At(r.path) ELSE disk[p]]
    /\ runner' = [runner EXCEPT ![pid].at = "idle"]
    /\ published' = published \cup {r.edition}
    /\ UNCHANGED starts

\* A call fails, maybe in the middle of a file, or the output is there by now;
\* the runner tries to remove its staging directory, which may fail as well.
Fail(pid) ==
    LET r == runner[pid] IN
    /\ r.at = "writing"
    /\ \/ disk' = Without(r.path)
       \/ UNCHANGED disk
       \/ ~IsWritten(r) /\ \E name \in Wanted(r) :
              disk' = Put(r.path, Replaced(At(r.path), name, r.edition, FALSE))
    /\ runner' = [runner EXCEPT ![pid].at = "idle"]
    /\ UNCHANGED <<starts, published>>

\* The process ends, in the middle of a file too; another gets its id.
Die(pid) ==
    LET r == runner[pid] IN
    /\ r # Fresh
    /\ \/ UNCHANGED disk
       \/ r.at = "writing" /\ ~IsWritten(r) /\ \E name \in Wanted(r) :
              disk' = Put(r.path, Replaced(At(r.path), name, r.edition, FALSE))
    /\ runner' = [runner EXCEPT ![pid] = Fresh]
    /\ UNCHANGED <<starts, published>>

\* Somebody else makes the output directory.
MakeOutput ==
    /\ ~Exists(Output) /\ disk' = Put(Output, {})
    /\ UNCHANGED <<runner, starts, published>>

NextOutput ==
    \/ \E pid \in Runners : Begin(pid) \/ CreateStaging(pid) \/ Write(pid) \/ Publish(pid) \/ Fail(pid) \/ Die(pid)
    \/ MakeOutput

\* The specification: nothing is fair, a runner may stop anywhere.
OutputSpec == InitOutput /\ [][NextOutput]_outputVars

(* ---------------- properties ---------------- *)

\* What appears under the output path is a whole edition of one runner, all its
\* profiles and the manifest and nothing else, whatever died or failed before;
\* and a runner that reports success has published just that.
PublishedWhole ==
    /\ At(Output) \in {{}} \cup {Whole(edition) : edition \in Editions}
    /\ \A edition \in published : At(Output) = Whole(edition)

\* Once there is something under the output path it stays as it is.
NeverOverwritten == [][At(Output) # {} => disk'[Output] = disk[Output]]_outputVars

(* ---------------- proofs ---------------- *)

\* What a runner knows of itself and of its staging directory: while it writes
\* the directory is its own, is there, and holds just what the runner has
\* written, all of it whole.  PublishedWhole alone says nothing of what is about
\* to be renamed.
RunnerRecord ==
    [at : {"idle", "naming", "writing"}, edition : {{}} \cup Editions, path : Nat \X Nat,
     next : Nat, tries : Nat, written : SUBSET ((UNION Editions) \cup {Manifest})]
Content(r) == {File(name, r.edition, TRUE) : name \in r.written}
Staged(pid) ==
    LET r == runner[pid] IN
    /\ r.at # "idle" => r.edition \in Editions
    /\ r.at = "naming" => r.written = {}
    /\ r.at = "writing" =>
          /\ r.path[1] = pid
          /\ Exists(r.path)
          /\ r.written \subseteq r.edition \cup {Manifest}
          /\ disk[r.path] = Content(r)
IInv ==
    /\ runner \in [Runners -> RunnerRecord]
    /\ \A pid \in Runners : Staged(pid)
    /\ PublishedWhole

\* The names of the directories of two runners never meet.
LEMMA PathsDiffer ==
    ASSUME NEW p \in Runners, NEW q \in Runners, p # q, NEW n \in Nat, NEW k \in Nat
    PROVE  StagingPath(p, n) # StagingPath(q, k)
BY DEF StagingPath

\* The directory a runner writes bears its own process id.
LEMMA OwnPath ==
    ASSUME OutputAssumption, IInv, NEW p \in Runners, runner[p].at = "writing"
    PROVE  \E n \in Nat : runner[p].path = StagingPath(p, n)
<1>1. runner[p].path \in Nat \X Nat
  BY DEF IInv, RunnerRecord
<1>2. runner[p].path[1] = p
  BY DEF IInv, Staged
<1> QED BY <1>1, <1>2 DEF StagingPath

\* So it is neither the output nor the directory of another runner.
LEMMA OthersElsewhere ==
    ASSUME OutputAssumption, IInv, NEW p \in Runners, runner[p].at = "writing"
    PROVE  /\ runner[p].path # Output
           /\ \A q \in Runners \ {p} : runner[q].at = "writing" => runner[q].path # runner[p].path
<1>1. PICK n \in Nat : runner[p].path = StagingPath(p, n)
  BY OwnPath
<1>2. runner[p].path # Output
  BY <1>1 DEF OutputAssumption, StagingPath, Output
<1>3. ASSUME NEW q \in Runners \ {p}, runner[q].at = "writing" PROVE runner[q].path # runner[p].path
  <2>1. PICK k \in Nat : runner[q].path = StagingPath(q, k)
    BY <1>3, OwnPath
  <2> QED BY <1>1, <2>1, PathsDiffer
<1> QED BY <1>2, <1>3

\* A step of one runner that touches no other directory than its own leaves the
\* others, and what is published, as they are.
LEMMA OthersUntouched ==
    ASSUME OutputAssumption, IInv, NEW p \in Runners, NEW mine, mine # Output,
           \A q \in Runners \ {p} : runner[q].at = "writing" => runner[q].path # mine,
           runner' \in [Runners -> RunnerRecord],
           \A q \in Runners \ {p} : runner'[q] = runner[q],
           \A path : path # mine => (path \in DOMAIN disk' <=> path \in DOMAIN disk),
           \A path \in DOMAIN disk : path # mine => disk'[path] = disk[path],
           Staged(p)', UNCHANGED published
    PROVE  IInv' /\ (At(Output) # {} => disk'[Output] = disk[Output])
<1>1. ASSUME NEW q \in Runners \ {p} PROVE Staged(q)'
  <2>1. Staged(q) /\ runner'[q] = runner[q]
    BY DEF IInv
  <2>2. CASE runner[q].at = "writing"
    <3>1. runner[q].path \in DOMAIN disk /\ runner[q].path # mine
      BY <2>1, <2>2 DEF Staged, Exists
    <3>2. runner[q].path \in DOMAIN disk' /\ disk'[runner[q].path] = disk[runner[q].path]
      BY <3>1
    <3> QED BY <2>1, <2>2, <3>2 DEF Staged, Exists
  <2>3. CASE runner[q].at # "writing"
    BY <2>1, <2>3 DEF Staged
  <2> QED BY <2>2, <2>3
<1>2. At(Output)' = At(Output)
  BY DEF At, Exists
<1>3. PublishedWhole'
  BY <1>2 DEF IInv, PublishedWhole
<1> QED BY <1>1, <1>2, <1>3 DEF IInv, At, Exists

\* Nobody has begun: the invariant holds.
LEMMA InitIsStaged == InitOutput => IInv
<1> SUFFICES ASSUME InitOutput PROVE IInv
  OBVIOUS
<1>1. Fresh \in RunnerRecord
  BY DEF Fresh, RunnerRecord, Output
<1>2. runner \in [Runners -> RunnerRecord] /\ \A pid \in Runners : Staged(pid)
  BY <1>1 DEF InitOutput, Staged, Fresh
<1>3. PublishedWhole
  BY DEF InitOutput, PublishedWhole, At, Exists
<1> QED BY <1>2, <1>3 DEF IInv

\* A step of one runner that touches no directory at all.
LEMMA NothingWritten ==
    ASSUME OutputAssumption, IInv, NEW p \in Runners, UNCHANGED <<disk, published>>,
           runner' \in [Runners -> RunnerRecord], \A q \in Runners \ {p} : runner'[q] = runner[q],
           Staged(p)'
    PROVE  IInv' /\ (At(Output) # {} => disk'[Output] = disk[Output])
<1> DEFINE mine == StagingPath(p, 0)
<1>1. mine # Output /\ mine[1] = p
  BY DEF OutputAssumption, StagingPath, Output
<1>2. \A q \in Runners \ {p} : runner[q].at = "writing" => runner[q].path # mine
  BY <1>1 DEF IInv, Staged
<1> HIDE DEF mine
<1> QED BY <1>1, <1>2, OthersUntouched

\* A publication that begins has written nothing yet, or ends at once because
\* the output exists.
LEMMA BeginKeeps ==
    ASSUME OutputAssumption, IInv, NEW p \in Runners, Begin(p)
    PROVE  IInv' /\ (At(Output) # {} => disk'[Output] = disk[Output])
<1>1. PICK edition \in Editions :
          runner' = [runner EXCEPT ![p].edition = edition, ![p].tries = 0, ![p].written = {},
                                   ![p].at = IF Exists(Output) THEN "idle" ELSE "naming"]
  BY DEF Begin
<1>2. runner[p] \in RunnerRecord
  BY DEF IInv
<1>3. /\ runner'[p] \in RunnerRecord
      /\ runner'[p].at # "writing" /\ runner'[p].edition = edition /\ runner'[p].written = {}
  BY <1>1, <1>2 DEF IInv, RunnerRecord
<1>4. runner' \in [Runners -> RunnerRecord] /\ \A q \in Runners \ {p} : runner'[q] = runner[q]
  BY <1>1, <1>3 DEF IInv
<1>5. Staged(p)'
  BY <1>3 DEF Staged
<1> QED BY <1>4, <1>5, NothingWritten DEF Begin

\* The name is free, so that the new directory is empty and no one else's; or it
\* is taken and the next one is tried, at most MaxAttempts times.
LEMMA CreateKeeps ==
    ASSUME OutputAssumption, IInv, NEW p \in Runners, CreateStaging(p)
    PROVE  IInv' /\ (At(Output) # {} => disk'[Output] = disk[Output])
<1> DEFINE r == runner[p]
           mine == StagingPath(p, r.next)
<1>1. r \in RunnerRecord /\ Staged(p) /\ r.at = "naming"
  BY DEF IInv, CreateStaging
<1>2. r.next \in Nat /\ mine \in Nat \X Nat /\ mine # Output /\ mine[1] = p
  BY <1>1 DEF RunnerRecord, OutputAssumption, StagingPath, Output
<1>3. CASE r.tries = MaxAttempts
  <2>1. runner' = [runner EXCEPT ![p].at = "idle"] /\ UNCHANGED <<disk, published>>
    BY <1>3 DEF CreateStaging
  <2>2. runner'[p] \in RunnerRecord /\ runner'[p].at = "idle"
    BY <1>1, <2>1 DEF IInv, RunnerRecord
  <2>3. runner' \in [Runners -> RunnerRecord] /\ \A q \in Runners \ {p} : runner'[q] = runner[q]
    BY <2>1, <2>2 DEF IInv
  <2>4. Staged(p)'
    BY <2>2 DEF Staged
  <2> QED BY <2>1, <2>3, <2>4, NothingWritten
<1>4. CASE r.tries # MaxAttempts /\ IsFree(mine)
  <2>1. /\ disk' = Put(mine, At(mine)) /\ UNCHANGED published
        /\ runner' = [runner EXCEPT ![p].at = "writing", ![p].path = mine, ![p].next = @ + 1]
    BY <1>4 DEF CreateStaging
  <2>2. /\ runner'[p] \in RunnerRecord
        /\ runner'[p].at = "writing" /\ runner'[p].path = mine
        /\ runner'[p].edition = r.edition /\ runner'[p].written = r.written
    BY <1>1, <1>2, <2>1 DEF IInv, RunnerRecord
  <2>3. runner' \in [Runners -> RunnerRecord] /\ \A q \in Runners \ {p} : runner'[q] = runner[q]
    BY <2>1, <2>2 DEF IInv
  <2>4. DOMAIN disk' = DOMAIN disk \cup {mine} /\ disk'[mine] = {}
    BY <1>4, <2>1 DEF Put, At, IsFree, Exists
  <2>5. Staged(p)'
    <3>1. Content(runner'[p]) = {}
      BY <1>1, <2>2 DEF Staged, Content
    <3> QED BY <1>1, <1>2, <2>2, <2>4, <3>1 DEF Staged, Exists
  <2>6. \A path \in DOMAIN disk : path # mine => disk'[path] = disk[path]
    BY <2>1 DEF Put
  <2>7. \A q \in Runners \ {p} : runner[q].at = "writing" => runner[q].path # mine
    BY <1>2 DEF IInv, Staged
  <2> HIDE DEF mine, r
  <2> QED BY <1>2, <2>1, <2>3, <2>4, <2>5, <2>6, <2>7, OthersUntouched
<1>5. CASE r.tries # MaxAttempts /\ ~IsFree(mine)
  <2>1. /\ runner' = [runner EXCEPT ![p].next = @ + 1, ![p].tries = @ + 1]
        /\ UNCHANGED <<disk, published>>
    BY <1>5 DEF CreateStaging
  <2>2. /\ runner'[p] \in RunnerRecord /\ runner'[p].at = "naming"
        /\ runner'[p].edition = r.edition /\ runner'[p].written = r.written
    BY <1>1, <2>1 DEF IInv, RunnerRecord
  <2>3. runner' \in [Runners -> RunnerRecord] /\ \A q \in Runners \ {p} : runner'[q] = runner[q]
    BY <2>1, <2>2 DEF IInv
  <2>4. Staged(p)'
    BY <1>1, <2>2 DEF Staged
  <2> QED BY <2>1, <2>3, <2>4, NothingWritten
<1> QED BY <1>3, <1>4, <1>5

\* One file more, whole, in the runner's own directory.
LEMMA WriteKeeps ==
    ASSUME OutputAssumption, IInv, NEW p \in Runners, Write(p)
    PROVE  IInv' /\ (At(Output) # {} => disk'[Output] = disk[Output])
<1> DEFINE r == runner[p]
           mine == r.path
<1>1. r \in RunnerRecord /\ Staged(p) /\ r.at = "writing"
  BY DEF IInv, Write
<1>2. mine # Output /\ \A q \in Runners \ {p} : runner[q].at = "writing" => runner[q].path # mine
  BY <1>1, OthersElsewhere
<1>3. PICK name \in Wanted(r) :
          /\ disk' = Put(mine, Replaced(At(mine), name, r.edition, TRUE))
          /\ runner' = [runner EXCEPT ![p].written = @ \cup {name}]
  BY DEF Write
<1>4. name \in r.edition \cup {Manifest} /\ r.edition \in Editions
  BY <1>1 DEF Wanted, Staged
<1>5. /\ runner'[p] \in RunnerRecord /\ runner'[p].written = r.written \cup {name}
      /\ runner'[p].at = "writing" /\ runner'[p].path = mine /\ runner'[p].edition = r.edition
  <2>1. runner'[p] = [r EXCEPT !.written = @ \cup {name}]
    BY <1>3 DEF IInv
  <2> QED BY <1>1, <1>4, <2>1 DEF RunnerRecord
<1>6. runner' \in [Runners -> RunnerRecord] /\ \A q \in Runners \ {p} : runner'[q] = runner[q]
  BY <1>3, <1>5 DEF IInv
<1>7. /\ mine \in DOMAIN disk /\ DOMAIN disk' = DOMAIN disk
      /\ disk'[mine] = Replaced(Content(r), name, r.edition, TRUE)
      /\ \A path \in DOMAIN disk : path # mine => disk'[path] = disk[path]
  BY <1>1, <1>3 DEF Put, At, Exists, Staged
<1>8. Replaced(Content(r), name, r.edition, TRUE) = Content(runner'[p])
  BY <1>5 DEF Replaced, Content, File
<1>9. Staged(p)'
  BY <1>1, <1>4, <1>5, <1>7, <1>8 DEF Staged, Exists
<1> HIDE DEF mine, r
<1> QED BY <1>2, <1>6, <1>7, <1>9, OthersUntouched, ZenonT(60) DEF Write

\* A runner that stops may leave or remove its directory, or spoil a file in it;
\* nobody reads what it leaves.
LEMMA StopKeeps ==
    ASSUME OutputAssumption, IInv, NEW p \in Runners, runner[p].at = "writing",
           NEW files,
           disk' = Without(runner[p].path) \/ disk' = Put(runner[p].path, files),
           NEW r \in RunnerRecord, r.at = "idle", runner' = [runner EXCEPT ![p] = r],
           UNCHANGED published
    PROVE  IInv' /\ (At(Output) # {} => disk'[Output] = disk[Output])
<1> DEFINE mine == runner[p].path
<1>1. mine # Output /\ \A q \in Runners \ {p} : runner[q].at = "writing" => runner[q].path # mine
  BY OthersElsewhere
<1>2. /\ \A path : path # mine => (path \in DOMAIN disk' <=> path \in DOMAIN disk)
      /\ \A path \in DOMAIN disk : path # mine => disk'[path] = disk[path]
  BY DEF Put, Without
<1>3. /\ runner' \in [Runners -> RunnerRecord] /\ runner'[p] = r
      /\ \A q \in Runners \ {p} : runner'[q] = runner[q]
  BY DEF IInv
<1>4. Staged(p)'
  BY <1>3 DEF Staged
<1> HIDE DEF mine
<1> QED BY <1>1, <1>2, <1>3, <1>4, OthersUntouched

\* A failed call leaves the directory, removes it, or leaves half a file in it.
LEMMA FailKeeps ==
    ASSUME OutputAssumption, IInv, NEW p \in Runners, Fail(p)
    PROVE  IInv' /\ (At(Output) # {} => disk'[Output] = disk[Output])
<1> DEFINE r == [runner[p] EXCEPT !.at = "idle"]
<1>1. r \in RunnerRecord /\ r.at = "idle" /\ runner' = [runner EXCEPT ![p] = r] /\ UNCHANGED published
  BY DEF Fail, IInv, RunnerRecord
<1>2. runner[p].at = "writing"
  BY DEF Fail
<1>3. CASE UNCHANGED disk
  <2>1. /\ runner' \in [Runners -> RunnerRecord] /\ runner'[p].at = "idle"
        /\ \A q \in Runners \ {p} : runner'[q] = runner[q]
    BY <1>1 DEF IInv
  <2>2. Staged(p)'
    BY <2>1 DEF Staged
  <2> QED BY <1>1, <1>3, <2>1, <2>2, NothingWritten
<1>4. CASE disk' = Without(runner[p].path)
  <2> HIDE DEF r
  <2> QED BY <1>1, <1>2, <1>4, StopKeeps
<1>5. CASE \E name \in Wanted(runner[p]) :
               disk' = Put(runner[p].path,
                           Replaced(At(runner[p].path), name, runner[p].edition, FALSE))
  <2> HIDE DEF r
  <2> QED BY <1>1, <1>2, <1>5, StopKeeps
<1> QED BY <1>3, <1>4, <1>5 DEF Fail

\* So does the death of the process, and its successor starts with nothing.
LEMMA DieKeeps ==
    ASSUME OutputAssumption, IInv, NEW p \in Runners, Die(p)
    PROVE  IInv' /\ (At(Output) # {} => disk'[Output] = disk[Output])
<1>1. /\ Fresh \in RunnerRecord /\ Fresh.at = "idle"
      /\ runner' = [runner EXCEPT ![p] = Fresh] /\ UNCHANGED published
  BY DEF Die, Fresh, RunnerRecord, Output
<1>2. CASE UNCHANGED disk
  <2>1. /\ runner' \in [Runners -> RunnerRecord] /\ runner'[p].at = "idle"
        /\ \A q \in Runners \ {p} : runner'[q] = runner[q]
    BY <1>1 DEF IInv
  <2>2. Staged(p)'
    BY <2>1 DEF Staged
  <2> QED BY <1>1, <1>2, <2>1, <2>2, NothingWritten
<1>3. CASE /\ runner[p].at = "writing"
           /\ \E name \in Wanted(runner[p]) :
                  disk' = Put(runner[p].path,
                              Replaced(At(runner[p].path), name, runner[p].edition, FALSE))
  BY <1>1, <1>3, StopKeeps
<1> QED BY <1>2, <1>3 DEF Die

\* The one step that fills the output, and the one that makes it empty.
LEMMA PublishKeeps ==
    ASSUME OutputAssumption, IInv, NEW p \in Runners, Publish(p)
    PROVE  IInv' /\ (At(Output) # {} => disk'[Output] = disk[Output])
<1> DEFINE r == runner[p]
<1>1. r \in RunnerRecord /\ Staged(p) /\ r.at = "writing" /\ IsWritten(r) /\ At(Output) = {}
  BY DEF IInv, Publish, MayRename
<1>2. r.edition \in Editions /\ r.written = r.edition \cup {Manifest} /\ r.path \in DOMAIN disk
  BY <1>1 DEF Staged, IsWritten, Exists
<1>3. At(r.path) = Whole(r.edition)
  BY <1>1, <1>2 DEF Staged, Content, Whole, At, Exists
<1>4. published = {}
  <2>1. \A edition \in published : File(Manifest, edition, TRUE) \in At(Output)
    BY DEF IInv, PublishedWhole, Whole
  <2> QED BY <1>1, <2>1
<1>5. /\ DOMAIN disk' = (DOMAIN disk \ {r.path}) \cup {Output} /\ disk'[Output] = At(r.path)
      /\ \A path \in DOMAIN disk' : path # Output => disk'[path] = disk[path]
      /\ published' = {r.edition}
  BY <1>4 DEF Publish
<1>6. PublishedWhole'
  <2>1. At(Output)' = Whole(r.edition)
    BY <1>3, <1>5 DEF At, Exists
  <2> QED BY <1>2, <1>5, <2>1 DEF PublishedWhole
<1>7. /\ runner' \in [Runners -> RunnerRecord] /\ runner'[p].at = "idle"
      /\ \A q \in Runners \ {p} : runner'[q] = runner[q]
  BY SMTT(40) DEF Publish, IInv, RunnerRecord
<1>8. ASSUME NEW q \in Runners PROVE Staged(q)'
  <2>1. CASE q = p \/ runner[q].at # "writing"
    BY <1>7, <2>1 DEF IInv, Staged
  <2>2. CASE q # p /\ runner[q].at = "writing"
    <3>1. runner[q].path \in DOMAIN disk /\ runner[q].path # r.path /\ runner[q].path # Output
      BY <1>1, <2>2, OthersElsewhere DEF IInv, Staged, Exists
    <3>2. runner[q].path \in DOMAIN disk' /\ disk'[runner[q].path] = disk[runner[q].path]
      BY <1>5, <3>1
    <3>3. Staged(q) /\ runner'[q] = runner[q]
      BY <1>7, <2>2 DEF IInv
    <3> QED BY <2>2, <3>2, <3>3 DEF Staged, Exists
  <2> QED BY <2>1, <2>2
<1> QED BY <1>1, <1>6, <1>7, <1>8 DEF IInv

\* An empty directory at the output is as good as none.
LEMMA MakeKeeps ==
    ASSUME OutputAssumption, IInv, MakeOutput
    PROVE  IInv' /\ (At(Output) # {} => disk'[Output] = disk[Output])
<1>1. At(Output) = {} /\ At(Output)' = {}
  BY DEF MakeOutput, At, Put, Exists
<1>2. /\ DOMAIN disk' = DOMAIN disk \cup {Output}
      /\ \A path \in DOMAIN disk : disk'[path] = disk[path]
  BY DEF MakeOutput, Put, Exists
<1>3. ASSUME NEW q \in Runners PROVE Staged(q)'
  <2>1. Staged(q) /\ runner'[q] = runner[q]
    BY DEF IInv, MakeOutput
  <2> QED BY <1>2, <2>1 DEF Staged, Exists
<1>4. PublishedWhole'
  BY <1>1 DEF IInv, PublishedWhole, MakeOutput
<1> QED BY <1>1, <1>3, <1>4 DEF IInv, MakeOutput

\* Every step keeps the invariant and what is at the output.
LEMMA StepKeeps ==
    ASSUME OutputAssumption, IInv, [NextOutput]_outputVars
    PROVE  IInv' /\ (At(Output) # {} => disk'[Output] = disk[Output])
<1>1. CASE UNCHANGED outputVars
  <2>1. ASSUME NEW q \in Runners PROVE Staged(q)'
    BY <1>1 DEF IInv, Staged, outputVars, Exists
  <2>2. PublishedWhole'
    BY <1>1 DEF IInv, PublishedWhole, outputVars, At, Exists
  <2> QED BY <1>1, <2>1, <2>2 DEF IInv, outputVars
<1>2. CASE MakeOutput
  BY <1>2, MakeKeeps
<1>3. ASSUME NEW p \in Runners, Begin(p) \/ CreateStaging(p) \/ Write(p) \/ Publish(p) \/ Fail(p) \/ Die(p)
      PROVE  IInv' /\ (At(Output) # {} => disk'[Output] = disk[Output])
  BY <1>3, BeginKeeps, CreateKeeps, WriteKeeps, PublishKeeps, FailKeeps, DieKeeps
<1> QED BY <1>1, <1>2, <1>3 DEF NextOutput

\* Whatever fails or dies, and however many runners share the directory: what is
\* under the output path is a whole edition or nothing, and a runner that
\* reports success has published just that.
THEOREM OutputIsWhole ==
    ASSUME OutputAssumption PROVE OutputSpec => []PublishedWhole
<1>1. IInv => PublishedWhole
  BY DEF IInv
<1>2. IInv /\ [NextOutput]_outputVars => IInv'
  BY StepKeeps
<1> QED BY InitIsStaged, <1>1, <1>2, PTL DEF OutputSpec

\* Once something is under the output path no runner replaces it.
THEOREM OutputStays ==
    ASSUME OutputAssumption PROVE OutputSpec => NeverOverwritten
<1>1. IInv /\ [NextOutput]_outputVars => IInv'
  BY StepKeeps
<1>2. IInv /\ [NextOutput]_outputVars
          => [At(Output) # {} => disk'[Output] = disk[Output]]_outputVars
  BY StepKeeps
<1> QED BY InitIsStaged, <1>1, <1>2, PTL DEF OutputSpec, NeverOverwritten
====
