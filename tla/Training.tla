------------------------------ MODULE Training ------------------------------
(***************************************************************************)
(* EvolutionTrainingAgent: a population of prompts, each with the average  *)
(* of its test cases, is bred, tested, improved, merged and cut to the     *)
(* best, generation after generation, and saved to a file with rotating    *)
(* backups.  The process may crash between any two steps of a save; the    *)
(* next run loads the file.  What the models answer is arbitrary.          *)
(***************************************************************************)
EXTENDS Naturals, FiniteSetsExt, Functions, SequencesExt

CONSTANTS Prompts,         \* the prompts there are; two variants with one prompt are duplicates
          Seed,            \* the prompt the population is seeded with
          NCases,          \* test cases
          CheckAfter,      \* earlyTerminationCheckAfter
          TopK,            \* topK
          MaxBrood,        \* children of a generation, optimized ones included
          Limits,          \* values of maxGenerations; 0 is no limit
          Patience,        \* maxGenerationsWithoutImprovement
          Backups,         \* saveFileBackupCount
          MaxRuns,         \* bound: runs of the training
          MaxCount         \* bound: generations are not counted beyond it

\* A test case is passed or not; an average is the number of cases passed of NCases.
Scores   == 0..NCases
Variants == [prompt : Prompts, score : Scores, tested : BOOLEAN]

VARIABLES
  limit,       \* maxGenerations
  pc,          \* "off", "loop", or the step of the save: see SaveSteps
  population,  \* population, as a set: sorting only decides who is cut
  generation,  \* generationCounter
  bestEver,    \* bestScoreEver
  idle,        \* generationsWithoutImprovement
  rotating,    \* the backup the rotation moves next
  file,        \* the save file: Absent, Torn, or what was saved
  backup,      \* backup[i]: the file with the suffix .i
  lastSaved,   \* what the last complete save wrote
  bestSaved,   \* the best score it ever wrote
  freshOverTorn,  \* a run has started afresh because the file was torn
  runs

runVars == <<population, generation, bestEver, idle>>
vars == <<limit, pc, runVars, rotating, file, backup, lastSaved, bestSaved, freshOverTorn, runs>>

Content(whole, ps, g) == [whole |-> whole, population |-> ps, generation |-> g]
Absent == Content("absent", {}, 0)
Torn   == Content("torn", {}, 0)

SaveSteps == {"rotate", "copy", "truncate", "write"}

TypeOK ==
  /\ limit \in Limits
  /\ pc \in {"off", "loop"} \cup SaveSteps
  /\ population \subseteq Variants /\ Cardinality(population) <= TopK
  /\ bestEver \in Scores /\ idle \in 0..Patience /\ rotating \in 1..Backups
  /\ generation \in 0..MaxCount /\ runs \in 0..MaxRuns /\ freshOverTorn \in BOOLEAN

Init ==
  /\ limit \in Limits
  /\ pc = "off" /\ population = {} /\ generation = 0 /\ bestEver = 0 /\ idle = 0
  /\ rotating = Backups /\ file = Absent /\ backup = [i \in 1..Backups |-> Absent]
  /\ lastSaved = Absent /\ bestSaved = 0 /\ freshOverTorn = FALSE /\ runs = 0

-----------------------------------------------------------------------------
\* evaluateVariant: the cases are tested in order; once CheckAfter of them are done, an average
\* below the threshold (none passed) leaves the others at 0.
Tested(passed) ==
  LET Stops(n) == n >= CheckAfter /\ \A i \in 1..n : ~passed[i]
      Done == {n \in 1..NCases : \A m \in 1..n - 1 : ~Stops(m)}
  IN Cardinality({n \in Done : passed[n]})

\* The children of a generation: of any prompts, since the models answer anything, and with the
\* scores the tests give them.
Broods ==
  {{[prompt |-> p, score |-> Tested(results[p]), tested |-> TRUE] : p \in DOMAIN results} :
     results \in UNION {[S -> [1..NCases -> BOOLEAN]] :
                        S \in UNION {kSubset(n, Prompts) : n \in 1..MaxBrood}}}

\* deduplicatePopulation over the old population and then the new variants: the first one stays.
Deduplicated(old, new) == old \cup {v \in new : \A o \in old : o.prompt # v.prompt}

\* Slip: sorted the other way round.
CutsTheBest(variants) ==
  {kept \in SUBSET variants :
     /\ Cardinality(kept) = Min({TopK, Cardinality(variants)})
     /\ \A k \in kept, c \in variants \ kept : k.score <= c.score}

\* The sort and the resize: those cut are no better than those kept; equal ones are cut at will.
Cuts(variants) ==
  {kept \in SUBSET variants :
     /\ Cardinality(kept) = Min({TopK, Cardinality(variants)})
     /\ \A k \in kept, c \in variants \ kept : k.score >= c.score}

Best(variants) == Max({v.score : v \in variants} \cup {0})

-----------------------------------------------------------------------------
\* loadPopulationFromFile: a file that is not there or does not parse is no population.
Loads == file.whole = "saved"

\* The population of the file, or the seed when there is nothing to load.
Begin ==
  /\ pc = "off" /\ runs < MaxRuns
  /\ pc' = "loop" /\ runs' = runs + 1 /\ idle' = 0
  /\ IF Loads
     THEN population' = file.population /\ generation' = file.generation
     ELSE /\ population' = {[prompt |-> Seed, score |-> 0, tested |-> FALSE]}
          /\ generation' = 0
  /\ bestEver' = Best(population')
  /\ freshOverTorn' = (freshOverTorn \/ file = Torn)
  /\ UNCHANGED <<limit, rotating, file, backup, lastSaved, bestSaved>>

\* Slip: a generation as good as the best counts as an improvement.
GenerationEasilyPleased ==
  /\ pc = "loop"
  /\ generation' = Min({generation + 1, MaxCount})
  /\ \E brood \in Broods : population' \in Cuts(Deduplicated(population, brood))
  /\ IF Best(population') >= bestEver
     THEN bestEver' = Best(population') /\ idle' = 0
     ELSE idle' = idle + 1 /\ UNCHANGED bestEver
  /\ pc' = "rotate" /\ rotating' = Backups
  /\ UNCHANGED <<limit, file, backup, lastSaved, bestSaved, freshOverTorn, runs>>

\* One turn of the loop up to the save: breed, test, optimize, test, merge, cut, compare.
Generation ==
  /\ pc = "loop"
  /\ generation' = Min({generation + 1, MaxCount})
  /\ \E brood \in Broods : population' \in Cuts(Deduplicated(population, brood))
  /\ IF Best(population') > bestEver
     THEN bestEver' = Best(population') /\ idle' = 0
     ELSE idle' = idle + 1 /\ UNCHANGED bestEver
  /\ pc' = "rotate" /\ rotating' = Backups
  /\ UNCHANGED <<limit, file, backup, lastSaved, bestSaved, freshOverTorn, runs>>

\* rotateSaveFile: the oldest backup is removed, the others move up one by one.
Rotate ==
  /\ pc = "rotate"
  /\ backup' = IF rotating = Backups THEN [backup EXCEPT ![rotating] = Absent]
               ELSE [backup EXCEPT ![rotating + 1] = backup[rotating], ![rotating] = Absent]
  /\ IF rotating = 1 THEN pc' = "copy" /\ UNCHANGED rotating
     ELSE rotating' = rotating - 1 /\ UNCHANGED pc
  /\ UNCHANGED <<limit, runVars, file, lastSaved, bestSaved, freshOverTorn, runs>>

\* Slip: the current file is never copied.
CopyForgotten ==
  /\ pc = "copy"
  /\ pc' = "truncate"
  /\ UNCHANGED <<limit, runVars, rotating, file, backup, lastSaved, bestSaved, freshOverTorn, runs>>

\* The file itself is copied to the first backup: it stays where it is.
Copy ==
  /\ pc = "copy"
  /\ backup' = IF file = Absent THEN backup ELSE [backup EXCEPT ![1] = file]
  /\ pc' = "truncate"
  /\ UNCHANGED <<limit, runVars, rotating, file, lastSaved, bestSaved, freshOverTorn, runs>>

\* savePopulationToFile opens the file with ios::trunc ...
Truncate ==
  /\ pc = "truncate"
  /\ file' = Torn /\ pc' = "write"
  /\ UNCHANGED <<limit, runVars, rotating, backup, lastSaved, bestSaved, freshOverTorn, runs>>

\* The stop conditions of the loop, each of which saves before it breaks.
Stops ==
  \/ idle >= Patience
  \/ limit > 0 /\ generation >= limit

\* ... and writes it.
Write ==
  /\ pc = "write"
  /\ file' = Content("saved", population, generation) /\ lastSaved' = file'
  /\ bestSaved' = Max({bestSaved, Best(population)})
  /\ pc' = IF Stops THEN "off" ELSE "loop"
  /\ UNCHANGED <<limit, runVars, rotating, backup, freshOverTorn, runs>>

\* The process dies, or an exception leaves the loop.
Crash ==
  /\ pc # "off" /\ runs < MaxRuns
  /\ pc' = "off"
  /\ UNCHANGED <<limit, runVars, rotating, file, backup, lastSaved, bestSaved, freshOverTorn, runs>>

Saving == Rotate \/ Copy \/ Truncate \/ Write
Next == Begin \/ Generation \/ Saving \/ Crash

\* The models answer and the disk is written: the loop goes on.
Spec == Init /\ [][Next]_vars /\ WF_vars(Generation \/ Saving)

-----------------------------------------------------------------------------
\* In whatever step a crash comes, the last population saved is in the file or in its first backup.
\* After a run has begun afresh over a torn file, the rotation drops it in the end.
SavedCopyKept == lastSaved # Absent /\ ~freshOverTorn => lastSaved \in {file, backup[1]}

\* Within a run the best score of the population never falls, and the population keeps one variant
\* per prompt; and a run begins with the best score ever saved, crashes in between or not, unless one
\* has begun afresh over a torn file.
BestKept ==
  [][/\ pc # "off" /\ pc' # "off" => Best(population') >= Best(population)
     /\ pc = "off" /\ pc' # "off" /\ ~freshOverTorn' => Best(population') >= bestSaved
     /\ \A v, w \in population' : v.prompt = w.prompt => v = w]_vars

\* Every run ends: scores are bounded, and without an improvement patience runs out.
TrainingEnds == pc # "off" ~> pc = "off"

\* (Does not hold.)  Some file holds a population as good as the best ever saved: a run that finds
\* the file torn looks at no backup, begins afresh, and rotates the good copy away.
NeverForgotten ==
  \E c \in {file} \cup {backup[i] : i \in 1..Backups} : Best(c.population) >= bestSaved

\* (Does not hold.)  Training takes no more than its limit of generations: the counter is saved,
\* and a run that loads it does one more before it looks.
GenerationsBounded == limit > 0 => generation <= limit

\* (Does not hold.)  What a generation leaves has been tested: the seed never is.
AllTested == pc \in SaveSteps => \A v \in population : v.tested
=============================================================================
