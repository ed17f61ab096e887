---------------------------- MODULE Parts_proofs ----------------------------
(***************************************************************************)
(* Proofs about the parts whose behaviours MCPeers and MCWorkers hold, and *)
(* about HttpServer, for any numbers of prompts, calls, entries, files,    *)
(* connections and threads.  A part has an inductive invariant of its own; *)
(* the parts share no variable, so it holds of the behaviours that are     *)
(* that part's.                                                            *)
(***************************************************************************)
EXTENDS MCPeers, MCWorkers, HttpServer, Sequences, FiniteSetTheorems, WellFoundedInduction, TLAPS

(***************************************************************************)
(* A step of MCWorkers is one of the part that runs.                       *)
(***************************************************************************)
LEMMA WorkersStep ==
  ASSUME [WorkersNext]_workersVars
  PROVE  /\ job' = job
         /\ [Trainer!Next]_trainingVars
         /\ job = "commands" => [Commands!Next]_commandVars
         /\ IF job = "requests" THEN [Requests!Next]_httpVars ELSE UNCHANGED httpVars
         /\ job = "graph" => [Graph!Next]_graphVars
         /\ job = "bus" => [Bus!Next]_busVars
         /\ job = "monitor" => [Monitor!Next]_monitorVars
BY DEF WorkersNext, Works, workersVars

(***************************************************************************)
(* A step of MCPeers is one of the part that runs.                         *)
(***************************************************************************)
LEMMA PeersStep ==
  ASSUME [PeersNext]_peersVars
  PROVE  /\ peer' = peer
         /\ peer = "agent" => [Agent!Next]_agentVars
         /\ peer = "client" => [Client!Next]_clientVars
         /\ peer = "serving" => [Serving!Next]_servingVars
         /\ peer = "outbound" => [Outbound!Next]_outboundVars
BY DEF PeersNext, With, peersVars

-----------------------------------------------------------------------------
(* Numbers.                                                                *)

(***************************************************************************)
(* A set of numbers up to n that is not empty has a greatest one.          *)
(* The library's least-number theorems take an operator; the sets m .. n   *)
(* ordered by inclusion say the same without one.                          *)
(***************************************************************************)
LEMMA GreatestExists ==
  ASSUME NEW n \in Nat, NEW S \in SUBSET (0 .. n), S # {}
  PROVE  \E i \in S : \A j \in S : i >= j
<1> DEFINE Above(m) == m .. n
           T == {Above(m) : m \in S}
<1>1. T \subseteq FiniteSubsetsOf(Nat) /\ T # {}
  <2>1. \A m \in S : Above(m) \in SUBSET Nat /\ IsFiniteSet(Above(m))
    BY FS_Interval
  <2>. QED
    BY <2>1 DEF FiniteSubsetsOf
<1>2. IsWellFoundedOn(StrictSubsetOrdering(Nat), FiniteSubsetsOf(Nat))
  BY FS_StrictSubsetOrderingWellFounded
<1>3. \E x \in T : \A y \in T : ~ (<<y, x>> \in StrictSubsetOrdering(Nat))
  <2>. HIDE DEF T
  <2>. QED
    BY <1>1, <1>2, WFMin
<1>4. PICK i \in S : \A j \in S : <<Above(j), Above(i)>> \notin StrictSubsetOrdering(Nat)
  BY <1>3
<1>5. ASSUME NEW j \in S, i < j
      PROVE  FALSE
  <2>1. Above(j) \subseteq Above(i) /\ i \notin Above(j) /\ i \in Above(i)
    BY <1>5
  <2>2. Above(j) # Above(i) /\ Above(j) \in SUBSET Nat /\ Above(i) \in SUBSET Nat
    BY <2>1
  <2>. QED
    BY <1>4, <2>1, <2>2 DEF StrictSubsetOrdering
<1>6. \A j \in S : i >= j
  BY <1>5
<1>. QED
  BY <1>6

(***************************************************************************)
(* Likewise a least one: read from n downwards, it is the greatest.        *)
(***************************************************************************)
LEMMA LeastExists ==
  ASSUME NEW n \in Nat, NEW S \in SUBSET (0 .. n), S # {}
  PROVE  \E i \in S : \A j \in S : i <= j
<1>. DEFINE T == {n - i : i \in S}
<1>1. T \in SUBSET (0 .. n) /\ T # {}
  <2>1. \A i \in S : i \in 0 .. n /\ n - i \in 0 .. n
    OBVIOUS
  <2>. QED
    BY <2>1
<1>2. PICK t \in T : \A u \in T : t >= u
  <2>. HIDE DEF T
  <2>. QED
    BY <1>1, GreatestExists
<1>3. PICK i \in S : t = n - i
  BY <1>2
<1>4. ASSUME NEW j \in S PROVE i <= j
  <2>1. n - i >= n - j /\ i \in 0 .. n /\ j \in 0 .. n
    BY <1>2, <1>3
  <2>. QED
    BY <2>1
<1>. QED
  BY <1>4

-----------------------------------------------------------------------------
(* HttpServer.                                                             *)

(***************************************************************************)
(* The connections and the workers they are given to have their types, and *)
(* the two properties are inductive with them.                             *)
(***************************************************************************)
HttpIInv ==
  /\ conn \in [Conns -> Active \cup {"none", "offered", "dropped", "ended"}]
  /\ ActiveCounted
  /\ StreamsRegistered

(***************************************************************************)
(* There are finitely many connections.                                    *)
(***************************************************************************)
LEMMA LiveFinite == IsFiniteSet(Live) /\ Cardinality(Live) \in Nat
<1>1. IsFiniteSet(Conns)
  BY ConstantsAssumption, FS_Interval DEF Conns
<1>. QED
  BY <1>1, FS_Subset, FS_CardinalityType DEF Live

(***************************************************************************)
(* The guard of a connection that ends counts it down once.                *)
(***************************************************************************)
LEMMA EndsCounted ==
  ASSUME HttpIInv, NEW c \in Conns, conn[c] \in Active, Ends(c)
  PROVE  /\ conn' = [conn EXCEPT ![c] = "ended"]
         /\ conn' \in [Conns -> Active \cup {"none", "offered", "dropped", "ended"}]
         /\ ActiveCounted'
<1>1. conn' = [conn EXCEPT ![c] = "ended"] /\ count' = count - 1
  BY DEF Ends, To, Uncounted
<1>2. conn' \in [Conns -> Active \cup {"none", "offered", "dropped", "ended"}]
  BY <1>1 DEF HttpIInv
<1>3. Live' = Live \ {c} /\ c \in Live
  BY <1>1 DEF HttpIInv, Live, Active
<1>4. Cardinality(Live \ {c}) = Cardinality(Live) - 1
  BY <1>3, LiveFinite, FS_RemoveElement
<1>5. ActiveCounted'
  BY <1>1, <1>3, <1>4, LiveFinite, ConstantsAssumption DEF HttpIInv, ActiveCounted
<1>. QED
  BY <1>1, <1>2, <1>5

(***************************************************************************)
(* A step that makes no connection live, or ended, keeps the count.        *)
(***************************************************************************)
LEMMA LiveStays ==
  ASSUME HttpIInv, NEW c \in Conns, NEW where, To(c, where), UNCHANGED count,
         \/ conn[c] \in Active /\ where \in Active
         \/ conn[c] \in {"none", "offered"} /\ where \in {"offered", "dropped"}
  PROVE  /\ conn' \in [Conns -> Active \cup {"none", "offered", "dropped", "ended"}]
         /\ ActiveCounted'
<1>1. conn' \in [Conns -> Active \cup {"none", "offered", "dropped", "ended"}]
  BY DEF HttpIInv, To
<1>2. Live' = Live
  BY DEF HttpIInv, To, Live, Active
<1>. QED
  BY <1>1, <1>2 DEF HttpIInv, ActiveCounted

(***************************************************************************)
(* A new server has no connection.                                         *)
(***************************************************************************)
LEMMA HttpInit == Init => HttpIInv
<1>. SUFFICES ASSUME Init PROVE HttpIInv
  OBVIOUS
<1>1. Live = {}
  BY DEF Init, Live, Active
<1>2. streams = {c \in Conns : conn[c] \in {"opening", "streaming"}}
  BY DEF Init
<1>3. ActiveCounted
  BY <1>1, FS_EmptySet, ConstantsAssumption DEF Init, ActiveCounted
<1>. QED
  BY <1>2, <1>3 DEF Init, HttpIInv, StreamsRegistered

(***************************************************************************)
(* No step of a connection, of the accept loop or of a thread miscounts    *)
(* the connections or leaves a stream in the registry that is over.        *)
(***************************************************************************)
LEMMA HttpStep == HttpIInv /\ [Next]_vars => HttpIInv'
<1>. SUFFICES ASSUME HttpIInv, [Next]_vars PROVE HttpIInv'
  OBVIOUS
<1>. USE DEF lifeVars, loopVars, requestVars
<1>1. ASSUME UNCHANGED <<count, conn, streams>>, stopping' = "no" => stopping = "no"
      PROVE  HttpIInv'
  BY <1>1 DEF HttpIInv, ActiveCounted, Live, StreamsRegistered
<1>2. ASSUME StopStreams PROVE HttpIInv'
  BY <1>2 DEF StopStreams, HttpIInv, ActiveCounted, Live, StreamsRegistered
<1>3. ASSUME NEW c \in Conns, Accept(c) PROVE HttpIInv'
  <2>1. CASE count >= MaxConnections
    <3>1. conn[c] = "offered" /\ To(c, "dropped") /\ UNCHANGED <<count, streams, stopping>>
      BY <1>3, <2>1 DEF Accept, To
    <3>. QED
      BY <3>1, LiveStays DEF HttpIInv, StreamsRegistered, To
  <2>2. CASE ~(count >= MaxConnections)
    <3>1. /\ conn[c] = "offered" /\ conn' = [conn EXCEPT ![c] = "queued"]
          /\ count' = count + 1 /\ UNCHANGED <<streams, stopping>>
      BY <1>3, <2>2 DEF Accept
    <3>2. Live' = Live \cup {c} /\ c \notin Live
      BY <3>1 DEF HttpIInv, Live, Active
    <3>3. Cardinality(Live \cup {c}) = Cardinality(Live) + 1
      BY <3>2, LiveFinite, FS_AddElement
    <3>4. ActiveCounted'
      BY <2>2, <3>1, <3>2, <3>3, LiveFinite, ConstantsAssumption DEF HttpIInv, ActiveCounted
    <3>. QED
      BY <3>1, <3>4 DEF HttpIInv, StreamsRegistered, Active
  <2>. QED
    BY <2>1, <2>2
<1>4. ASSUME NEW c \in Conns, Ends(c), conn[c] \in {"queued", "reading", "writing"},
             UNCHANGED <<streams, stopping>>
      PROVE  HttpIInv'
  <2>1. conn[c] \in Active
    BY <1>4 DEF Active
  <2>. QED
    BY <1>4, <2>1, EndsCounted DEF HttpIInv, StreamsRegistered
<1>5. ASSUME NEW c \in Conns, Ends(c), conn[c] \in {"opening", "streaming"},
             streams' = streams \ {c}, UNCHANGED stopping
      PROVE  HttpIInv'
  <2>1. conn[c] \in Active
    BY <1>5 DEF Active
  <2>. QED
    BY <1>5, <2>1, EndsCounted DEF HttpIInv, StreamsRegistered
<1>6. ASSUME NEW c \in Conns, NEW where, To(c, where), UNCHANGED <<count, streams, stopping>>,
             \/ conn[c] \in {"queued", "handling", "writing"} /\ where \in {"reading", "writing"}
             \/ conn[c] = "opening" /\ where = "streaming"
             \/ conn[c] = "none" /\ where = "offered"
      PROVE  HttpIInv'
  <2>1. \/ conn[c] \in Active /\ where \in Active
        \/ conn[c] \in {"none", "offered"} /\ where \in {"offered", "dropped"}
    BY <1>6 DEF Active
  <2>. QED
    BY <1>6, <2>1, LiveStays DEF HttpIInv, StreamsRegistered, To
<1>7. ASSUME NEW c \in Conns, NEW k \in Kinds, ReadsRequest(c, k) PROVE HttpIInv'
  <2>. DEFINE where == CASE k = "bad" -> "writing" [] k = "stream" -> "opening"
                         [] OTHER -> "handling"
  <2>1. conn[c] = "reading" /\ To(c, where) /\ UNCHANGED <<count, stopping>>
    BY <1>7 DEF ReadsRequest, Runs
  <2>2. /\ k = "stream" => where = "opening" /\ streams' = streams \cup {c}
        /\ k # "stream" => where \in {"writing", "handling"} /\ streams' = streams
    BY <1>7 DEF ReadsRequest
  <2>3. conn[c] \in Active /\ where \in Active
    BY <2>1 DEF Active
  <2>. HIDE DEF where
  <2>4. /\ conn' \in [Conns -> Active \cup {"none", "offered", "dropped", "ended"}]
        /\ ActiveCounted'
    BY <2>1, <2>3, LiveStays
  <2>5. StreamsRegistered'
    BY <2>1, <2>2 DEF HttpIInv, StreamsRegistered, To
  <2>. QED
    BY <2>4, <2>5 DEF HttpIInv
<1>8. ASSUME Start PROVE HttpIInv'
  BY <1>1, <1>8 DEF Start, StartChecks, StartClears, StartBuilds, StartReturns
<1>9. ASSUME Stop \/ AcceptLoopBegins PROVE HttpIInv'
  BY <1>1, <1>9 DEF Stop, AcceptLoopBegins
<1>10. ASSUME NEW t \in Threads, Thread(t) PROVE HttpIInv'
  BY <1>1, <1>10 DEF Thread, ThreadBegins, RunReturns
<1>11. ASSUME NEW c \in Conns, Serve(c) PROVE HttpIInv'
  <2>1. CASE ServeBegins(c)
    BY <1>6, <2>1 DEF ServeBegins, Runs
  <2>2. CASE StreamLost(c) \/ ReadEnds(c)
    BY <1>4, <2>2 DEF StreamLost, ReadEnds, Runs
  <2>3. CASE HandlerEnds(c)
    BY <1>6, <2>3 DEF HandlerEnds, Runs
  <2>4. CASE WriteEnds(c)
    BY <1>4, <1>6, <2>4 DEF WriteEnds, Runs
  <2>5. CASE StreamOpens(c)
    BY <1>5, <1>6, <2>5 DEF StreamOpens, Runs, Unregistered
  <2>6. CASE StreamEnds(c)
    BY <1>5, <2>6 DEF StreamEnds, Runs, Unregistered
  <2>. QED
    BY <1>3, <1>11, <2>1, <2>2, <2>3, <2>4, <2>5, <2>6 DEF Serve
<1>12. ASSUME NEW c \in Conns, Connects(c) PROVE HttpIInv'
  BY <1>6, <1>12 DEF Connects
<1>13. ASSUME NEW c \in Conns, Disconnects(c) PROVE HttpIInv'
  BY <1>1, <1>13 DEF Disconnects
<1>14. ASSUME UNCHANGED vars PROVE HttpIInv'
  BY <1>1, <1>14 DEF vars
<1>. QED
  BY <1>2, <1>7, <1>8, <1>9, <1>10, <1>11, <1>12, <1>13, <1>14 DEF Next

(***************************************************************************)
(* As long as McpServer has not stopped, its registry holds the streams    *)
(* that are open and no other, whatever ends a stream (mcp_server.h).      *)
(***************************************************************************)
THEOREM StreamsRegisteredCorrect == Spec => []StreamsRegistered
<1>1. HttpIInv => StreamsRegistered
  BY DEF HttpIInv
<1>. QED
  BY <1>1, HttpInit, HttpStep, PTL DEF Spec

(***************************************************************************)
(* activeConnections_ counts the connections that are being served, and    *)
(* keeps to maxConnections, whatever ends a connection (http_server.h).    *)
(***************************************************************************)
THEOREM ActiveCountedCorrect == Spec => []ActiveCounted
<1>1. HttpIInv => ActiveCounted
  BY DEF HttpIInv
<1>. QED
  BY <1>1, HttpInit, HttpStep, PTL DEF Spec

-----------------------------------------------------------------------------
(* Training.                                                               *)

(***************************************************************************)
(* Where the last complete save is.  Until the file is truncated it is the *)
(* file; before that, the copy has put it into the first backup; and a run *)
(* that died between truncating and writing has left it there.             *)
(***************************************************************************)
SavedFile   == file = lastSaved
SavedBackup == backup[1] = lastSaved

Whereabouts ==
  lastSaved # Trainer!Absent /\ ~freshOverTorn =>
    /\ saving \in {"loop", "rotate", "copy"} => SavedFile
    /\ saving = "truncate" => SavedFile /\ SavedBackup
    /\ saving = "write" => SavedBackup
    /\ saving = "off" => SavedFile \/ (file = Trainer!Torn /\ SavedBackup)

SaveIInv ==
  /\ backup = [i \in 1 .. Backups |-> backup[i]]
  /\ saving \in {"off", "loop"} \cup Trainer!SaveSteps
  /\ saving = "write" => file = Trainer!Torn
  /\ Whereabouts

(***************************************************************************)
(* There is a first backup.                                                *)
(***************************************************************************)
LEMMA FirstBackup == 1 \in 1 .. Backups
BY WorkersAssumption

(***************************************************************************)
(* Nothing is saved before the first run.                                  *)
(***************************************************************************)
LEMMA SaveInit == Trainer!Init \/ TrainingIdle => SaveIInv
BY DEF Trainer!Init, TrainingIdle, SaveIInv, Whereabouts, Trainer!SaveSteps

(***************************************************************************)
(* No step of a generation, a save, a crash or a new run loses the save.   *)
(***************************************************************************)
LEMMA SaveStep == SaveIInv /\ [Trainer!Next]_trainingVars => SaveIInv'
<1>. SUFFICES ASSUME SaveIInv, [Trainer!Next]_trainingVars PROVE SaveIInv'
  OBVIOUS
<1>. USE DEF SaveIInv, Whereabouts, SavedFile, SavedBackup, Trainer!SaveSteps
<1>1. CASE Trainer!Begin
  <2>1. /\ saving = "off" /\ saving' = "loop"
        /\ freshOverTorn' = (freshOverTorn \/ file = Trainer!Torn)
        /\ UNCHANGED <<file, backup, lastSaved>>
    BY <1>1 DEF Trainer!Begin
  <2>2. ~freshOverTorn' => ~freshOverTorn /\ file # Trainer!Torn
    BY <2>1
  <2>. QED
    BY <2>1, <2>2
<1>2. CASE Trainer!Generation
  BY <1>2 DEF Trainer!Generation
<1>3. CASE Trainer!Rotate
  <2>1. /\ saving = "rotate" /\ saving' \in {"rotate", "copy"}
        /\ UNCHANGED <<file, lastSaved, freshOverTorn>>
    BY <1>3 DEF Trainer!Rotate
  <2>2. backup' = [i \in 1 .. Backups |-> backup'[i]]
    BY <1>3 DEF Trainer!Rotate
  <2>. QED
    BY <2>1, <2>2
<1>4. CASE Trainer!Copy
  <2>1. /\ saving = "copy" /\ saving' = "truncate"
        /\ backup' = IF file = Trainer!Absent THEN backup ELSE [backup EXCEPT ![1] = file]
        /\ UNCHANGED <<file, lastSaved, freshOverTorn>>
    BY <1>4 DEF Trainer!Copy
  <2>2. backup' = [i \in 1 .. Backups |-> backup'[i]]
    BY <2>1
  <2>3. file # Trainer!Absent => backup'[1] = file
    BY <2>1, FirstBackup
  <2>. QED
    BY <2>1, <2>2, <2>3
<1>5. CASE Trainer!Truncate
  BY <1>5 DEF Trainer!Truncate
<1>6. CASE Trainer!Write
  <2>1. /\ saving = "write" /\ saving' \in {"off", "loop"} /\ lastSaved' = file'
        /\ UNCHANGED <<backup, freshOverTorn>>
    BY <1>6 DEF Trainer!Write
  <2>. QED
    BY <2>1
<1>7. CASE Trainer!Crash
  BY <1>7 DEF Trainer!Crash
<1>8. CASE UNCHANGED trainingVars
  BY <1>8 DEF trainingVars
<1>. QED
  BY <1>1, <1>2, <1>3, <1>4, <1>5, <1>6, <1>7, <1>8 DEF Trainer!Next, Trainer!Saving

(***************************************************************************)
(* Wherever a crash comes, the population saved last is in the file or in  *)
(* its first backup, as long as no run has begun afresh over a torn file   *)
(* (training.h).                                                           *)
(***************************************************************************)
THEOREM SavedCopyKeptCorrect == WorkersSpec => []SavedCopyKept
<1>1. WorkersInit => SaveIInv
  BY SaveInit DEF WorkersInit
<1>2. SaveIInv /\ [WorkersNext]_workersVars => SaveIInv'
  BY WorkersStep, SaveStep
<1>3. SaveIInv => SavedCopyKept
  BY DEF SaveIInv, Whereabouts, SavedFile, SavedBackup, Trainer!SaveSteps, SavedCopyKept,
         Trainer!SavedCopyKept
<1>. QED
  BY <1>1, <1>2, <1>3, PTL DEF WorkersSpec

(***************************************************************************)
(* Training counts as everyone does.                                       *)
(***************************************************************************)
LEMMA TrainerCounts == ASSUME NEW S PROVE Trainer!Cardinality(S) = Cardinality(S)
BY DEF Trainer!Cardinality, Cardinality

(***************************************************************************)
(* A population: variants of which no two have one prompt.                 *)
(***************************************************************************)
Distinct(variants) ==
  /\ variants \subseteq Trainer!Variants
  /\ \A v, w \in variants : v.prompt = w.prompt => v = w

(***************************************************************************)
(* There are no more variants in a population than prompts.                *)
(***************************************************************************)
LEMMA DistinctFinite ==
  ASSUME NEW variants, Distinct(variants)
  PROVE  IsFiniteSet(variants)
<1>. DEFINE f == [v \in variants |-> v.prompt]
<1>1. f \in Injection(variants, Prompts)
  BY DEF Distinct, Injection, IsInjective, Trainer!Variants
<1>. QED
  BY <1>1, FS_Injection, WorkersAssumption

(***************************************************************************)
(* The best score is 0 or that of a variant, and no variant's is better.   *)
(***************************************************************************)
LEMMA BestIsBest ==
  ASSUME NEW variants \in SUBSET Trainer!Variants
  PROVE  /\ Trainer!Best(variants) \in Nat
         /\ \A v \in variants : v.score \in Nat /\ Trainer!Best(variants) >= v.score
         /\ Trainer!Best(variants) = 0 \/ \E v \in variants : v.score = Trainer!Best(variants)
<1>. DEFINE S == {v.score : v \in variants} \cup {0}
<1>1. S \in SUBSET (0 .. NCases) /\ S # {} /\ NCases \in Nat
  BY WorkersAssumption DEF Trainer!Variants, Trainer!Scores
<1>2. \E i \in S : \A j \in S : i >= j
  <2>. HIDE DEF S
  <2>. QED
    BY <1>1, GreatestExists
<1>3. Trainer!Best(variants) = CHOOSE i \in S : \A j \in S : i >= j
  BY DEF Trainer!Best, Trainer!Max
<1>4. Trainer!Best(variants) \in S /\ \A j \in S : Trainer!Best(variants) >= j
  <2>. HIDE DEF S
  <2>. QED
    BY <1>2, <1>3
<1>. QED
  BY <1>1, <1>4

(***************************************************************************)
(* The tests give a score, and a brood is a population.                    *)
(***************************************************************************)
LEMMA BroodDistinct ==
  ASSUME NEW brood \in Trainer!Broods
  PROVE  Distinct(brood)
<1>1. PICK results :
        /\ \E S \in SUBSET Prompts : results \in [S -> [1 .. NCases -> BOOLEAN]]
        /\ brood = {[prompt |-> p, score |-> Trainer!Tested(results[p]), tested |-> TRUE] :
                    p \in DOMAIN results}
  BY DEF Trainer!Broods, Trainer!kSubset
<1>2. \A passed : Trainer!Tested(passed) \in Trainer!Scores
  <2>. SUFFICES ASSUME NEW passed PROVE Trainer!Tested(passed) \in 0 .. NCases
    BY DEF Trainer!Scores
  <2>1. PICK Done \in SUBSET (1 .. NCases) :
          Trainer!Tested(passed) = Cardinality({k \in Done : passed[k]})
    <3>. DEFINE Stopped(n) == n >= CheckAfter /\ \A i \in 1 .. n : ~passed[i]
                Done == {n \in 1 .. NCases : \A m \in 1 .. n - 1 : ~Stopped(m)}
    <3>1. Trainer!Tested(passed) = Cardinality({n \in Done : passed[n]})
      BY TrainerCounts DEF Trainer!Tested
    <3>2. Done \in SUBSET (1 .. NCases)
      OBVIOUS
    <3>. HIDE DEF Done
    <3>. QED
      BY <3>1, <3>2
  <2>2. {k \in Done : passed[k]} \in SUBSET (1 .. NCases)
    OBVIOUS
  <2>3. IsFiniteSet(1 .. NCases) /\ Cardinality(1 .. NCases) = NCases /\ NCases \in Nat
    <3>1. NCases \in Nat \ {0}
      BY WorkersAssumption
    <3>2. IsFiniteSet(1 .. NCases)
          /\ Cardinality(1 .. NCases) = IF 1 > NCases THEN 0 ELSE NCases - 1 + 1
      BY <3>1, FS_Interval
    <3>. QED
      BY <3>1, <3>2
  <2>. DEFINE Good == {k \in Done : passed[k]}
  <2>4. Good \in SUBSET (1 .. NCases) /\ Trainer!Tested(passed) = Cardinality(Good)
    BY <2>1, <2>2
  <2>. HIDE DEF Good
  <2>5. IsFiniteSet(Good) /\ Cardinality(Good) <= NCases
    <3>. DEFINE T == 1 .. NCases
    <3>1. IsFiniteSet(T) /\ Good \in SUBSET T /\ Cardinality(T) = NCases
      BY <2>3, <2>4
    <3>. HIDE DEF T
    <3>2. IsFiniteSet(Good) /\ Cardinality(Good) <= Cardinality(T)
      BY <3>1, FS_Subset
    <3>. QED
      BY <3>1, <3>2
  <2>6. Cardinality(Good) \in Nat
    BY <2>5, FS_CardinalityType
  <2>. QED
    BY <2>3, <2>4, <2>5, <2>6
<1>3. DOMAIN results \subseteq Prompts
  BY <1>1
<1>. DEFINE Variant(p) == [prompt |-> p, score |-> Trainer!Tested(results[p]), tested |-> TRUE]
<1>4. \A p \in Prompts : Variant(p) \in Trainer!Variants /\ Variant(p).prompt = p
  BY <1>2 DEF Trainer!Variants
<1>5. \A v \in brood : \E p \in Prompts : v = Variant(p)
  BY <1>1, <1>3
<1>. HIDE DEF Variant
<1>. QED
  BY <1>4, <1>5 DEF Distinct

(***************************************************************************)
(* Without duplicates, what is added to a population makes a population.   *)
(***************************************************************************)
LEMMA DeduplicatedDistinct ==
  ASSUME NEW old, NEW new, Distinct(old), Distinct(new)
  PROVE  Distinct(Trainer!Deduplicated(old, new))
BY DEF Distinct, Trainer!Deduplicated

(***************************************************************************)
(* What a cut leaves is a population with as good a best.                  *)
(***************************************************************************)
LEMMA CutKeepsBest ==
  ASSUME NEW variants, Distinct(variants), NEW kept \in Trainer!Cuts(variants)
  PROVE  /\ Distinct(kept)
         /\ \A v \in variants : Trainer!Best(kept) >= v.score
<1>1. /\ kept \in SUBSET variants
      /\ Cardinality(kept) = Trainer!Min({TopK, Cardinality(variants)})
      /\ \A k \in kept, c \in variants \ kept : k.score >= c.score
  BY TrainerCounts DEF Trainer!Cuts
<1>2. Distinct(kept)
  BY <1>1 DEF Distinct
<1>3. ASSUME NEW v \in variants PROVE Trainer!Best(kept) >= v.score
  <2>1. IsFiniteSet(variants) /\ IsFiniteSet(kept)
    BY <1>2, DistinctFinite
  <2>2. Cardinality(variants) \in Nat \ {0}
    BY <2>1, FS_CardinalityType, FS_EmptySet
  <2>3. Trainer!Min({TopK, Cardinality(variants)}) \in {TopK, Cardinality(variants)}
    <3>1. \E i \in {TopK, Cardinality(variants)} : \A j \in {TopK, Cardinality(variants)} : i <= j
      BY <2>2, WorkersAssumption
    <3>. QED
      BY <3>1 DEF Trainer!Min
  <2>4. kept # {}
    BY <1>1, <2>1, <2>2, <2>3, FS_EmptySet, WorkersAssumption
  <2>5. PICK k \in kept : k.score >= v.score
    <3>1. CASE v \in kept
      BY <1>2, <3>1, BestIsBest DEF Distinct
    <3>2. CASE v \notin kept
      BY <1>1, <2>4, <3>2
    <3>. QED
      BY <3>1, <3>2
  <2>6. k.score \in Nat /\ v.score \in Nat /\ Trainer!Best(kept) \in Nat
        /\ Trainer!Best(kept) >= k.score
    BY <1>2, BestIsBest DEF Distinct
  <2>. QED
    BY <2>5, <2>6
<1>. QED
  BY <1>2, <1>3

(***************************************************************************)
(* The variants there are, in memory and in a file that parses, are a      *)
(* population each.                                                        *)
(***************************************************************************)
PopulationIInv ==
  /\ Distinct(population)
  /\ file.whole = "saved" => Distinct(file.population)

(***************************************************************************)
(* There is no variant before the first run.                               *)
(***************************************************************************)
LEMMA PopulationInit == Trainer!Init \/ TrainingIdle => PopulationIInv
BY DEF Trainer!Init, TrainingIdle, PopulationIInv, Distinct, Trainer!Absent, Trainer!Content

(***************************************************************************)
(* A generation keeps the population one, and its best as good as it was;  *)
(* a run begins with the one that was saved or with the seed.              *)
(***************************************************************************)
LEMMA PopulationStep ==
  ASSUME PopulationIInv, [Trainer!Next]_trainingVars
  PROVE  /\ PopulationIInv'
         /\ saving # "off" /\ saving' # "off" =>
              Trainer!Best(population') >= Trainer!Best(population)
<1>. DEFINE Good == /\ PopulationIInv'
                    /\ saving # "off" /\ saving' # "off" =>
                         Trainer!Best(population') >= Trainer!Best(population)
<1>. USE DEF PopulationIInv
<1>0. Trainer!Best(population) \in Nat
  BY BestIsBest DEF Distinct
<1>1. CASE Trainer!Begin
  <2>1. saving = "off" /\ file' = file
    BY <1>1 DEF Trainer!Begin
  <2>2. CASE Trainer!Loads
    BY <1>1, <2>1, <2>2 DEF Trainer!Begin, Trainer!Loads
  <2>3. CASE ~Trainer!Loads
    <3>1. population' = {[prompt |-> Seed, score |-> 0, tested |-> FALSE]}
      BY <1>1, <2>3 DEF Trainer!Begin
    <3>2. Distinct(population')
      BY <3>1, WorkersAssumption DEF Distinct, Trainer!Variants, Trainer!Scores
    <3>. QED
      BY <2>1, <3>2
  <2>. QED
    BY <2>2, <2>3
<1>2. CASE Trainer!Generation
  <2>1. PICK brood \in Trainer!Broods :
          population' \in Trainer!Cuts(Trainer!Deduplicated(population, brood))
    BY <1>2 DEF Trainer!Generation
  <2>2. Distinct(Trainer!Deduplicated(population, brood))
    BY BroodDistinct, DeduplicatedDistinct
  <2>3. /\ Distinct(population')
        /\ \A v \in Trainer!Deduplicated(population, brood) : Trainer!Best(population') >= v.score
    BY <2>1, <2>2, CutKeepsBest
  <2>4. population \subseteq Trainer!Deduplicated(population, brood)
    BY DEF Trainer!Deduplicated
  <2>5. Trainer!Best(population') \in Nat
    BY <2>3, BestIsBest DEF Distinct
  <2>6. Trainer!Best(population') >= Trainer!Best(population)
    <3>1. Trainer!Best(population) = 0
          \/ \E v \in population : v.score = Trainer!Best(population)
      BY BestIsBest DEF Distinct
    <3>. QED
      BY <2>3, <2>4, <2>5, <3>1
  <2>7. file' = file
    BY <1>2 DEF Trainer!Generation
  <2>. QED
    BY <2>3, <2>6, <2>7
<1>3. CASE Trainer!Rotate \/ Trainer!Copy \/ Trainer!Crash
  <2>1. UNCHANGED <<population, file>>
    BY <1>3 DEF Trainer!Rotate, Trainer!Copy, Trainer!Crash, Trainer!runVars
  <2>. QED
    BY <1>0, <2>1
<1>4. CASE Trainer!Truncate
  <2>1. population' = population /\ file' = Trainer!Torn
    BY <1>4 DEF Trainer!Truncate, Trainer!runVars
  <2>. QED
    BY <1>0, <2>1 DEF Trainer!Torn, Trainer!Content
<1>5. CASE Trainer!Write
  <2>1. population' = population /\ file' = Trainer!Content("saved", population, generation)
    BY <1>5 DEF Trainer!Write, Trainer!runVars
  <2>. QED
    BY <1>0, <2>1 DEF Trainer!Content
<1>6. CASE UNCHANGED trainingVars
  BY <1>0, <1>6 DEF trainingVars
<1>. QED
  BY <1>1, <1>2, <1>3, <1>4, <1>5, <1>6 DEF Trainer!Next, Trainer!Saving

(***************************************************************************)
(* Unless a run has begun afresh over a torn file, the population of a run *)
(* that goes on, and that of a file that parses, are as good as the best   *)
(* ever saved; without a file nothing was saved.                           *)
(***************************************************************************)
SavedBest ==
  /\ bestSaved \in Nat
  /\ file.whole = "saved" \/ file \in {Trainer!Absent, Trainer!Torn}
  /\ ~freshOverTorn => /\ saving # "off" => Trainer!Best(population) >= bestSaved
                       /\ Trainer!Loads => Trainer!Best(file.population) >= bestSaved
                       /\ file = Trainer!Absent => bestSaved = 0

(***************************************************************************)
(* Nothing is saved before the first run.                                  *)
(***************************************************************************)
LEMMA SavedBestInit == Trainer!Init \/ TrainingIdle => SavedBest
BY DEF Trainer!Init, TrainingIdle, SavedBest, Trainer!Loads, Trainer!Absent, Trainer!Content

(***************************************************************************)
(* A run takes the best over from the file, keeps it, and writes it back;  *)
(* a crash leaves it in the file or leaves the file torn.                  *)
(***************************************************************************)
LEMMA SavedBestStep ==
  ASSUME PopulationIInv, SavedBest, [Trainer!Next]_trainingVars
  PROVE  /\ SavedBest'
         /\ saving = "off" /\ saving' # "off" /\ ~freshOverTorn' =>
              Trainer!Best(population') >= bestSaved
<1>. DEFINE Good == /\ SavedBest'
                    /\ saving = "off" /\ saving' # "off" /\ ~freshOverTorn' =>
                         Trainer!Best(population') >= bestSaved
<1>. USE DEF SavedBest, Trainer!Loads
<1>1. Trainer!Best(population) \in Nat /\ Trainer!Best(population') \in Nat
  BY PopulationStep, BestIsBest DEF PopulationIInv, Distinct
<1>2. CASE Trainer!Begin
  <2>1. UNCHANGED <<file, bestSaved>> /\ (~freshOverTorn' => ~freshOverTorn /\ file # Trainer!Torn)
    BY <1>2 DEF Trainer!Begin
  <2>2. file.whole = "saved" => population' = file.population
    BY <1>2 DEF Trainer!Begin
  <2>3. ~freshOverTorn' => Trainer!Best(population') >= bestSaved
    <3>1. CASE file.whole = "saved"
      <4>1. Trainer!Best(population') = Trainer!Best(file.population)
        BY <2>2, <3>1
      <4>. QED
        BY <2>1, <3>1, <4>1
    <3>2. CASE file = Trainer!Absent
      BY <1>1, <2>1, <3>2
    <3>3. CASE file = Trainer!Torn
      BY <2>1, <3>3
    <3>. QED
      BY <3>1, <3>2, <3>3
  <2>. QED
    BY <1>1, <2>1, <2>3
<1>3. CASE Trainer!Generation
  <2>1. saving = "loop" /\ saving' = "rotate" /\ UNCHANGED <<file, bestSaved, freshOverTorn>>
    BY <1>3 DEF Trainer!Generation
  <2>2. Trainer!Best(population') >= Trainer!Best(population)
    BY <2>1, PopulationStep
  <2>. QED
    BY <1>1, <2>1, <2>2
<1>4. CASE Trainer!Rotate \/ Trainer!Copy \/ Trainer!Crash
  <2>1. saving # "off" /\ UNCHANGED <<population, file, bestSaved, freshOverTorn>>
    BY <1>4 DEF Trainer!Rotate, Trainer!Copy, Trainer!Crash, Trainer!runVars
  <2>. QED
    BY <2>1
<1>5. CASE Trainer!Truncate
  <2>1. /\ saving # "off" /\ UNCHANGED <<population, bestSaved, freshOverTorn>>
        /\ file' = Trainer!Torn /\ Trainer!Torn # Trainer!Absent /\ Trainer!Torn.whole = "torn"
    BY <1>5 DEF Trainer!Truncate, Trainer!runVars, Trainer!Torn, Trainer!Absent, Trainer!Content
  <2>. QED
    BY <2>1
<1>6. CASE Trainer!Write
  <2>1. /\ saving = "write" /\ UNCHANGED <<population, freshOverTorn>>
        /\ file' = Trainer!Content("saved", population, generation)
        /\ bestSaved' = Trainer!Max({bestSaved, Trainer!Best(population)})
    BY <1>6 DEF Trainer!Write, Trainer!runVars
  <2>2. /\ file'.whole = "saved" /\ file'.population = population
        /\ file' # Trainer!Absent
    BY <2>1 DEF Trainer!Content, Trainer!Absent
  <2>3. /\ bestSaved' \in Nat
        /\ Trainer!Best(population) >= bestSaved => bestSaved' = Trainer!Best(population)
    <3>1. \E i \in {bestSaved, Trainer!Best(population)} :
            \A k \in {bestSaved, Trainer!Best(population)} : i >= k
      BY <1>1
    <3>2. /\ bestSaved' \in {bestSaved, Trainer!Best(population)}
          /\ bestSaved' >= bestSaved /\ bestSaved' >= Trainer!Best(population)
      BY <2>1, <3>1 DEF Trainer!Max
    <3>. QED
      BY <1>1, <3>2
  <2>. QED
    BY <1>1, <2>1, <2>2, <2>3
<1>7. CASE UNCHANGED trainingVars
  BY <1>7 DEF trainingVars
<1>. QED
  BY <1>2, <1>3, <1>4, <1>5, <1>6, <1>7 DEF Trainer!Next, Trainer!Saving

(***************************************************************************)
(* Within a run the best score never falls, however the equal ones are     *)
(* cut, a run begins with the best one that was saved unless one has begun *)
(* afresh over a torn file, and no two variants have one prompt            *)
(* (training.h).                                                           *)
(***************************************************************************)
THEOREM BestKeptCorrect == WorkersSpec => BestKept
<1>1. WorkersInit => PopulationIInv /\ SavedBest
  BY PopulationInit, SavedBestInit DEF WorkersInit
<1>2. PopulationIInv /\ SavedBest /\ [WorkersNext]_workersVars => (PopulationIInv /\ SavedBest)'
  BY WorkersStep, PopulationStep, SavedBestStep
<1>3. PopulationIInv /\ SavedBest /\ [WorkersNext]_workersVars =>
        [/\ saving # "off" /\ saving' # "off" =>
              Trainer!Best(population') >= Trainer!Best(population)
         /\ saving = "off" /\ saving' # "off" /\ ~freshOverTorn' =>
              Trainer!Best(population') >= bestSaved
         /\ \A v, w \in population' : v.prompt = w.prompt => v = w]_Trainer!vars
  BY WorkersStep, PopulationStep, SavedBestStep DEF PopulationIInv, Distinct
<1>. QED
  BY <1>1, <1>2, <1>3, PTL DEF WorkersSpec, BestKept, Trainer!BestKept

-----------------------------------------------------------------------------
(* A command and a request.                                                *)

(***************************************************************************)
(* An output that is no longer awaited has been read to its end, and then  *)
(* there is nobody who writes to it.  A shell that has exited has written  *)
(* all there was, and one that was terminated has timed out.               *)
(***************************************************************************)
CommandIInv ==
  /\ script \in Seq(Commands!Pipes)
  /\ written \in [Commands!Pipes -> Nat] /\ read \in [Commands!Pipes -> Nat]
  /\ stages \in Seq(SUBSET (Commands!Pipes \cup {"exit"}))
  /\ process \in {"running", "exited", "terminated"}
  /\ process = "exited" => script = <<>>
  /\ process = "terminated" => output = "timed out"
  /\ \A p \in Commands!Pipes : (\E i \in 1..Len(stages) : p \in stages[i])
                               \/ (read[p] = written[p] /\ process # "running")
  /\ output = "output" => script = <<>> /\ read = written /\ process # "running"

(***************************************************************************)
(* At first both outputs are awaited, on either platform.                  *)
(***************************************************************************)
LEMMA CommandInit == Commands!Init => CommandIInv
<1>. SUFFICES ASSUME Commands!Init PROVE CommandIInv
  OBVIOUS
<1>1. script \in Seq(Commands!Pipes)
  BY DEF Commands!Init, Commands!SeqOf
<1>2. /\ stages \in Seq(SUBSET (Commands!Pipes \cup {"exit"}))
      /\ \A p \in Commands!Pipes : \E i \in 1..Len(stages) : p \in stages[i]
  <2>. DEFINE S == Commands!Pipes \cup {"exit"}
  <2>1. \/ stages = <<{"out", "err", "exit"}>>
        \/ stages = <<{"out"}, {"err"}, {"exit"}>> \/ stages = <<{"exit"}, {"out"}, {"err"}>>
    BY DEF Commands!Init, Commands!Awaited, Commands!LinuxOrder, Commands!WindowsOrder
  <2>2. S = {"out", "err", "exit"} /\ Commands!Pipes = {"out", "err"}
    BY DEF Commands!Pipes
  <2>3. {{"out", "err", "exit"}, {"out"}, {"err"}, {"exit"}} \subseteq SUBSET S
    BY <2>2
  <2>. HIDE DEF S
  <2>4. stages \in Seq(SUBSET S)
    <3>. DEFINE all == {"out", "err", "exit"}   out == {"out"}   err == {"err"}   exit == {"exit"}
    <3>1. all \in SUBSET S /\ out \in SUBSET S /\ err \in SUBSET S /\ exit \in SUBSET S
      BY <2>3
    <3>2. stages = <<all>> \/ stages = <<out, err, exit>> \/ stages = <<exit, out, err>>
      BY <2>1
    <3>. DEFINE T == SUBSET S
    <3>3. all \in T /\ out \in T /\ err \in T /\ exit \in T
      BY <3>1
    <3>. HIDE DEF all, out, err, exit, T
    <3>4. <<all>> \in Seq(T) /\ <<out, err, exit>> \in Seq(T) /\ <<exit, out, err>> \in Seq(T)
      BY <3>3
    <3>5. stages \in Seq(T)
      BY <3>2, <3>4
    <3>. QED
      BY <3>5 DEF T
  <2>5. \A p \in {"out", "err"} : \E i \in 1..Len(stages) : p \in stages[i]
    <3>1. CASE stages = <<{"out", "err", "exit"}>>
      <4>1. 1 \in 1..Len(stages) /\ stages[1] = {"out", "err", "exit"}
        BY <3>1
      <4>. QED
        BY <4>1
    <3>2. CASE stages = <<{"out"}, {"err"}, {"exit"}>>
      <4>1. {1, 2} \subseteq 1..Len(stages) /\ stages[1] = {"out"} /\ stages[2] = {"err"}
        BY <3>2
      <4>. QED
        BY <4>1
    <3>3. CASE stages = <<{"exit"}, {"out"}, {"err"}>>
      <4>1. {2, 3} \subseteq 1..Len(stages) /\ stages[2] = {"out"} /\ stages[3] = {"err"}
        BY <3>3
      <4>. QED
        BY <4>1
    <3>. QED
      BY <2>1, <3>1, <3>2, <3>3
  <2>. QED
    BY <2>2, <2>4, <2>5 DEF S
<1>. QED
  BY <1>1, <1>2 DEF Commands!Init, CommandIInv

(***************************************************************************)
(* When an operation is over, the others are awaited as before.            *)
(***************************************************************************)
LEMMA OthersAwaited ==
  ASSUME NEW S, stages \in Seq(SUBSET S), stages # <<>>, NEW op
  PROVE  /\ Commands!Over(op) \in Seq(SUBSET S)
         /\ \A q : q # op /\ (\E i \in 1..Len(stages) : q \in stages[i])
                => \E i \in 1..Len(Commands!Over(op)) : q \in Commands!Over(op)[i]
<1>1. CASE Head(stages) = {op}
  <2>1. Commands!Over(op) = Tail(stages)
    BY <1>1 DEF Commands!Over
  <2>2. ASSUME NEW q, q # op, NEW i \in 1..Len(stages), q \in stages[i]
        PROVE  \E j \in 1..Len(Tail(stages)) : q \in Tail(stages)[j]
    <3>1. i # 1
      BY <1>1, <2>2
    <3>2. i - 1 \in 1..Len(Tail(stages)) /\ Tail(stages)[i - 1] = stages[i]
      BY <3>1
    <3>. QED
      BY <2>2, <3>2
  <2>. QED
    BY <2>1, <2>2
<1>2. CASE Head(stages) # {op}
  <2>. DEFINE rest == <<Head(stages) \ {op}>> \o Tail(stages)
  <2>1. Commands!Over(op) = rest
    BY <1>2 DEF Commands!Over
  <2>2. /\ rest \in Seq(SUBSET S) /\ Len(rest) = Len(stages)
        /\ rest[1] = stages[1] \ {op}
        /\ \A i \in 2..Len(stages) : rest[i] = stages[i]
    OBVIOUS
  <2>3. ASSUME NEW q, q # op, NEW i \in 1..Len(stages), q \in stages[i]
        PROVE  q \in rest[i]
    BY <2>2, <2>3
  <2>. QED
    BY <2>1, <2>2, <2>3
<1>. QED
  BY <1>1, <1>2

(***************************************************************************)
(* The ends of the outputs are taken for the end of what was written only  *)
(* when nobody is left to write.                                           *)
(***************************************************************************)
LEMMA CommandStep == CommandIInv /\ [Commands!Next]_commandVars => CommandIInv'
<1>. SUFFICES ASSUME CommandIInv, [Commands!Next]_commandVars PROVE CommandIInv'
  OBVIOUS
<1>. USE DEF CommandIInv
<1>1. CASE Commands!Writes
  <2>1. /\ process = "running" /\ Head(script) \in Commands!Pipes
        /\ script' \in Seq(Commands!Pipes)
        /\ written' \in [Commands!Pipes -> Nat]
        /\ UNCHANGED <<process, read, stages, output>>
    BY <1>1 DEF Commands!Writes
  <2>. QED
    BY <2>1
<1>2. CASE Commands!Exits
  BY <1>2 DEF Commands!Exits
<1>3. CASE Commands!BackgroundEnds
  BY <1>3 DEF Commands!BackgroundEnds
<1>4. ASSUME NEW p \in Commands!Pipes, Commands!Reads(p)
      PROVE  CommandIInv'
  <2>1. /\ output = "none" /\ read' \in [Commands!Pipes -> Nat]
        /\ \A q \in Commands!Pipes : q # p => read'[q] = read[q]
        /\ read[p] < written[p]
        /\ UNCHANGED <<script, written, process, stages, output>>
    BY <1>4 DEF Commands!Reads, Commands!Awaits
  <2>2. read[p] # written[p]
    BY <2>1
  <2>. QED
    BY <2>1, <2>2
<1>5. ASSUME NEW p \in Commands!Pipes, Commands!EndOfPipe(p)
      PROVE  CommandIInv'
  <2>1. /\ output = "none" /\ stages # <<>> /\ stages' = Commands!Over(p)
        /\ read[p] = written[p] /\ process # "running"
        /\ UNCHANGED <<script, written, read, process, output>>
    BY <1>5 DEF Commands!EndOfPipe, Commands!Awaits
  <2>. QED
    BY <2>1, OthersAwaited
<1>6. CASE Commands!ExitSeen
  <2>1. /\ output = "none" /\ stages # <<>> /\ stages' = Commands!Over("exit")
        /\ UNCHANGED <<script, written, read, process, output>>
    BY <1>6 DEF Commands!ExitSeen, Commands!Awaits
  <2>2. \A p \in Commands!Pipes : p # "exit"
    BY DEF Commands!Pipes
  <2>. QED
    BY <2>1, <2>2, OthersAwaited
<1>7. CASE Commands!Returns
  <2>1. /\ output = "none" /\ stages = <<>> /\ output' = "output"
        /\ UNCHANGED <<script, written, read, process, stages>>
    BY <1>7 DEF Commands!Returns
  <2>2. \A p \in Commands!Pipes : read[p] = written[p] /\ process # "running"
    BY <2>1
  <2>3. process # "running" /\ script = <<>>
    <3>1. "out" \in Commands!Pipes
      BY DEF Commands!Pipes
    <3>. QED
      BY <2>1, <2>2, <3>1
  <2>4. read = written
    <3>1. read = [p \in Commands!Pipes |-> read[p]] /\ written = [p \in Commands!Pipes |-> written[p]]
      OBVIOUS
    <3>. QED
      BY <2>2, <3>1, Zenon
  <2>. QED
    BY <2>1, <2>3, <2>4
<1>8. CASE Commands!TimesOut
  BY <1>8 DEF Commands!TimesOut
<1>9. CASE UNCHANGED commandVars
  BY <1>9 DEF commandVars
<1>. QED
  BY <1>1, <1>2, <1>3, <1>4, <1>5, <1>6, <1>7, <1>8, <1>9 DEF Commands!Next, Commands!Command,
     Commands!Tool

(***************************************************************************)
(* An exchange is the first one or follows a redirect, and the URL is a    *)
(* record of its parts, also when it was taken apart wrongly.              *)
(***************************************************************************)
UrlParts == [scheme : {"http", "https", "none"}, host : Hosts \cup {"none"},
          dir : Dirs \cup {"none", "inQuery"}, query : Requests!Queries]

LocationKinds == {"absolute", "protocol", "rooted", "relative", "none"}

RequestIInv ==
  /\ url \in UrlParts /\ httpReply.location.kind \in LocationKinds /\ httpReply.location.to \in UrlParts
  /\ body \in BOOLEAN /\ (body => method = "POST")
  /\ redirects \in Nat /\ redirects <= FollowRedirect /\ requestsMade \in Nat
  /\ requestsMade <= redirects + 1
  /\ requestPhase \in {"begin", "connecting"} => requestsMade <= redirects

(***************************************************************************)
(* A URL of the model is a record of its parts.                            *)
(***************************************************************************)
LEMMA UrlShape ==
  /\ Requests!Urls \subseteq UrlParts /\ Requests!Invalid \in UrlParts
  /\ \A l \in Requests!Locations : l.kind \in LocationKinds /\ l.to \in UrlParts
BY DEF Requests!Urls, UrlParts, Requests!Invalid, Requests!Queries, Requests!Locations, LocationKinds

(***************************************************************************)
(* A redirect leads where the location names, if neither has a slash in    *)
(* its query.                                                              *)
(***************************************************************************)
LEMMA Redirected ==
  ASSUME NEW from \in UrlParts, NEW location, location.kind \in LocationKinds \ {"none"}, location.to \in UrlParts
  PROVE  LET to == Requests!resolveRedirectUrl(from, location)
         IN  /\ to \in UrlParts
             /\ from.query = "none" /\ location.to.query = "none" =>
                  /\ to.dir = IF location.kind = "relative" THEN from.dir ELSE location.to.dir
                  /\ to.host = IF location.kind \in {"absolute", "protocol"}
                               THEN location.to.host ELSE from.host
                  /\ to.scheme = IF location.kind = "absolute"
                                 THEN location.to.scheme ELSE from.scheme
<1>1. CASE location.kind = "absolute"
  BY <1>1 DEF Requests!resolveRedirectUrl
<1>2. CASE location.kind # "absolute" /\ location.to.query = "url"
  BY <1>2, UrlShape DEF Requests!resolveRedirectUrl
<1>3. CASE location.kind = "protocol" /\ location.to.query # "url"
  BY <1>3 DEF Requests!resolveRedirectUrl, UrlParts
<1>4. CASE location.kind = "rooted" /\ location.to.query # "url"
  BY <1>4 DEF Requests!resolveRedirectUrl, UrlParts
<1>5. CASE location.kind = "relative" /\ location.to.query # "url"
  BY <1>5 DEF Requests!resolveRedirectUrl, UrlParts
<1>. QED
  BY <1>1, <1>2, <1>3, <1>4, <1>5 DEF LocationKinds

(***************************************************************************)
(* A request begins without a redirect.                                    *)
(***************************************************************************)
LEMMA RequestInit == Requests!Init => RequestIInv
<1>. SUFFICES ASSUME Requests!Init PROVE RequestIInv
  OBVIOUS
<1>1. url \in UrlParts /\ Requests!NoReply.location.to \in UrlParts
  BY UrlShape DEF Requests!Init, Requests!NoReply
<1>2. httpReply = Requests!NoReply /\ Requests!NoReply.location.kind \in LocationKinds
  BY DEF Requests!Init, Requests!NoReply, LocationKinds
<1>3. body \in BOOLEAN /\ (body => method = "POST")
  BY DEF Requests!Init
<1>4. requestPhase = "begin" /\ redirects = 0 /\ requestsMade = 0 /\ FollowRedirect \in Nat
  BY WorkersAssumption DEF Requests!Init
<1>. QED
  BY <1>1, <1>2, <1>3, <1>4 DEF RequestIInv

(***************************************************************************)
(* Only Decides makes another round, with what the redirect leaves of      *)
(* method and body.                                                        *)
(***************************************************************************)
LEMMA RequestStep ==
  ASSUME RequestIInv, [Requests!Next]_httpVars
  PROVE  /\ RequestIInv'
         /\ redirects' > redirects /\ url.query = "none" /\ httpReply.location.to.query = "none" =>
              /\ url'.dir = IF httpReply.location.kind = "relative"
                            THEN url.dir ELSE httpReply.location.to.dir
              /\ url'.host = IF httpReply.location.kind \in {"absolute", "protocol"}
                             THEN httpReply.location.to.host ELSE url.host
              /\ url'.scheme = IF httpReply.location.kind = "absolute"
                               THEN httpReply.location.to.scheme ELSE url.scheme
<1>. USE DEF RequestIInv
<1>1. CASE Requests!Expires
  BY <1>1 DEF Requests!Expires, Requests!roundVars
<1>2. CASE Requests!Begins
  BY <1>2 DEF Requests!Begins, Requests!roundVars, Requests!Returns
<1>3. CASE Requests!Connected
  BY <1>3 DEF Requests!Connected, Requests!roundVars
<1>4. CASE Requests!Fails \/ Requests!TimesOut
  BY <1>4 DEF Requests!Fails, Requests!TimesOut, Requests!roundVars, Requests!Returns
<1>5. CASE Requests!HeadAnswered \/ Requests!ShutDown
  BY <1>5 DEF Requests!HeadAnswered, Requests!ShutDown, Requests!roundVars
<1>6. CASE requestPhase = "exchanging" /\ \E r \in Requests!Replies :
             Requests!Answered(r.status, r.location)
  <2>1. PICK r \in Requests!Replies : Requests!Answered(r.status, r.location)
    BY <1>6
  <2>2. r.location.kind \in LocationKinds /\ r.location.to \in UrlParts
    BY UrlShape DEF Requests!Replies
  <2>3. httpReply'.location = r.location
    BY <2>1 DEF Requests!Answered
  <2>4. requestPhase' \in {"closing", "answered"} /\ UNCHANGED <<url, method, body, redirects, requestsMade>>
    BY <2>1 DEF Requests!Answered, Requests!roundVars
  <2>. QED
    BY <2>2, <2>3, <2>4
<1>7. CASE Requests!Decides
  <2>1. httpReply'.location.kind \in LocationKinds /\ httpReply'.location.to \in UrlParts
    BY <1>7, UrlShape DEF Requests!Decides, Requests!NoReply, LocationKinds
  <2>2. CASE requestPhase' = "begin"
    <3>1. /\ redirects < FollowRedirect /\ redirects' = redirects + 1 /\ UNCHANGED requestsMade
          /\ httpReply.location.kind # "none"
          /\ url' = Requests!resolveRedirectUrl(url, httpReply.location)
          /\ body' = (body /\ ~Requests!redirectChangesToGet(httpReply.status))
          /\ method' = IF Requests!redirectChangesToGet(httpReply.status) THEN "GET" ELSE method
      BY <1>7, <2>2 DEF Requests!Decides, Requests!MayFollow, Requests!NextBody, Requests!Returns
    <3>2. body' \in BOOLEAN /\ (body' => method' = "POST")
      BY <3>1
    <3>. HIDE DEF UrlParts, LocationKinds
    <3>3. redirects' \in Nat /\ redirects' <= FollowRedirect /\ requestsMade' <= redirects'
          /\ requestsMade' <= redirects' + 1 /\ requestsMade' \in Nat
      BY <3>1, WorkersAssumption
    <3>. QED
      BY <2>1, <3>1, <3>2, <3>3, Redirected
  <2>3. CASE requestPhase' # "begin"
    <3>1. requestPhase' = "returned" /\ UNCHANGED <<url, method, body, redirects, requestsMade>>
      BY <1>7, <2>3 DEF Requests!Decides, Requests!Returns, Requests!roundVars
    <3>. QED
      BY <2>1, <3>1
  <2>. QED
    BY <2>2, <2>3
<1>8. CASE UNCHANGED httpVars
  BY <1>8 DEF httpVars
<1>. QED
  BY <1>1, <1>2, <1>3, <1>4, <1>5, <1>6, <1>7, <1>8 DEF Requests!Next

-----------------------------------------------------------------------------
(* The event bus and its bridge.                                           *)

(***************************************************************************)
(* The topics have streams of their own.  A subscription is in the table   *)
(* of one stream, behind the earlier ones.                                 *)
(***************************************************************************)
Subs == 1..Len(suspends)

Subscribed(s, k) == \E i \in 1..Len(listeners[k]) : listeners[k][i] = s

BusTables ==
  /\ streamsMade \in 0..MaxStreams /\ busStreams \in [Bus!Topics -> 0..streamsMade]
  /\ \A t, u \in Bus!Topics : busStreams[t] = busStreams[u] => busStreams[t] = 0 \/ t = u
  /\ listeners \in [1..MaxStreams -> Seq(Nat)] /\ suspends \in Seq(BOOLEAN)
  /\ \A k \in 1..MaxStreams : k > streamsMade => listeners[k] = <<>>
  /\ \A k \in 1..MaxStreams : \A i \in 1..Len(listeners[k]) :
       /\ listeners[k][i] \in Subs
       /\ \A j \in 1..Len(listeners[k]) : i < j => listeners[k][i] < listeners[k][j]
  /\ \A s \in Subs : \A j, k \in 1..MaxStreams : Subscribed(s, j) /\ Subscribed(s, k) => j = k

(***************************************************************************)
(* A handler before s in its table suspends.                               *)
(***************************************************************************)
Behind(s) ==
  \E k \in 1..MaxStreams :
    /\ Subscribed(s, k)
    /\ \E i \in 1..Len(listeners[k]) : suspends[listeners[k][i]] /\ listeners[k][i] < s

(***************************************************************************)
(* The events for the bus are begun in the order of the graph: those that  *)
(* are still spawned are later than each that has begun.                   *)
(***************************************************************************)
Begun(n) == \E a \in audience : a.event = n

Addressed(s, a) == \E i \in 1..Len(a.to) : a.to[i] = s

BusEvents ==
  /\ shownTokens \in Seq([type : Bus!Topics \cup {"node_start"}, bus : BOOLEAN])
  /\ spawned \in Seq(1..Len(shownTokens))
  /\ \A i \in 1..Len(spawned) :
       /\ shownTokens[spawned[i]].bus
       /\ \A j \in 1..Len(spawned) : i < j => spawned[i] < spawned[j]
       /\ \A a \in audience : a.event < spawned[i]
  /\ \A n \in 1..Len(shownTokens) : shownTokens[n].bus =>
       /\ shownTokens[n].type \in Bus!Topics
       /\ Begun(n) \/ \E i \in 1..Len(spawned) : spawned[i] = n
  /\ \A a \in audience :
       /\ a.event \in 1..Len(shownTokens) /\ shownTokens[a.event].bus
       /\ a.to \in Seq(Nat) /\ \A i \in 1..Len(a.to) : a.to[i] \in Subs
       /\ \A b \in audience : a.event = b.event => a = b

(***************************************************************************)
(* A publish that waits has the handlers left that are behind the one that *)
(* suspended.                                                              *)
(***************************************************************************)
Increasing(q) == \A i, j \in 1..Len(q) : i < j => q[i] < q[j]

Waiting ==
  \A w \in publishing :
    /\ w.rest \in Seq(Nat) /\ Increasing(w.rest)
    /\ \A i \in 1..Len(w.rest) : w.rest[i] \in Subs /\ Behind(w.rest[i])
    /\ \E a \in audience : a.event = w.event /\ \A i \in 1..Len(w.rest) : Addressed(w.rest[i], a)
    /\ \A v \in publishing : v.event = w.event => v = w

(***************************************************************************)
(* A subscription is called with events that have begun: once with each it *)
(* is in the audience of, unless the publish still has it left.            *)
(***************************************************************************)
In(q, n) == \E i \in 1..Len(q) : q[i] = n

Once(q, n) == \E i \in 1..Len(q) : q[i] = n /\ \A j \in 1..Len(q) : q[j] = n => j = i

Heard(s, n) == In(hearing[s], n)

HeardOnce(s, n) == Once(hearing[s], n)

Owed(s, n) == \E w \in publishing : w.event = n /\ \E i \in 1..Len(w.rest) : w.rest[i] = s

Hears(s, a) ==
  Addressed(s, a) => IF Owed(s, a.event) THEN ~Heard(s, a.event) ELSE HeardOnce(s, a.event)

BusHearing ==
  /\ hearing \in Seq(Seq(Nat)) /\ Len(hearing) = Len(suspends)
  /\ \A s \in Subs : /\ \A i \in 1..Len(hearing[s]) : Begun(hearing[s][i])
                     /\ \A a \in audience : Hears(s, a)

(***************************************************************************)
(* A handler that has none before it that suspends was called as each of   *)
(* its events began: it has heard those of its topic from its first to its *)
(* last, and to the last one begun while its stream is the topic's.        *)
(***************************************************************************)
Hearing(s, t) == Subscribed(s, busStreams[t])

InOrder(s) ==
  LET first == hearing[s][1]
      last == hearing[s][Len(hearing[s])]
  IN  /\ Increasing(hearing[s])
      /\ \A i \in 1..Len(hearing[s]) : shownTokens[hearing[s][i]].type = shownTokens[first].type
      /\ \A n \in first..last :
           shownTokens[n].bus /\ shownTokens[n].type = shownTokens[first].type => Heard(s, n)
      /\ \A t \in Bus!Topics : busStreams[t] # 0 /\ Hearing(s, t) =>
           /\ shownTokens[first].type = t
           /\ \A a \in audience : shownTokens[a.event].type = t => a.event <= last \/ a.event < first

BusOrder == \A s \in Subs : ~Behind(s) /\ hearing[s] # <<>> => InOrder(s)

BusIInv == BusTables /\ BusEvents /\ Waiting /\ BusHearing /\ BusOrder

(***************************************************************************)
(* At first there is nothing to hear, and nobody who could.                *)
(***************************************************************************)
LEMMA BusInit == Bus!Init => BusIInv
<1>. SUFFICES ASSUME Bus!Init PROVE BusIInv
  OBVIOUS
<1>1. BusTables
  BY WorkersAssumption DEF Bus!Init, BusTables, Subs, Subscribed
<1>2. BusEvents /\ Waiting /\ BusHearing /\ BusOrder
  BY DEF Bus!Init, BusEvents, Waiting, BusHearing, BusOrder, Subs
<1>. QED
  BY <1>1, <1>2 DEF BusIInv

(***************************************************************************)
(* A publish calls the handlers it has up to the first that suspends, and  *)
(* waits with the others, if there is one that does.                       *)
(***************************************************************************)
LEMMA CallsUpTo ==
  ASSUME NEW p, NEW rest \in Seq(Nat), Bus!Calls(p, rest)
  PROVE  \E upTo \in 0..Len(rest) :
           /\ hearing' = [s \in DOMAIN hearing |->
                            IF \E i \in 1..upTo : rest[i] = s THEN Append(hearing[s], p)
                            ELSE hearing[s]]
           /\ \/ /\ upTo = Len(rest)
                 /\ publishing' = {w \in publishing : w.event # p}
              \/ /\ upTo # 0 /\ suspends[rest[upTo]]
                 /\ publishing' = {w \in publishing : w.event # p}
                      \cup {[event |-> p, rest |-> SubSeq(rest, upTo + 1, Len(rest))]}
<1>. DEFINE slow == {i \in DOMAIN rest : suspends[rest[i]]}
            upTo == IF slow = {} THEN Len(rest) ELSE Bus!Min(slow)
            called == {rest[i] : i \in 1..upTo}
            waits == IF slow = {} THEN {}
                     ELSE {[event |-> p, rest |-> SubSeq(rest, upTo + 1, Len(rest))]}
<1>1. /\ hearing' = [s \in DOMAIN hearing |->
                       IF \E i \in 1..upTo : rest[i] = s THEN Append(hearing[s], p)
                       ELSE hearing[s]]
      /\ publishing' = {w \in publishing : w.event # p} \cup waits
  <2>1. /\ hearing' = [s \in DOMAIN hearing |->
                         IF s \in called THEN Append(hearing[s], p) ELSE hearing[s]]
        /\ publishing' = {w \in publishing : w.event # p} \cup waits
    BY DEF Bus!Calls
  <2>2. \A s : s \in called <=> \E i \in 1..upTo : rest[i] = s
    OBVIOUS
  <2>. HIDE DEF called, upTo, waits
  <2>. QED
    BY <2>1, <2>2
<1>2. CASE slow = {}
  <2>1. upTo = Len(rest) /\ waits = {} /\ Len(rest) \in 0..Len(rest)
    BY <1>2
  <2>. QED
    BY <1>1, <2>1
<1>3. CASE slow # {}
  <2>1. Bus!Min(slow) \in slow
    <3>1. slow \in SUBSET (0..Len(rest)) /\ Len(rest) \in Nat
      OBVIOUS
    <3>2. \E i \in slow : \A j \in slow : i <= j
      <4>. HIDE DEF slow
      <4>. QED
        BY <1>3, <3>1, LeastExists
    <3>. QED
      BY <3>2 DEF Bus!Min
  <2>2. upTo \in 1..Len(rest) /\ suspends[rest[upTo]]
        /\ waits = {[event |-> p, rest |-> SubSeq(rest, upTo + 1, Len(rest))]}
    BY <1>3, <2>1
  <2>. HIDE DEF slow, upTo, waits
  <2>. QED
    BY <1>1, <2>2
<1>. QED
  BY <1>2, <1>3

(***************************************************************************)
(* What appending a number to a sequence makes of it.                      *)
(***************************************************************************)
LEMMA Appended ==
  ASSUME NEW q \in Seq(Nat), NEW p \in Nat
  PROVE  /\ Append(q, p) \in Seq(Nat) /\ Len(Append(q, p)) = Len(q) + 1 /\ Len(q) \in Nat
         /\ Append(q, p)[Len(q) + 1] = p
         /\ \A i \in 1..Len(q) : Append(q, p)[i] = q[i]
         /\ \A n : n # p => /\ In(Append(q, p), n) <=> In(q, n)
                            /\ Once(q, n) => Once(Append(q, p), n)
         /\ ~In(q, p) => Once(Append(q, p), p)
<1>. DEFINE longer == Append(q, p)
<1>1. /\ longer \in Seq(Nat) /\ Len(longer) = Len(q) + 1 /\ Len(q) \in Nat
      /\ longer[Len(q) + 1] = p
      /\ \A i \in 1..Len(q) : longer[i] = q[i]
  OBVIOUS
<1>. DEFINE old == 1..Len(q)   top == Len(q) + 1
<1>4. 1..Len(longer) = old \cup {top} /\ top \notin old
  BY <1>1
<1>5. longer[top] = p /\ \A i \in old : longer[i] = q[i]
  BY <1>1
<1>. HIDE DEF longer, top
<1>2. ASSUME NEW n, n # p
      PROVE  (In(longer, n) <=> In(q, n)) /\ (Once(q, n) => Once(longer, n))
  <2>. HIDE DEF old
  <2>. QED
    BY <1>2, <1>4, <1>5 DEF In, Once, old
<1>3. ASSUME ~In(q, p)
      PROVE  Once(longer, p)
  BY <1>3, <1>4, <1>5 DEF In, Once
<1>. QED
  BY <1>1, <1>2, <1>3 DEF longer

(***************************************************************************)
(* A function on 1 .. n is a sequence.                                     *)
(***************************************************************************)
LEMMA FunctionIsSequence ==
  ASSUME NEW T, NEW n \in Nat, NEW f \in [1..n -> T]
  PROVE  f \in Seq(T) /\ Len(f) = n
OBVIOUS

(***************************************************************************)
(* When a publish of a calls the handlers it has left, those have heard    *)
(* the event once, or the publish waits for them.  A handler that has none *)
(* before it that suspends is not among those.                             *)
(***************************************************************************)
LEMMA CallsHear ==
  ASSUME BusTables, Waiting, BusHearing,
         NEW p \in Nat, NEW a, a.event = p, NEW rest \in Seq(Nat), Increasing(rest),
         \A i \in 1..Len(rest) : rest[i] \in Subs /\ Addressed(rest[i], a),
         \A i, j \in 1..Len(rest) : i < j /\ suspends[rest[i]] => Behind(rest[j]),
         \A s \in Subs : Addressed(s, a) =>
           IF \E i \in 1..Len(rest) : rest[i] = s THEN ~Heard(s, p) ELSE HeardOnce(s, p),
         audience' = audience \cup {a}, \A b \in audience : b.event = p => b = a,
         UNCHANGED <<listeners, suspends>>,
         Bus!Calls(p, rest)
  PROVE  /\ Waiting' /\ BusHearing'
         /\ \A s \in Subs : /\ \/ hearing'[s] = hearing[s]
                               \/ /\ \E i \in 1..Len(rest) : rest[i] = s
                                  /\ hearing'[s] = Append(hearing[s], p)
                            /\ ~Behind(s) /\ (\E i \in 1..Len(rest) : rest[i] = s)
                                 => hearing'[s] = Append(hearing[s], p)
<1>1. PICK upTo \in 0..Len(rest) :
        /\ hearing' = [s \in DOMAIN hearing |->
                         IF \E i \in 1..upTo : rest[i] = s THEN Append(hearing[s], p)
                         ELSE hearing[s]]
        /\ \/ /\ upTo = Len(rest)
              /\ publishing' = {w \in publishing : w.event # p}
           \/ /\ upTo # 0 /\ suspends[rest[upTo]]
              /\ publishing' = {w \in publishing : w.event # p}
                   \cup {[event |-> p, rest |-> SubSeq(rest, upTo + 1, Len(rest))]}
  BY CallsUpTo
<1>. DEFINE Called(s) == \E i \in 1..upTo : rest[i] = s
            Longer(s) == Append(hearing[s], p)
<1>2. /\ Len(hearing) = Len(suspends) /\ DOMAIN hearing = Subs
      /\ \A s \in Subs : hearing[s] \in Seq(Nat)
  BY DEF BusHearing, Subs
<1>3. \A s \in Subs : hearing'[s] = IF Called(s) THEN Longer(s) ELSE hearing[s]
  BY <1>1, <1>2
<1>18. \A s \in Subs :
         /\ Longer(s) \in Seq(Nat) /\ Len(Longer(s)) = Len(hearing[s]) + 1 /\ Len(hearing[s]) \in Nat
         /\ Longer(s)[Len(hearing[s]) + 1] = p
         /\ \A i \in 1..Len(hearing[s]) : Longer(s)[i] = hearing[s][i]
         /\ \A n : n # p => /\ In(Longer(s), n) <=> In(hearing[s], n)
                            /\ Once(hearing[s], n) => Once(Longer(s), n)
         /\ ~In(hearing[s], p) => Once(Longer(s), p)
  BY <1>2, Appended
<1>0. \A s : Called(s) <=> \E i \in 1..Len(rest) : i <= upTo /\ rest[i] = s
  OBVIOUS
<1>. HIDE DEF Called, Longer
<1>4. hearing' \in Seq(Seq(Nat)) /\ Len(hearing') = Len(suspends')
  <2>1. \A s \in Subs : hearing'[s] \in Seq(Nat)
    BY <1>2, <1>3, <1>18
  <2>2. DOMAIN hearing' = Subs /\ hearing' = [s \in DOMAIN hearing' |-> hearing'[s]]
    BY <1>1, <1>2
  <2>3. hearing' \in [Subs -> Seq(Nat)]
    BY <2>1, <2>2
  <2>4. Len(suspends) \in Nat
    BY DEF BusTables
  <2>. QED
    BY <2>3, <2>4, FunctionIsSequence DEF Subs
<1>5. \A s : Behind(s)' <=> Behind(s)
  BY DEF Behind, Subscribed
<1>. DEFINE left == SubSeq(rest, upTo + 1, Len(rest))
<1>6. /\ left \in Seq(Nat) /\ Increasing(left)
      /\ \A i \in 1..Len(left) : upTo + i \in 1..Len(rest) /\ left[i] = rest[upTo + i]
      /\ \A i \in 1..Len(rest) : i > upTo => i - upTo \in 1..Len(left) /\ left[i - upTo] = rest[i]
  BY DEF Increasing
<1>. HIDE DEF left
<1>7. upTo # 0 /\ suspends[rest[upTo]] => \A i \in 1..Len(left) : Behind(left[i])
  <2>. SUFFICES ASSUME upTo # 0, suspends[rest[upTo]], NEW i \in 1..Len(left)
                PROVE  Behind(left[i])
    OBVIOUS
  <2>1. upTo \in 1..Len(rest) /\ upTo + i \in 1..Len(rest) /\ left[i] = rest[upTo + i]
    BY <1>6
  <2>. QED
    BY <2>1
<1>8. \A s, n : n # p => (Owed(s, n)' <=> Owed(s, n))
  BY <1>1 DEF Owed
<1>9. \A s : Owed(s, p)' <=> \E i \in 1..Len(rest) : i > upTo /\ rest[i] = s
  <2>1. CASE upTo = Len(rest) /\ publishing' = {w \in publishing : w.event # p}
    BY <2>1 DEF Owed
  <2>2. CASE publishing' = {w \in publishing : w.event # p} \cup {[event |-> p, rest |-> left]}
    <3>. DEFINE waits == [event |-> p, rest |-> left]
    <3>1. \A w \in publishing' : w.event = p <=> w = waits
      BY <2>2
    <3>2. waits \in publishing' /\ waits.event = p /\ waits.rest = left
      BY <2>2
    <3>3. \A s : Owed(s, p)' <=> \E i \in 1..Len(left) : left[i] = s
      <4>. HIDE DEF waits
      <4>. QED
        BY <3>1, <3>2 DEF Owed
    <3>4. ASSUME NEW s, NEW i \in 1..Len(rest), i > upTo, rest[i] = s
          PROVE  Owed(s, p)'
      BY <1>6, <3>3, <3>4
    <3>5. ASSUME NEW s, NEW i \in 1..Len(left), left[i] = s
          PROVE  \E j \in 1..Len(rest) : j > upTo /\ rest[j] = s
      <4>1. upTo + i \in 1..Len(rest) /\ upTo + i > upTo /\ rest[upTo + i] = s
        BY <1>6, <3>5
      <4>. QED
        BY <4>1
    <3>. QED
      BY <3>3, <3>4, <3>5
  <2>. QED
    BY <1>1, <2>1, <2>2 DEF left
<1>10. ASSUME NEW s \in Subs, NEW n, n # p
       PROVE  (Heard(s, n)' <=> Heard(s, n)) /\ (HeardOnce(s, n) => HeardOnce(s, n)')
  BY <1>3, <1>10, <1>18 DEF Heard, HeardOnce
<1>11. ASSUME NEW s \in Subs, Called(s), ~Heard(s, p)
       PROVE  HeardOnce(s, p)'
  BY <1>3, <1>11, <1>18 DEF Heard, HeardOnce
<1>12. ASSUME NEW s \in Subs, ~Called(s)
       PROVE  (Heard(s, p)' <=> Heard(s, p)) /\ (HeardOnce(s, p)' <=> HeardOnce(s, p))
  BY <1>3, <1>12 DEF Heard, HeardOnce
<1>13. Waiting'
  <2>. SUFFICES ASSUME NEW w \in publishing'
                PROVE  /\ w.rest \in Seq(Nat) /\ Increasing(w.rest)
                       /\ \A i \in 1..Len(w.rest) : w.rest[i] \in Subs /\ Behind(w.rest[i])
                       /\ \E b \in audience' : b.event = w.event
                            /\ \A i \in 1..Len(w.rest) : Addressed(w.rest[i], b)
                       /\ \A v \in publishing' : v.event = w.event => v = w
    BY <1>5 DEF Waiting, Subs, Increasing, Addressed
  <2>1. CASE w \in publishing /\ w.event # p
    BY <1>1, <2>1 DEF Waiting
  <2>2. CASE w = [event |-> p, rest |-> left] /\ upTo # 0 /\ suspends[rest[upTo]]
    <3>1. \A i \in 1..Len(left) : left[i] \in Subs /\ Addressed(left[i], a)
      BY <1>6
    <3>2. \A v \in publishing' : v.event = p => v = w
      BY <1>1, <2>2 DEF left
    <3>. QED
      BY <1>6, <1>7, <2>2, <3>1, <3>2
  <2>. QED
    BY <1>1, <2>1, <2>2 DEF left
<1>14. ASSUME NEW s \in Subs
       PROVE  /\ \A i \in 1..Len(hearing'[s]) : \E b \in audience' : b.event = hearing'[s][i]
              /\ \A b \in audience' : Hears(s, b)'
  <2>1. \A i \in 1..Len(hearing'[s]) : \E b \in audience' : b.event = hearing'[s][i]
    <3>1. \A i \in 1..Len(hearing[s]) : \E b \in audience : b.event = hearing[s][i]
      BY DEF BusHearing, Begun
    <3>2. CASE hearing'[s] = hearing[s]
      BY <3>1, <3>2
    <3>3. CASE hearing'[s] = Longer(s)
      <4>. SUFFICES ASSUME NEW i \in 1..Len(Longer(s))
                    PROVE  \E b \in audience' : b.event = Longer(s)[i]
        BY <3>3
      <4>1. i \in 1..Len(hearing[s]) \/ i = Len(hearing[s]) + 1
        BY <1>18
      <4>. QED
        BY <1>18, <3>1, <4>1
    <3>. QED
      BY <1>3, <3>2, <3>3
  <2>2. ASSUME NEW b \in audience', b.event # p
        PROVE  Hears(s, b)'
    BY <1>8, <1>10, <2>2 DEF BusHearing, Hears, Addressed
  <2>3. Hears(s, a)'
    <3>. SUFFICES ASSUME Addressed(s, a)
                  PROVE  IF Owed(s, p)' THEN ~Heard(s, p)' ELSE HeardOnce(s, p)'
      BY DEF Hears, Addressed
    <3>1. CASE Called(s)
      <4>1. \E i \in 1..Len(rest) : rest[i] = s
        BY <1>0, <3>1
      <4>2. ~Owed(s, p)'
        BY <1>0, <1>9, <3>1 DEF Increasing
      <4>. QED
        BY <1>11, <3>1, <4>1, <4>2
    <3>2. CASE ~Called(s) /\ \E i \in 1..Len(rest) : rest[i] = s
      <4>1. Owed(s, p)'
        BY <1>0, <1>9, <3>2
      <4>. QED
        BY <1>12, <3>2, <4>1
    <3>3. CASE ~ \E i \in 1..Len(rest) : rest[i] = s
      <4>1. ~Owed(s, p)' /\ ~Called(s)
        BY <1>0, <1>9, <3>3
      <4>. QED
        BY <1>12, <3>3, <4>1
    <3>. QED
      BY <3>1, <3>2, <3>3
  <2>. QED
    BY <2>1, <2>2, <2>3
<1>15. BusHearing'
  BY <1>4, <1>14 DEF BusHearing, Begun, Subs
<1>16. ASSUME NEW s \in Subs, ~Behind(s), \E i \in 1..Len(rest) : rest[i] = s
       PROVE  Called(s)
  <2>1. PICK i \in 1..Len(rest) : rest[i] = s
    BY <1>16
  <2>2. CASE i > upTo
    <3>1. i - upTo \in 1..Len(left) /\ left[i - upTo] = s
      BY <1>6, <2>1, <2>2
    <3>2. upTo # 0 /\ suspends[rest[upTo]]
      BY <1>1, <2>2
    <3>. QED
      BY <1>7, <1>16, <3>1, <3>2
  <2>. QED
    BY <1>0, <2>1, <2>2
<1>17. ASSUME NEW s \in Subs
       PROVE  /\ \/ hearing'[s] = hearing[s]
                 \/ /\ \E i \in 1..Len(rest) : rest[i] = s
                    /\ hearing'[s] = Append(hearing[s], p)
              /\ ~Behind(s) /\ (\E i \in 1..Len(rest) : rest[i] = s)
                   => hearing'[s] = Append(hearing[s], p)
  BY <1>0, <1>3, <1>16 DEF Longer
<1>. QED
  BY <1>13, <1>15, <1>17

(***************************************************************************)
(* Getting a stream gives the topic one of its own.                        *)
(***************************************************************************)
LEMMA GotStream ==
  ASSUME BusTables, NEW topic \in Bus!Topics, Bus!Got(topic)
  PROVE  LET k == Bus!get(topic)
         IN  /\ k \in 1..MaxStreams /\ busStreams'[topic] = k
             /\ \A t \in Bus!Topics : t # topic => busStreams'[t] = busStreams[t]
             /\ busStreams[topic] = 0 => k > streamsMade
             /\ busStreams[topic] # 0 => k = busStreams[topic]
             /\ streamsMade' \in 0..MaxStreams /\ busStreams' \in [Bus!Topics -> 0..streamsMade']
             /\ \A t, u \in Bus!Topics :
                  busStreams'[t] = busStreams'[u] => busStreams'[t] = 0 \/ t = u
             /\ k <= streamsMade' /\ streamsMade <= streamsMade'
<1>. DEFINE k == Bus!get(topic)
<1>1. /\ streamsMade \in 0..MaxStreams /\ busStreams \in [Bus!Topics -> 0..streamsMade]
      /\ MaxStreams \in Nat /\ busStreams[topic] \in 0..streamsMade
  BY WorkersAssumption DEF BusTables
<1>2. /\ k = IF busStreams[topic] = 0 THEN streamsMade + 1 ELSE busStreams[topic]
      /\ k <= MaxStreams /\ busStreams' = [busStreams EXCEPT ![topic] = k]
      /\ streamsMade' = Bus!Max({streamsMade, k})
  BY DEF Bus!Got, Bus!get
<1>3. k \in 1..MaxStreams
  BY <1>1, <1>2
<1>4. streamsMade' \in {streamsMade, k} /\ k <= streamsMade' /\ streamsMade <= streamsMade'
  <2>1. \E i \in {streamsMade, k} : \A j \in {streamsMade, k} : i >= j
    BY <1>1, <1>3
  <2>2. streamsMade' \in {streamsMade, k} /\ \A j \in {streamsMade, k} : streamsMade' >= j
    <3>. HIDE DEF k
    <3>. QED
      BY <1>2, <2>1 DEF Bus!Max
  <2>. QED
    BY <1>1, <1>3, <2>2
<1>5. ASSUME NEW t \in Bus!Topics, NEW u \in Bus!Topics, busStreams'[t] = busStreams'[u]
      PROVE  busStreams'[t] = 0 \/ t = u
  BY <1>1, <1>2, <1>5 DEF BusTables
<1>. HIDE DEF k
<1>. QED
  BY <1>1, <1>2, <1>3, <1>4, <1>5 DEF k

(***************************************************************************)
(* Who hears nothing more, and is in the table of no topic it was not in,  *)
(* has heard what it did in order.                                         *)
(***************************************************************************)
LEMMA SameOrder ==
  ASSUME NEW s, InOrder(s), hearing'[s] = hearing[s], UNCHANGED <<shownTokens, audience>>,
         \A t \in Bus!Topics : busStreams'[t] # 0 /\ Hearing(s, t)' =>
           busStreams[t] # 0 /\ Hearing(s, t)
  PROVE  InOrder(s)'
BY DEF InOrder, Increasing, Heard, In

(***************************************************************************)
(* A subscription is the last one of its table, and has heard nothing.     *)
(***************************************************************************)
LEMMA SubscribeStep ==
  ASSUME BusIInv, NEW topic \in Bus!Topics, NEW slow \in BOOLEAN, Bus!Subscribe(topic, slow)
  PROVE  BusIInv'
<1>. USE DEF BusIInv
<1>20. PICK new : new = Len(suspends) + 1
  OBVIOUS
<1>21. PICK k : k = Bus!get(topic)
  OBVIOUS
<1>1. /\ Bus!Got(topic) /\ suspends' = Append(suspends, slow)
      /\ listeners' = [listeners EXCEPT ![k] = Append(@, Len(suspends'))]
      /\ hearing' = Append(hearing, <<>>)
      /\ UNCHANGED <<shownTokens, spawned, publishing, audience>>
  BY <1>21 DEF Bus!Subscribe
<1>2. /\ k \in 1..MaxStreams /\ busStreams'[topic] = k
      /\ \A t \in Bus!Topics : t # topic => busStreams'[t] = busStreams[t]
      /\ busStreams[topic] = 0 => k > streamsMade
      /\ busStreams[topic] # 0 => k = busStreams[topic]
      /\ streamsMade' \in 0..MaxStreams /\ busStreams' \in [Bus!Topics -> 0..streamsMade']
      /\ \A t, u \in Bus!Topics : busStreams'[t] = busStreams'[u] => busStreams'[t] = 0 \/ t = u
      /\ k <= streamsMade' /\ streamsMade <= streamsMade'
  BY <1>1, <1>21, GotStream
<1>3. /\ suspends' \in Seq(BOOLEAN) /\ Len(suspends') = new /\ Len(suspends) \in Nat
      /\ \A s \in Subs : suspends'[s] = suspends[s]
  BY <1>1, <1>20 DEF BusTables, Subs
<1>4. Subs' = Subs \cup {new} /\ new \notin Subs /\ (\A s \in Subs : s < new) /\ new \in Nat
  BY <1>3, <1>20 DEF Subs
<1>5. listeners[k] \in Seq(Nat) /\ listeners' = [listeners EXCEPT ![k] = Append(listeners[k], new)]
  BY <1>1, <1>2, <1>3 DEF BusTables
<1>. DEFINE longer == Append(listeners[k], new)
            top == Len(listeners[k]) + 1
<1>6. /\ longer \in Seq(Nat) /\ Len(longer) = top /\ Len(listeners[k]) \in Nat
      /\ longer[top] = new /\ \A i \in 1..Len(listeners[k]) : longer[i] = listeners[k][i]
      /\ 1..Len(longer) = 1..Len(listeners[k]) \cup {top}
  BY <1>4, <1>5, Appended
<1>7. /\ listeners' \in [1..MaxStreams -> Seq(Nat)] /\ listeners'[k] = longer
      /\ \A j \in 1..MaxStreams : j # k => listeners'[j] = listeners[j]
  BY <1>2, <1>5, <1>6 DEF BusTables
<1>. HIDE DEF longer, top
<1>0. \A j \in 1..MaxStreams : \A i \in 1..Len(listeners[j]) :
        /\ listeners[j][i] \in Subs
        /\ \A l \in 1..Len(listeners[j]) : i < l => listeners[j][i] < listeners[j][l]
  BY DEF BusTables
<1>8. \A s \in Subs, j \in 1..MaxStreams : Subscribed(s, j)' <=> Subscribed(s, j)
  BY <1>4, <1>6, <1>7 DEF Subscribed
<1>9. \A j \in 1..MaxStreams : Subscribed(new, j)' => j = k
  <2>. SUFFICES ASSUME NEW j \in 1..MaxStreams, Subscribed(new, j)', j # k
                PROVE  FALSE
    OBVIOUS
  <2>1. listeners'[j] = listeners[j]
    BY <1>7
  <2>3. PICK i \in 1..Len(listeners[j]) : listeners[j][i] = new
    BY <2>1 DEF Subscribed
  <2>. QED
    BY <1>0, <1>4, <2>3
<1>10. \A j \in 1..MaxStreams : \A i \in 1..Len(listeners'[j]) :
         /\ listeners'[j][i] \in Subs'
         /\ \A l \in 1..Len(listeners'[j]) : i < l => listeners'[j][i] < listeners'[j][l]
  <2>1. \A i \in 1..Len(longer) :
          /\ longer[i] \in Subs'
          /\ \A l \in 1..Len(longer) : i < l => longer[i] < longer[l]
    <3>. DEFINE old == 1..Len(listeners[k])
    <3>1. (\A i \in old : ~(top < i)) /\ ~(top < top)
      BY DEF top
    <3>2. \A i \in old : longer[i] \in Subs /\ \A l \in old : i < l => longer[i] < longer[l]
      BY <1>0, <1>2, <1>6
    <3>3. 1..Len(longer) = old \cup {top} /\ longer[top] = new
      BY <1>6
    <3>. HIDE DEF old
    <3>. QED
      BY <1>4, <3>1, <3>2, <3>3
  <2>. QED
    BY <1>0, <1>4, <1>7, <2>1
<1>11. BusTables'
  <2>1. \A j \in 1..MaxStreams : j > streamsMade' => listeners'[j] = <<>>
    BY <1>2, <1>7 DEF BusTables
  <2>2. \A s \in Subs' : \A i, j \in 1..MaxStreams : Subscribed(s, i)' /\ Subscribed(s, j)' => i = j
    <3>1. \A s \in Subs : \A i, j \in 1..MaxStreams : Subscribed(s, i) /\ Subscribed(s, j) => i = j
      BY DEF BusTables
    <3>2. ASSUME NEW s \in Subs', NEW i \in 1..MaxStreams, NEW j \in 1..MaxStreams,
                 Subscribed(s, i)', Subscribed(s, j)'
          PROVE  i = j
      <4>1. CASE s \in Subs
        BY <1>8, <3>1, <3>2, <4>1
      <4>2. CASE s = new
        <5>1. Subscribed(new, i)' /\ Subscribed(new, j)'
          BY <3>2, <4>2 DEF Subscribed
        <5>. QED
          BY <1>9, <5>1
      <4>. QED
        BY <1>4, <4>1, <4>2
    <3>. QED
      BY <3>2
  <2>. QED
    BY <1>2, <1>3, <1>7, <1>10, <2>1, <2>2 DEF BusTables
<1>12. \A s \in Subs : Behind(s)' <=> Behind(s)
  <2>. SUFFICES ASSUME NEW s \in Subs, NEW j \in 1..MaxStreams
                PROVE  (\E i \in 1..Len(listeners'[j]) : suspends'[listeners'[j][i]] /\ listeners'[j][i] < s)
                       <=> \E i \in 1..Len(listeners[j]) : suspends[listeners[j][i]] /\ listeners[j][i] < s
    BY <1>8 DEF Behind
  <2>1. ~(new < s)
    BY <1>3, <1>4 DEF Subs
  <2>2. CASE j = k
    <3>. DEFINE old == 1..Len(listeners[k])
    <3>1. \A i \in old : listeners[k][i] \in Subs /\ longer[i] = listeners[k][i]
      BY <1>0, <1>2, <1>6
    <3>2. 1..Len(longer) = old \cup {top} /\ longer[top] = new
      BY <1>6
    <3>3. 1..Len(listeners'[j]) = old \cup {top} /\ listeners'[j] = longer /\ listeners[j] = listeners[k]
      BY <1>7, <2>2, <3>2
    <3>. HIDE DEF old
    <3>4. (\E i \in 1..Len(listeners'[j]) : suspends'[listeners'[j][i]] /\ listeners'[j][i] < s)
            <=> \E i \in old : suspends[listeners[j][i]] /\ listeners[j][i] < s
      BY <1>3, <2>1, <3>1, <3>2, <3>3
    <3>. QED
      BY <2>2, <3>4 DEF old
  <2>3. CASE j # k
    BY <1>0, <1>3, <1>7, <2>3
  <2>. QED
    BY <2>2, <2>3
<1>13. BusEvents'
  BY <1>1, <1>4 DEF BusEvents, Begun
<1>14. Waiting'
  BY <1>1, <1>4, <1>12 DEF Waiting, Increasing, Addressed
<1>15. /\ hearing' \in Seq(Seq(Nat)) /\ Len(hearing') = Len(suspends') /\ hearing'[new] = <<>>
       /\ \A s \in Subs : hearing'[s] = hearing[s]
  <2>. DEFINE T == Seq(Nat)
  <2>1. <<>> \in T
    OBVIOUS
  <2>. HIDE DEF T
  <2>2. hearing \in Seq(T) /\ Len(hearing) = Len(suspends)
    BY DEF BusHearing, T
  <2>. QED
    BY <1>1, <1>3, <1>20, <2>1, <2>2 DEF Subs, T
<1>16. BusHearing'
  <2>1. \A s \in Subs : \A n : (Heard(s, n)' <=> Heard(s, n)) /\ (HeardOnce(s, n)' <=> HeardOnce(s, n))
                             /\ (Owed(s, n)' <=> Owed(s, n))
    BY <1>1, <1>15 DEF Heard, HeardOnce, Owed
  <2>2. \A a \in audience : ~Addressed(new, a)
    BY <1>4 DEF BusEvents, Addressed
  <2>3. ASSUME NEW s \in Subs'
        PROVE  /\ \A i \in 1..Len(hearing'[s]) : \E a \in audience : a.event = hearing'[s][i]
               /\ \A a \in audience : Hears(s, a)'
    <3>1. CASE s \in Subs
      <4>1. /\ \A i \in 1..Len(hearing[s]) : \E a \in audience : a.event = hearing[s][i]
            /\ \A a \in audience : Hears(s, a)
        BY <3>1 DEF BusHearing, Begun
      <4>2. \A a \in audience : Hears(s, a)'
        BY <2>1, <3>1, <4>1 DEF Hears, Addressed
      <4>. QED
        BY <1>15, <3>1, <4>1, <4>2
    <3>2. CASE s = new
      <4>1. \A a \in audience : Hears(s, a)'
        BY <2>2, <3>2 DEF Hears, Addressed
      <4>2. 1..Len(hearing'[s]) = {}
        BY <1>15, <3>2
      <4>. QED
        BY <4>1, <4>2
    <3>. QED
      BY <1>4, <3>1, <3>2
  <2>. QED
    BY <1>1, <1>15, <2>3 DEF BusHearing, Begun
<1>17. BusOrder'
  <2>. SUFFICES ASSUME NEW s \in Subs', ~Behind(s)', hearing'[s] # <<>>
                PROVE  InOrder(s)'
    BY DEF BusOrder
  <2>1. s \in Subs /\ hearing'[s] = hearing[s] /\ InOrder(s)
    BY <1>4, <1>12, <1>15 DEF BusOrder
  <2>2. ASSUME NEW t \in Bus!Topics, busStreams'[t] # 0, Hearing(s, t)'
        PROVE  busStreams[t] # 0 /\ Hearing(s, t)
    <3>1. PICK j : j = busStreams'[t]
      OBVIOUS
    <3>2. j \in 1..MaxStreams
      <4>1. busStreams'[t] \in 0..streamsMade' /\ streamsMade' \in 0..MaxStreams
        BY <1>2
      <4>2. MaxStreams \in Nat
        BY WorkersAssumption
      <4>. QED
        BY <2>2, <3>1, <4>1, <4>2
    <3>3. Subscribed(s, j)
      <4>1. Subscribed(s, j)'
        BY <2>2, <3>1 DEF Hearing, Subscribed
      <4>. QED
        BY <1>8, <2>1, <3>2, <4>1
    <3>4. j <= streamsMade
      <4>1. listeners[j] # <<>>
        BY <3>3 DEF Subscribed
      <4>. QED
        BY <3>2, <4>1 DEF BusTables
    <3>5. t # topic \/ busStreams[topic] # 0
      BY <1>2, <3>1, <3>2, <3>4 DEF BusTables
    <3>6. busStreams[t] = busStreams'[t]
      BY <1>2, <3>5
    <3>. QED
      BY <2>2, <3>1, <3>3, <3>6 DEF Hearing
  <2>3. UNCHANGED <<shownTokens, audience>>
    BY <1>1
  <2>. QED
    BY <2>1, <2>2, <2>3, SameOrder
<1>. QED
  BY <1>11, <1>13, <1>14, <1>16, <1>17

(***************************************************************************)
(* A topic that is removed has no stream.                                  *)
(***************************************************************************)
LEMMA RemoveStep ==
  ASSUME BusIInv, NEW topic \in Bus!Topics, Bus!remove(topic)
  PROVE  BusIInv'
<1>. USE DEF BusIInv
<1>1. /\ busStreams' = [busStreams EXCEPT ![topic] = 0]
      /\ UNCHANGED <<streamsMade, listeners, suspends, shownTokens, spawned, publishing, audience, hearing>>
  BY DEF Bus!remove
<1>2. /\ busStreams'[topic] = 0 /\ busStreams' \in [Bus!Topics -> 0..streamsMade]
      /\ \A t \in Bus!Topics : t # topic => busStreams'[t] = busStreams[t]
  BY <1>1 DEF BusTables
<1>3. BusTables'
  BY <1>1, <1>2 DEF BusTables, Subs, Subscribed
<1>4. BusEvents' /\ Waiting' /\ BusHearing'
  BY <1>1 DEF BusEvents, Waiting, BusHearing, Begun, Hears, Heard, HeardOnce, Owed, Addressed, Subs,
              Behind, Subscribed
<1>5. ASSUME NEW s \in Subs, ~Behind(s), hearing[s] # <<>>
      PROVE  InOrder(s)'
  <2>1. InOrder(s)
    BY <1>5 DEF BusOrder
  <2>2. ASSUME NEW t \in Bus!Topics, busStreams'[t] # 0, Hearing(s, t)'
        PROVE  busStreams[t] # 0 /\ Hearing(s, t)
    <3>1. busStreams'[t] = busStreams[t] /\ listeners' = listeners
      BY <1>1, <1>2, <2>2
    <3>. QED
      BY <2>2, <3>1 DEF Hearing, Subscribed
  <2>3. hearing'[s] = hearing[s] /\ UNCHANGED <<shownTokens, audience>>
    BY <1>1
  <2>. QED
    BY <2>1, <2>2, <2>3, SameOrder
<1>6. BusOrder'
  BY <1>1, <1>5 DEF BusOrder, Subs, Behind, Subscribed
<1>. QED
  BY <1>3, <1>4, <1>6

(***************************************************************************)
(* An event of the graph is the last one shown, and the last one spawned.  *)
(***************************************************************************)
LEMMA GraphEventStep ==
  ASSUME BusIInv, NEW type \in Bus!Topics \cup {"node_start"}, Bus!GraphEvent(type)
  PROVE  BusIInv'
<1>. USE DEF BusIInv
<1>1. /\ shownTokens' = Append(shownTokens, [type |-> type, bus |-> context /\ Bus!Published(type)])
      /\ spawned' = IF context /\ Bus!Published(type) THEN Append(spawned, Len(shownTokens'))
                    ELSE spawned
      /\ UNCHANGED <<busStreams, streamsMade, listeners, suspends, publishing, audience, hearing>>
  BY DEF Bus!GraphEvent, Bus!table
<1>2. PICK n : n = Len(shownTokens) + 1
  OBVIOUS
<1>3. PICK bus \in BOOLEAN : bus <=> context /\ Bus!Published(type)
  OBVIOUS
<1>4. /\ shownTokens' \in Seq([type : Bus!Topics \cup {"node_start"}, bus : BOOLEAN])
      /\ Len(shownTokens') = n /\ Len(shownTokens) \in Nat
      /\ shownTokens'[n].type = type /\ (shownTokens'[n].bus <=> bus)
      /\ \A i \in 1..Len(shownTokens) : shownTokens'[i] = shownTokens[i]
  BY <1>1, <1>2, <1>3 DEF BusEvents
<1>5. 1..n = 1..Len(shownTokens) \cup {n} /\ n \notin 1..Len(shownTokens) /\ n \in Nat
      /\ (\A i \in 1..Len(shownTokens) : i < n)
  BY <1>2, <1>4
<1>6. /\ spawned \in Seq(1..Len(shownTokens)) /\ Len(spawned) \in Nat
      /\ \A i \in 1..Len(spawned) : spawned[i] \in 1..Len(shownTokens)
  BY DEF BusEvents
<1>7. BusEvents'
  <2>1. \A i \in 1..n : shownTokens'[i].bus => shownTokens'[i].type \in Bus!Topics
    BY <1>3, <1>4, <1>5 DEF BusEvents, Bus!Published
  <2>2. \A a \in audience :
          /\ a.event \in 1..n /\ shownTokens'[a.event].bus
          /\ a.to \in Seq(Nat) /\ \A i \in 1..Len(a.to) : a.to[i] \in Subs
          /\ \A b \in audience : a.event = b.event => a = b
    BY <1>4, <1>5 DEF BusEvents
  <2>5. /\ shownTokens' \in Seq([type : Bus!Topics \cup {"node_start"}, bus : BOOLEAN])
        /\ Len(shownTokens') = n /\ audience' = audience /\ Subs' = Subs
    BY <1>1, <1>4 DEF Subs
  <2>6. ASSUME spawned' \in Seq(1..n),
               \A i \in 1..Len(spawned') :
                 /\ shownTokens'[spawned'[i]].bus
                 /\ \A j \in 1..Len(spawned') : i < j => spawned'[i] < spawned'[j]
                 /\ \A a \in audience : a.event < spawned'[i],
               \A i \in 1..n : shownTokens'[i].bus =>
                 Begun(i) \/ \E j \in 1..Len(spawned') : spawned'[j] = i
        PROVE  BusEvents'
    BY <2>1, <2>2, <2>5, <2>6 DEF BusEvents, Begun
  <2>3. CASE ~bus
    <3>1. spawned' = spawned
      BY <1>1, <1>3, <2>3
    <3>2. spawned' \in Seq(1..n)
      BY <1>5, <1>6, <3>1
    <3>3. \A i \in 1..Len(spawned') :
            /\ shownTokens'[spawned'[i]].bus
            /\ \A j \in 1..Len(spawned') : i < j => spawned'[i] < spawned'[j]
            /\ \A a \in audience : a.event < spawned'[i]
      BY <1>4, <1>6, <3>1 DEF BusEvents
    <3>4. \A i \in 1..n : shownTokens'[i].bus =>
            Begun(i) \/ \E j \in 1..Len(spawned') : spawned'[j] = i
      BY <1>4, <1>5, <2>3, <3>1 DEF BusEvents
    <3>. QED
      BY <2>6, <3>2, <3>3, <3>4
  <2>4. CASE bus
    <3>1. spawned' = Append(spawned, n)
      BY <1>1, <1>3, <1>4, <2>4
    <3>. DEFINE old == 1..Len(spawned)   top == Len(spawned) + 1
    <3>2. /\ spawned' \in Seq(1..n) /\ Len(spawned') = top /\ spawned'[top] = n
          /\ \A i \in old : spawned'[i] = spawned[i]
      BY <1>5, <1>6, <3>1
    <3>3. 1..Len(spawned') = old \cup {top} /\ (\A i \in old : i < top /\ ~(top < i)) /\ ~(top < top)
      BY <1>6, <3>2
    <3>4. \A i \in old :
            /\ shownTokens'[spawned[i]].bus
            /\ \A j \in old : i < j => spawned[i] < spawned[j]
            /\ \A a \in audience : a.event < spawned[i]
      BY <1>4, <1>6 DEF BusEvents
    <3>5. \A i \in 1..n : shownTokens'[i].bus =>
            Begun(i) \/ i = n \/ \E j \in old : spawned[j] = i
      BY <1>4, <1>5 DEF BusEvents
    <3>6. (\A a \in audience : a.event < n) /\ (\A i \in old : spawned[i] < n)
      BY <1>5, <1>6 DEF BusEvents
    <3>. HIDE DEF old, top
    <3>7. \A i \in 1..Len(spawned') :
            /\ shownTokens'[spawned'[i]].bus
            /\ \A j \in 1..Len(spawned') : i < j => spawned'[i] < spawned'[j]
            /\ \A a \in audience : a.event < spawned'[i]
      <4>. SUFFICES ASSUME NEW i \in 1..Len(spawned')
                    PROVE  /\ shownTokens'[spawned'[i]].bus
                           /\ \A j \in 1..Len(spawned') : i < j => spawned'[i] < spawned'[j]
                           /\ \A a \in audience : a.event < spawned'[i]
        OBVIOUS
      <4>1. CASE i \in old
        BY <3>2, <3>3, <3>4, <3>6, <4>1
      <4>2. CASE i = top
        BY <1>4, <2>4, <3>2, <3>3, <3>6, <4>2
      <4>. QED
        BY <3>3, <4>1, <4>2
    <3>8. \A i \in 1..n : shownTokens'[i].bus =>
            Begun(i) \/ \E j \in 1..Len(spawned') : spawned'[j] = i
      BY <3>2, <3>3, <3>5
    <3>. QED
      BY <2>6, <3>2, <3>7, <3>8
  <2>. QED
    BY <1>3, <2>3, <2>4
<1>8. BusTables' /\ Waiting' /\ BusHearing'
  <2>1. UNCHANGED <<busStreams, streamsMade, listeners, suspends, publishing, audience, hearing>>
    BY <1>1
  <2>2. BusTables'
    BY <2>1 DEF BusTables, Subs, Subscribed
  <2>3. Waiting'
    <3>1. \A s : Behind(s)' <=> Behind(s)
      BY <2>1 DEF Behind, Subscribed
    <3>2. publishing' = publishing /\ audience' = audience /\ Subs' = Subs
      BY <2>1 DEF Subs
    <3>. QED
      BY <3>1, <3>2 DEF Waiting
  <2>4. BusHearing'
    <3>1. \A s, a : Hears(s, a)' <=> Hears(s, a)
      BY <2>1 DEF Hears, Heard, HeardOnce, Owed, Addressed
    <3>2. \A m : Begun(m)' <=> Begun(m)
      BY <2>1 DEF Begun
    <3>. QED
      BY <2>1, <3>1, <3>2 DEF BusHearing, Subs
  <2>. QED
    BY <2>2, <2>3, <2>4
<1>9. ASSUME NEW s \in Subs, ~Behind(s), hearing[s] # <<>>
      PROVE  InOrder(s)'
  <2>1. InOrder(s)
    BY <1>9 DEF BusOrder
  <2>2. \A i \in 1..Len(hearing[s]) :
          hearing[s][i] \in 1..Len(shownTokens) /\ shownTokens'[hearing[s][i]] = shownTokens[hearing[s][i]]
    BY <1>4, <1>9 DEF BusHearing, Begun, BusEvents
  <2>3. 1 \in 1..Len(hearing[s]) /\ Len(hearing[s]) \in 1..Len(hearing[s])
    <3>1. hearing[s] \in Seq(Nat)
      BY DEF BusHearing, Subs
    <3>. QED
      BY <1>9, <3>1
  <2>4. \A a \in audience : shownTokens'[a.event] = shownTokens[a.event]
    BY <1>4 DEF BusEvents
  <2>5. \A i \in hearing[s][1]..hearing[s][Len(hearing[s])] :
          i \in 1..Len(shownTokens) /\ shownTokens'[i] = shownTokens[i]
    BY <1>4, <2>2, <2>3
  <2>6. \A t \in Bus!Topics : Hearing(s, t)' <=> Hearing(s, t)
    BY <1>1 DEF Hearing, Subscribed
  <2>7. UNCHANGED <<busStreams, audience, hearing>>
    BY <1>1
  <2>8. PICK first : first = hearing[s][1]
    OBVIOUS
  <2>9. PICK last : last = hearing[s][Len(hearing[s])]
    OBVIOUS
  <2>10. shownTokens'[first] = shownTokens[first]
    BY <2>2, <2>3, <2>8
  <2>11. \A i \in 1..Len(hearing[s]) : shownTokens'[hearing[s][i]].type = shownTokens'[first].type
    BY <2>1, <2>2, <2>8, <2>10 DEF InOrder
  <2>12. \A i \in first..last :
           shownTokens'[i].bus /\ shownTokens'[i].type = shownTokens'[first].type => Heard(s, i)
    BY <2>1, <2>5, <2>8, <2>9, <2>10 DEF InOrder
  <2>13. \A t \in Bus!Topics : busStreams[t] # 0 /\ Hearing(s, t) =>
           /\ shownTokens'[first].type = t
           /\ \A a \in audience : shownTokens'[a.event].type = t => a.event <= last \/ a.event < first
    BY <2>1, <2>4, <2>8, <2>9, <2>10 DEF InOrder
  <2>14. Increasing(hearing[s])
    BY <2>1 DEF InOrder
  <2>. QED
    BY <2>6, <2>7, <2>8, <2>9, <2>11, <2>12, <2>13, <2>14 DEF InOrder, Increasing, Heard, In
<1>10. BusOrder'
  BY <1>1, <1>9 DEF BusOrder, Subs, Behind, Subscribed
<1>. QED
  BY <1>7, <1>8, <1>10

(***************************************************************************)
(* A coroutine that begins calls those who are subscribed to its topic.    *)
(***************************************************************************)
LEMMA BeginsStep ==
  ASSUME BusIInv, Bus!Begins
  PROVE  BusIInv'
<1>. USE DEF BusIInv
<1>1. PICK p : p = spawned[1]
  OBVIOUS
<1>2. PICK topic : topic = shownTokens[p].type
  OBVIOUS
<1>3. PICK k : k = Bus!get(topic)
  OBVIOUS
<1>4. PICK rest : rest = listeners[k]
  OBVIOUS
<1>5. PICK a : a = [event |-> p, to |-> rest]
  OBVIOUS
<1>6. /\ spawned # <<>> /\ spawned' = Bus!RemoveAt(spawned, 1)
      /\ Bus!Got(topic) /\ audience' = audience \cup {a} /\ Bus!Calls(p, rest)
      /\ UNCHANGED <<listeners, suspends, context, shownTokens>>
  BY <1>1, <1>2, <1>3, <1>4, <1>5 DEF Bus!Begins, Bus!NextSpawned, Bus!HoldsTheBus
<1>7. /\ spawned \in Seq(1..Len(shownTokens)) /\ Len(spawned) \in Nat \ {0}
      /\ Len(shownTokens) \in Nat
      /\ \A i \in 1..Len(spawned) : /\ spawned[i] \in 1..Len(shownTokens) /\ shownTokens[spawned[i]].bus
                                    /\ \A b \in audience : b.event < spawned[i]
                                    /\ i # 1 => p < spawned[i]
  BY <1>1, <1>6 DEF BusEvents
<1>8. /\ spawned' \in Seq(1..Len(shownTokens)) /\ Len(spawned') = Len(spawned) - 1
      /\ \A i \in 1..Len(spawned') : i + 1 \in 1..Len(spawned) /\ spawned'[i] = spawned[i + 1]
      /\ \A i \in 1..Len(spawned) : i # 1 => i - 1 \in 1..Len(spawned') /\ spawned'[i - 1] = spawned[i]
  <2>1. spawned' = SubSeq(spawned, 1, 0) \o SubSeq(spawned, 2, Len(spawned))
    BY <1>6 DEF Bus!RemoveAt
  <2>2. SubSeq(spawned, 1, 0) = <<>>
    BY <1>7
  <2>. DEFINE others == SubSeq(spawned, 2, Len(spawned))
  <2>3. /\ others \in Seq(1..Len(shownTokens)) /\ Len(others) = Len(spawned) - 1
        /\ \A i \in 1..Len(others) : others[i] = spawned[i + 1]
    <3>. DEFINE T == 1..Len(shownTokens)
    <3>1. spawned \in Seq(T) /\ Len(spawned) \in Nat \ {0}
      BY <1>7
    <3>. HIDE DEF T
    <3>2. others \in Seq(T)
      BY <3>1
    <3>3. Len(others) = Len(spawned) - 1
      <4>1. CASE Len(spawned) = 1
        BY <3>1, <4>1
      <4>2. CASE Len(spawned) >= 2
        BY <3>1, <4>2
      <4>3. Len(spawned) = 1 \/ Len(spawned) >= 2
        <5>. DEFINE m == Len(spawned)
        <5>1. m \in Nat \ {0}
          BY <3>1
        <5>. HIDE DEF m
        <5>2. m = 1 \/ m >= 2
          BY <5>1
        <5>. QED
          BY <5>2 DEF m
      <4>. QED
        BY <4>1, <4>2, <4>3
    <3>4. \A i \in 1..Len(others) : others[i] = spawned[i + 1]
      BY <3>1, <3>3
    <3>. QED
      BY <3>2, <3>3, <3>4 DEF T
  <2>4. spawned' = others
    <3>1. spawned' = <<>> \o others
      BY <2>1, <2>2
    <3>. DEFINE T == 1..Len(shownTokens)
    <3>2. others \in Seq(T)
      BY <2>3
    <3>. HIDE DEF others, T
    <3>. QED
      BY <3>1, <3>2
  <2>. HIDE DEF others
  <2>. QED
    BY <1>7, <2>3, <2>4
<1>20. UNCHANGED <<listeners, suspends, shownTokens>>
  BY <1>6
<1>9. /\ p \in 1..Len(shownTokens) /\ p \in Nat /\ shownTokens[p].bus /\ topic \in Bus!Topics
      /\ \A b \in audience : b.event < p
  BY <1>1, <1>2, <1>7 DEF BusEvents
<1>10. /\ k \in 1..MaxStreams /\ busStreams'[topic] = k
       /\ \A t \in Bus!Topics : t # topic => busStreams'[t] = busStreams[t]
       /\ busStreams[topic] = 0 => k > streamsMade
       /\ busStreams[topic] # 0 => k = busStreams[topic]
       /\ streamsMade' \in 0..MaxStreams /\ busStreams' \in [Bus!Topics -> 0..streamsMade']
       /\ \A t, u \in Bus!Topics : busStreams'[t] = busStreams'[u] => busStreams'[t] = 0 \/ t = u
       /\ k <= streamsMade' /\ streamsMade <= streamsMade'
  BY <1>3, <1>6, <1>9, GotStream
<1>11. /\ rest \in Seq(Nat) /\ Increasing(rest)
       /\ \A i \in 1..Len(rest) : rest[i] \in Subs /\ Addressed(rest[i], a)
       /\ \A s : Addressed(s, a) <=> \E i \in 1..Len(rest) : rest[i] = s
       /\ \A s : Subscribed(s, k) <=> \E i \in 1..Len(rest) : rest[i] = s
  BY <1>4, <1>5, <1>10 DEF BusTables, Increasing, Addressed, Subscribed
<1>12. \A i, j \in 1..Len(rest) : i < j /\ suspends[rest[i]] => Behind(rest[j])
  <2>. SUFFICES ASSUME NEW i \in 1..Len(rest), NEW j \in 1..Len(rest), i < j, suspends[rest[i]]
                PROVE  Behind(rest[j])
    OBVIOUS
  <2>1. Subscribed(rest[j], k) /\ rest[i] < rest[j]
    BY <1>11 DEF Increasing
  <2>. QED
    BY <1>4, <1>10, <2>1 DEF Behind
<1>13. \A s \in Subs : ~Heard(s, p)
  <2>. SUFFICES ASSUME NEW s \in Subs, NEW i \in 1..Len(hearing[s]), hearing[s][i] = p
                PROVE  FALSE
    BY DEF Heard, In
  <2>1. Begun(p)
    BY DEF BusHearing
  <2>. QED
    BY <1>9, <2>1 DEF Begun
<1>14. /\ Waiting' /\ BusHearing'
       /\ \A s \in Subs : /\ \/ hearing'[s] = hearing[s]
                             \/ /\ \E i \in 1..Len(rest) : rest[i] = s
                                /\ hearing'[s] = Append(hearing[s], p)
                          /\ ~Behind(s) /\ (\E i \in 1..Len(rest) : rest[i] = s)
                               => hearing'[s] = Append(hearing[s], p)
  <2>1. a.event = p /\ \A b \in audience : b.event = p => b = a
    BY <1>5, <1>9
  <2>2. UNCHANGED <<listeners, suspends>>
    BY <1>6
  <2>3. \A s \in Subs : Addressed(s, a) =>
          IF \E i \in 1..Len(rest) : rest[i] = s THEN ~Heard(s, p) ELSE HeardOnce(s, p)
    BY <1>11, <1>13
  <2>4. rest \in Seq(Nat) /\ Increasing(rest) /\ p \in Nat
    BY <1>9, <1>11
  <2>5. \A i \in 1..Len(rest) : rest[i] \in Subs /\ Addressed(rest[i], a)
    BY <1>11
  <2>6. audience' = audience \cup {a} /\ Bus!Calls(p, rest)
    BY <1>6
  <2>. QED
    BY <1>12, <2>1, <2>2, <2>3, <2>4, <2>5, <2>6, CallsHear, SMTT(60)
<1>15. BusTables'
  <2>1. \A j \in 1..MaxStreams : j > streamsMade' => listeners[j] = <<>>
    BY <1>10 DEF BusTables
  <2>2. /\ listeners \in [1..MaxStreams -> Seq(Nat)] /\ suspends \in Seq(BOOLEAN)
        /\ \A j \in 1..MaxStreams : \A i \in 1..Len(listeners[j]) :
             /\ listeners[j][i] \in Subs
             /\ \A l \in 1..Len(listeners[j]) : i < l => listeners[j][i] < listeners[j][l]
    BY DEF BusTables
  <2>3. \A s \in Subs : \A i, j \in 1..MaxStreams : Subscribed(s, i) /\ Subscribed(s, j) => i = j
    BY DEF BusTables
  <2>4. Subs' = Subs /\ \A s, j : Subscribed(s, j)' <=> Subscribed(s, j)
    BY <1>20 DEF Subs, Subscribed
  <2>5. /\ streamsMade' \in 0..MaxStreams /\ busStreams' \in [Bus!Topics -> 0..streamsMade']
        /\ \A t, u \in Bus!Topics : busStreams'[t] = busStreams'[u] => busStreams'[t] = 0 \/ t = u
    BY <1>10
  <2>. QED
    BY <1>20, <2>1, <2>2, <2>3, <2>4, <2>5 DEF BusTables
<1>16. \A n : Begun(n)' <=> Begun(n) \/ n = p
  BY <1>5, <1>6 DEF Begun
<1>17. BusEvents'
  <2>1. \A i \in 1..Len(spawned') :
          /\ shownTokens[spawned'[i]].bus
          /\ \A j \in 1..Len(spawned') : i < j => spawned'[i] < spawned'[j]
          /\ \A b \in audience' : b.event < spawned'[i]
    <3>. SUFFICES ASSUME NEW i \in 1..Len(spawned')
                  PROVE  /\ shownTokens[spawned'[i]].bus
                         /\ \A j \in 1..Len(spawned') : i < j => spawned'[i] < spawned'[j]
                         /\ \A b \in audience' : b.event < spawned'[i]
      OBVIOUS
    <3>1. i + 1 \in 1..Len(spawned) /\ i + 1 # 1 /\ spawned'[i] = spawned[i + 1]
      BY <1>8
    <3>2. ASSUME NEW j \in 1..Len(spawned'), i < j
          PROVE  spawned'[i] < spawned'[j]
      <4>1. j + 1 \in 1..Len(spawned) /\ spawned'[j] = spawned[j + 1] /\ i + 1 < j + 1
        <5>1. j + 1 \in 1..Len(spawned) /\ spawned'[j] = spawned[j + 1]
          BY <1>8
        <5>2. i \in Nat /\ j \in Nat
          BY <1>7, <1>8
        <5>. QED
          BY <3>2, <5>1, <5>2
      <4>. QED
        BY <3>1, <4>1 DEF BusEvents
    <3>. QED
      BY <1>5, <1>6, <1>7, <3>1, <3>2
  <2>2. ASSUME NEW n \in 1..Len(shownTokens), shownTokens[n].bus
        PROVE  Begun(n)' \/ \E i \in 1..Len(spawned') : spawned'[i] = n
    <3>1. CASE Begun(n)
      BY <1>16, <3>1
    <3>2. CASE \E i \in 1..Len(spawned) : spawned[i] = n
      BY <1>1, <1>8, <1>16, <3>2
    <3>. QED
      BY <2>2, <3>1, <3>2 DEF BusEvents
  <2>3. \A b \in audience' :
          /\ b.event \in 1..Len(shownTokens) /\ shownTokens[b.event].bus
          /\ b.to \in Seq(Nat) /\ \A i \in 1..Len(b.to) : b.to[i] \in Subs
    BY <1>5, <1>6, <1>9, <1>11 DEF BusEvents
  <2>4. \A b, c \in audience' : b.event = c.event => b = c
    BY <1>5, <1>6, <1>9 DEF BusEvents
  <2>5. UNCHANGED <<shownTokens, suspends>>
    BY <1>6
  <2>. QED
    BY <1>8, <2>1, <2>2, <2>3, <2>4, <2>5 DEF BusEvents, Subs
<1>18. ASSUME NEW s \in Subs, ~Behind(s), hearing'[s] # <<>>
       PROVE  InOrder(s)'
  <2>1. hearing[s] \in Seq(Nat) /\ Len(hearing[s]) \in Nat
    BY DEF BusHearing, Subs
  <2>2. CASE ~Subscribed(s, k)
    <3>1. hearing'[s] = hearing[s]
      BY <1>11, <1>14, <2>2
    <3>2. InOrder(s)
      BY <1>18, <3>1 DEF BusOrder
    <3>3. ASSUME NEW t \in Bus!Topics, busStreams'[t] # 0, Hearing(s, t)'
          PROVE  t # topic /\ busStreams[t] # 0 /\ Hearing(s, t)
      <4>1. \A j : j = busStreams'[t] => Subscribed(s, j)
        BY <1>6, <3>3 DEF Hearing, Subscribed
      <4>2. t # topic
        BY <1>10, <2>2, <4>1
      <4>. QED
        BY <1>10, <3>3, <4>1, <4>2 DEF Hearing
    <3>4. \A b \in audience' : b \in audience \/ shownTokens[b.event].type = topic
      BY <1>2, <1>5, <1>6
    <3>. QED
      BY <1>6, <3>1, <3>2, <3>3, <3>4 DEF InOrder, Increasing, Heard, In
  <2>3. CASE Subscribed(s, k)
    <3>1. hearing'[s] = Append(hearing[s], p)
      BY <1>11, <1>14, <1>18, <2>3
    <3>2. ASSUME NEW t \in Bus!Topics, busStreams'[t] # 0, Hearing(s, t)'
          PROVE  t = topic
      <4>1. PICK j : j = busStreams'[t]
        OBVIOUS
      <4>2. Subscribed(s, j)
        BY <1>6, <3>2, <4>1 DEF Hearing, Subscribed
      <4>3. j \in 1..MaxStreams
        <5>1. busStreams'[t] \in 0..streamsMade' /\ streamsMade' \in 0..MaxStreams
          BY <1>10
        <5>2. MaxStreams \in Nat
          BY WorkersAssumption
        <5>. QED
          BY <3>2, <4>1, <5>1, <5>2
      <4>4. j = k
        BY <1>10, <2>3, <4>2, <4>3 DEF BusTables
      <4>. QED
        BY <1>9, <1>10, <3>2, <4>1, <4>4
    <3>3. \A b \in audience' : b.event <= p
      BY <1>5, <1>6, <1>9 DEF BusEvents
    <3>. DEFINE old == 1..Len(hearing[s])   top == Len(hearing[s]) + 1
    <3>4. /\ Len(hearing'[s]) = top /\ hearing'[s][top] = p
          /\ \A i \in old : hearing'[s][i] = hearing[s][i]
          /\ 1..top = old \cup {top} /\ (\A i \in old : ~(top < i)) /\ ~(top < top)
      BY <1>9, <2>1, <3>1, Appended
    <3>5. \A i \in old : hearing[s][i] < p
      BY <1>9 DEF BusHearing, Begun
    <3>6. CASE hearing[s] = <<>>
      <4>1. old = {} /\ top = 1
        BY <3>6
      <4>2. hearing'[s][1] = p /\ Len(hearing'[s]) = 1
        BY <3>4, <4>1
      <4>3. Increasing(hearing'[s]) /\ \A n \in p..p : Heard(s, n)'
        BY <1>9, <4>2 DEF Increasing, Heard, In
      <4>. HIDE DEF old, top
      <4>. QED
        <5>1. /\ \A i \in 1..1 : shownTokens[hearing'[s][i]].type = topic
              /\ \A t \in Bus!Topics : busStreams'[t] # 0 /\ Hearing(s, t)' =>
                   topic = t /\ \A b \in audience' : b.event <= p
          BY <1>2, <3>2, <3>3, <4>2
        <5>. QED
          BY <1>2, <1>20, <4>2, <4>3, <5>1 DEF InOrder
    <3>7. CASE hearing[s] # <<>>
      <4>1. InOrder(s)
        BY <1>18, <3>7 DEF BusOrder
      <4>2. busStreams[topic] # 0 /\ Hearing(s, topic)
        <5>1. listeners[k] # <<>>
          BY <2>3 DEF Subscribed
        <5>2. ~(k > streamsMade)
          BY <1>10, <5>1 DEF BusTables
        <5>. QED
          BY <1>10, <2>3, <5>2 DEF Hearing
      <4>3. PICK first : first = hearing[s][1]
        OBVIOUS
      <4>4. PICK last : last = hearing[s][Len(hearing[s])]
        OBVIOUS
      <4>5. /\ first \in Nat /\ last \in Nat /\ first < p /\ shownTokens[first].type = topic
            /\ 1 \in old /\ Len(hearing[s]) \in old
            /\ \A b \in audience : shownTokens[b.event].type = topic => b.event <= last \/ b.event < first
            /\ \A n \in first..last : shownTokens[n].bus /\ shownTokens[n].type = topic => Heard(s, n)
            /\ \A i \in old : shownTokens[hearing[s][i]].type = topic
        <5>1. 1 \in old /\ Len(hearing[s]) \in old /\ first \in Nat /\ last \in Nat
          BY <2>1, <3>7, <4>3, <4>4
        <5>2. shownTokens[first].type = topic
          BY <1>9, <4>1, <4>2, <4>3 DEF InOrder
        <5>. QED
          BY <1>9, <3>5, <4>1, <4>2, <4>3, <4>4, <5>1, <5>2 DEF InOrder
      <4>6. hearing'[s][1] = first
        BY <3>4, <4>3, <4>5
      <4>7. Increasing(hearing[s])
        BY <4>1 DEF InOrder
      <4>. HIDE DEF old, top
      <4>8. Increasing(hearing'[s])
        BY <3>4, <3>5, <4>7 DEF Increasing, old
      <4>9. \A i \in 1..top : shownTokens[hearing'[s][i]].type = topic
        BY <1>2, <3>4, <4>5
      <4>10. ASSUME NEW n \in first..p, shownTokens[n].bus, shownTokens[n].type = topic
             PROVE  Heard(s, n)'
        <5>1. CASE n = p
          BY <3>4, <5>1 DEF Heard, In
        <5>2. CASE n < p
          <6>1. n \in 1..Len(shownTokens)
            <7>1. first \in 1..Len(shownTokens)
              <8>1. Begun(first)
                BY <4>3, <4>5 DEF BusHearing, old
              <8>. QED
                BY <8>1 DEF Begun, BusEvents
            <7>. QED
              BY <1>7, <1>9, <5>2, <7>1
          <6>2. \A i \in 1..Len(spawned) : spawned[i] # n
            BY <1>1, <1>7, <5>2, <6>1
          <6>3. Begun(n)
            BY <4>10, <6>1, <6>2 DEF BusEvents
          <6>4. n \in first..last
            BY <4>5, <4>10, <6>1, <6>3 DEF Begun
          <6>5. Heard(s, n)
            BY <4>5, <4>10, <6>4
          <6>. QED
            BY <3>4, <6>5 DEF Heard, In, old
        <5>. QED
          BY <1>9, <4>5, <5>1, <5>2
      <4>. QED
        BY <1>20, <3>2, <3>3, <3>4, <4>5, <4>6, <4>8, <4>9, <4>10 DEF InOrder
    <3>. QED
      BY <3>6, <3>7
  <2>. QED
    BY <2>2, <2>3
<1>19. BusOrder'
  BY <1>6, <1>18 DEF BusOrder, Subs, Behind, Subscribed
<1>. QED
  BY <1>14, <1>15, <1>17, <1>19

(***************************************************************************)
(* A handler that ends lets its publish call the handlers it has left, all *)
(* behind one that suspends.                                               *)
(***************************************************************************)
LEMMA HandlerEndsStep ==
  ASSUME BusIInv, NEW w \in publishing, Bus!HandlerEnds(w)
  PROVE  BusIInv'
<1>. USE DEF BusIInv
<1>1. PICK p : p = w.event
  OBVIOUS
<1>2. PICK rest : rest = w.rest
  OBVIOUS
<1>3. /\ Bus!Calls(p, rest)
      /\ UNCHANGED <<busStreams, streamsMade, listeners, suspends, shownTokens, spawned, audience>>
  BY <1>1, <1>2 DEF Bus!HandlerEnds, Bus!table
<1>4. /\ rest \in Seq(Nat) /\ Increasing(rest)
      /\ \A i \in 1..Len(rest) : rest[i] \in Subs /\ Behind(rest[i])
      /\ \A v \in publishing : v.event = p => v = w
  BY <1>1, <1>2 DEF Waiting
<1>5. PICK a \in audience : a.event = p /\ \A i \in 1..Len(rest) : Addressed(rest[i], a)
  BY <1>1, <1>2 DEF Waiting
<1>6. p \in Nat /\ (\A b \in audience : b.event = p => b = a)
  BY <1>5 DEF BusEvents
<1>7. \A s : Owed(s, p) <=> \E i \in 1..Len(rest) : rest[i] = s
  BY <1>1, <1>2, <1>4 DEF Owed
<1>8. \A s \in Subs : Addressed(s, a) =>
        IF \E i \in 1..Len(rest) : rest[i] = s THEN ~Heard(s, p) ELSE HeardOnce(s, p)
  BY <1>5, <1>7 DEF BusHearing, Hears
<1>9. audience' = audience \cup {a} /\ UNCHANGED <<listeners, suspends>>
  BY <1>3, <1>5
<1>10. /\ Waiting' /\ BusHearing'
       /\ \A s \in Subs : /\ \/ hearing'[s] = hearing[s]
                             \/ /\ \E i \in 1..Len(rest) : rest[i] = s
                                /\ hearing'[s] = Append(hearing[s], p)
                          /\ ~Behind(s) /\ (\E i \in 1..Len(rest) : rest[i] = s)
                               => hearing'[s] = Append(hearing[s], p)
  <2>1. \A i \in 1..Len(rest) : rest[i] \in Subs /\ Addressed(rest[i], a)
    BY <1>4, <1>5
  <2>2. \A i, j \in 1..Len(rest) : i < j /\ suspends[rest[i]] => Behind(rest[j])
    BY <1>4
  <2>. QED
    BY <1>3, <1>4, <1>5, <1>6, <1>8, <1>9, <2>1, <2>2, CallsHear
<1>11. BusTables' /\ BusEvents'
  BY <1>3 DEF BusTables, BusEvents, Begun, Subs, Subscribed
<1>12. ASSUME NEW s \in Subs, ~Behind(s), hearing'[s] # <<>>
       PROVE  InOrder(s)'
  <2>1. hearing'[s] = hearing[s]
    BY <1>4, <1>10, <1>12
  <2>2. InOrder(s)
    BY <1>12, <2>1 DEF BusOrder
  <2>3. \A t \in Bus!Topics : busStreams'[t] = busStreams[t] /\ (Hearing(s, t)' <=> Hearing(s, t))
    BY <1>3 DEF Hearing, Subscribed
  <2>4. UNCHANGED <<shownTokens, audience>>
    BY <1>3
  <2>. QED
    BY <2>1, <2>2, <2>3, <2>4, SameOrder
<1>13. BusOrder'
  BY <1>3, <1>12 DEF BusOrder, Subs, Behind, Subscribed
<1>. QED
  BY <1>10, <1>11, <1>13

(***************************************************************************)
(* The tables, the events and who has heard them stay that way.            *)
(***************************************************************************)
LEMMA BusStep ==
  ASSUME BusIInv, [Bus!Next]_busVars
  PROVE  BusIInv'
<1>1. CASE UNCHANGED <<busStreams, streamsMade, listeners, suspends, shownTokens, spawned,
                       publishing, audience, hearing>>
  BY <1>1 DEF BusIInv, BusTables, BusEvents, Waiting, BusHearing, BusOrder, InOrder, Hearing,
              Increasing, Begun, Hears, Heard, HeardOnce, Owed, Addressed, Subs, Behind, Subscribed
<1>2. CASE Bus!Next
  <2>1. CASE \E topic \in Bus!Topics : \E slow \in BOOLEAN : Bus!Subscribe(topic, slow)
    BY <2>1, SubscribeStep
  <2>2. CASE \E topic \in Bus!Topics : Bus!remove(topic)
    BY <2>2, RemoveStep
  <2>3. CASE \E type \in Bus!Topics \cup {"node_start"} : Bus!GraphEvent(type)
    BY <2>3, GraphEventStep
  <2>4. CASE Bus!ContextGone
    BY <1>1, <2>4 DEF Bus!ContextGone, Bus!table
  <2>5. CASE Bus!Begins
    BY <2>5, BeginsStep
  <2>6. CASE \E w \in publishing : Bus!HandlerEnds(w)
    BY <2>6, HandlerEndsStep
  <2>. QED
    BY <1>2, <2>1, <2>2, <2>3, <2>4, <2>5, <2>6 DEF Bus!Next
<1>. QED
  BY <1>1, <1>2 DEF busVars

(***************************************************************************)
(* What the invariant says of a handler none before it suspends.           *)
(***************************************************************************)
LEMMA InOrderOfTheGraph ==
  ASSUME BusIInv
  PROVE  Bus!TokensInOrder
<1>. USE DEF BusIInv
<1>1. ASSUME NEW s \in DOMAIN hearing, Bus!Direct(s), hearing[s] # <<>>
      PROVE  LET first == Head(hearing[s])
             IN  /\ \A i, j \in DOMAIN hearing[s] : i < j => hearing[s][i] < hearing[s][j]
                 /\ Bus!Range(hearing[s]) =
                      {n \in first..Bus!Last(hearing[s]) :
                         shownTokens[n].type = shownTokens[first].type /\ shownTokens[n].bus}
  <2>1. s \in Subs /\ hearing[s] \in Seq(Nat)
    BY <1>1 DEF BusHearing, Subs
  <2>2. ~Behind(s)
    <3>. SUFFICES ASSUME NEW k \in 1..MaxStreams, Subscribed(s, k),
                         NEW i \in 1..Len(listeners[k]),
                         suspends[listeners[k][i]], listeners[k][i] < s
                  PROVE  FALSE
      BY DEF Behind
    <3>1. /\ k \in DOMAIN listeners /\ listeners[k] \in Seq(Nat)
          /\ DOMAIN listeners[k] = 1..Len(listeners[k]) /\ listeners[k][i] \in Subs
      <4>1. /\ listeners \in [1..MaxStreams -> Seq(Nat)]
            /\ \A j \in 1..Len(listeners[k]) : listeners[k][j] \in Subs
        BY DEF BusTables
      <4>2. k \in DOMAIN listeners /\ listeners[k] \in Seq(Nat)
        BY <4>1
      <4>. QED
        BY <4>1, <4>2
    <3>2. Bus!Contains(listeners[k], s)
      BY <3>1 DEF Bus!Contains, Subscribed
    <3>3. listeners[k][i] >= s
      BY <1>1, <3>1, <3>2 DEF Bus!Direct
    <3>. QED
      BY <2>1, <3>1, <3>3 DEF Subs
  <2>3. InOrder(s)
    BY <1>1, <2>1, <2>2 DEF BusOrder
  <2>4. PICK q : q = hearing[s]
    OBVIOUS
  <2>5. /\ q \in Seq(Nat) /\ q # <<>> /\ DOMAIN q = 1..Len(q) /\ Len(q) \in Nat \ {0}
        /\ Head(q) = q[1] /\ Bus!Last(q) = q[Len(q)]
    BY <1>1, <2>1, <2>4 DEF Bus!Last
  <2>6. PICK first : first = q[1]
    OBVIOUS
  <2>7. PICK last : last = q[Len(q)]
    OBVIOUS
  <2>8. /\ Increasing(q)
        /\ \A i \in 1..Len(q) : shownTokens[q[i]].type = shownTokens[first].type
        /\ \A n \in first..last :
             shownTokens[n].bus /\ shownTokens[n].type = shownTokens[first].type => In(q, n)
    BY <2>3, <2>4, <2>6, <2>7 DEF InOrder, Heard
  <2>9. \A i \in 1..Len(q) : q[i] \in first..last
    <3>. DEFINE m == Len(q)
    <3>0. m \in Nat
      BY <2>5
    <3>. HIDE DEF m
    <3>1. \A i \in 1..m : i = 1 \/ 1 < i
      BY <3>0
    <3>2. \A i \in 1..m : i = m \/ i < m
      BY <3>0
    <3>3. 1 \in 1..Len(q) /\ Len(q) \in 1..Len(q) /\ \A i \in 1..Len(q) : q[i] \in Nat
      BY <2>5
    <3>4. ASSUME NEW i \in 1..Len(q) PROVE first <= q[i] /\ q[i] <= last
      <4>1. first = q[i] \/ first < q[i]
        BY <2>6, <2>8, <3>1, <3>3 DEF Increasing, m
      <4>2. last = q[i] \/ q[i] < last
        BY <2>7, <2>8, <3>2, <3>3 DEF Increasing, m
      <4>3. q[1] \in Nat /\ q[Len(q)] \in Nat /\ q[i] \in Nat
        <5>. HIDE DEF m
        <5>1. \A j \in 1..Len(q) : q[j] \in Nat
          BY <3>3
        <5>2. 1 \in 1..Len(q) /\ Len(q) \in 1..Len(q)
          BY <3>3
        <5>. QED
          BY <5>1, <5>2, Zenon
      <4>. QED
        BY <2>6, <2>7, <4>1, <4>2, <4>3
    <3>. QED
      BY <2>6, <2>7, <3>3, <3>4
  <2>10. \A i \in 1..Len(q) : shownTokens[q[i]].bus
    BY <2>1, <2>4 DEF BusHearing, Begun, BusEvents
  <2>11. Bus!Range(q) = {n \in first..last :
                           shownTokens[n].type = shownTokens[first].type /\ shownTokens[n].bus}
    <3>1. \A n : n \in Bus!Range(q) <=> In(q, n)
      BY <2>5 DEF Bus!Range, In
    <3>2. \A n : In(q, n) <=> n \in first..last /\ shownTokens[n].type = shownTokens[first].type
                                /\ shownTokens[n].bus
      BY <2>8, <2>9, <2>10 DEF In
    <3>. QED
      BY <3>1, <3>2
  <2>. QED
    BY <2>4, <2>5, <2>6, <2>7, <2>8, <2>11 DEF Increasing
<1>. QED
  BY <1>1 DEF Bus!TokensInOrder

(***************************************************************************)
(* What it says of the publishes that are over.                            *)
(***************************************************************************)
LEMMA HeardByEveryone ==
  ASSUME BusIInv
  PROVE  Bus!EveryoneHears
<1>. USE DEF BusIInv
<1>1. ASSUME NEW n \in DOMAIN shownTokens, shownTokens[n].bus
      PROVE  Bus!Contains(spawned, n) \/ \E a \in audience : a.event = n
  <2>1. n \in 1..Len(shownTokens) /\ spawned \in Seq(1..Len(shownTokens))
    BY DEF BusEvents
  <2>2. Begun(n) \/ \E i \in 1..Len(spawned) : spawned[i] = n
    BY <1>1, <2>1 DEF BusEvents
  <2>. QED
    BY <2>1, <2>2 DEF Begun, Bus!Contains
<1>2. ASSUME NEW a \in audience, \A w \in publishing : w.event # a.event, NEW s \in Bus!Range(a.to)
      PROVE  Bus!Cardinality({i \in DOMAIN hearing[s] : hearing[s][i] = a.event}) = 1
  <2>1. a.to \in Seq(Nat) /\ \A i \in 1..Len(a.to) : a.to[i] \in Subs
    BY DEF BusEvents
  <2>2. PICK i \in 1..Len(a.to) : a.to[i] = s
    BY <2>1 DEF Bus!Range
  <2>3. s \in Subs /\ Addressed(s, a) /\ ~Owed(s, a.event)
    BY <1>2, <2>1, <2>2 DEF Addressed, Owed
  <2>4. HeardOnce(s, a.event)
    BY <2>3 DEF BusHearing, Hears
  <2>5. hearing[s] \in Seq(Nat)
    BY <2>3 DEF BusHearing, Subs
  <2>6. PICK j \in DOMAIN hearing[s] :
          /\ hearing[s][j] = a.event
          /\ \A l \in DOMAIN hearing[s] : hearing[s][l] = a.event => l = j
    <3>1. DOMAIN hearing[s] = 1..Len(hearing[s])
      BY <2>5
    <3>. QED
      BY <2>4, <3>1 DEF HeardOnce, Once
  <2>7. {l \in DOMAIN hearing[s] : hearing[s][l] = a.event} = {j}
    BY <2>6
  <2>8. Bus!Cardinality({j}) = 1
    BY FS_Singleton DEF Bus!Cardinality, Cardinality
  <2>. QED
    BY <2>7, <2>8
<1>. QED
  BY <1>1, <1>2 DEF Bus!EveryoneHears

(***************************************************************************)
(* A command's whole output is in its answer; a request is sent on with    *)
(* the body of its method and to the place it was redirected to; what the  *)
(* graph puts on the bus is heard by everyone subscribed, once, and in     *)
(* order unless a handler before suspends (execute_command.h,              *)
(* http_client.h, event_stream.h).                                         *)
(***************************************************************************)
THEOREM OutcomesCorrect == WorkersSpec => Outcomes
<1>. DEFINE CommandInv == job = "commands" => CommandIInv
            RequestInv == job = "requests" => RequestIInv
            BusInv == job = "bus" => BusIInv
<1>1. WorkersInit => CommandInv /\ RequestInv /\ BusInv
  BY CommandInit, RequestInit, BusInit DEF WorkersInit
<1>2. CommandInv /\ RequestInv /\ BusInv /\ [WorkersNext]_workersVars
        => (CommandInv /\ RequestInv /\ BusInv)'
  <2>1. CommandInv /\ [WorkersNext]_workersVars => CommandInv'
    BY WorkersStep, CommandStep
  <2>2. RequestInv /\ [WorkersNext]_workersVars => RequestInv'
    BY WorkersStep, RequestStep
  <2>3. BusInv /\ [WorkersNext]_workersVars => BusInv'
    BY WorkersStep, BusStep
  <2>. QED
    BY <2>1, <2>2, <2>3
<1>3. CommandInv => (job = "commands" => Commands!WholeOutput)
  BY DEF CommandIInv, Commands!WholeOutput
<1>4. RequestInv => (job = "requests" => Requests!BodyWithItsMethod)
  <2>. SUFFICES ASSUME RequestIInv
                PROVE  Requests!BodyWithItsMethod
    OBVIOUS
  <2>1. requestsMade <= FollowRedirect + 1
    BY WorkersAssumption DEF RequestIInv
  <2>. QED
    BY <2>1 DEF RequestIInv, Requests!BodyWithItsMethod
<1>5. BusInv => (job = "bus" => Bus!TokensInOrder /\ Bus!EveryoneHears)
  BY InOrderOfTheGraph, HeardByEveryone
<1>6. RequestInv /\ [WorkersNext]_workersVars =>
        [redirects' > redirects /\ url.query = "none" /\ httpReply.location.to.query = "none" =>
           /\ url'.dir = IF httpReply.location.kind = "relative"
                         THEN url.dir ELSE httpReply.location.to.dir
           /\ url'.host = IF httpReply.location.kind \in {"absolute", "protocol"}
                          THEN httpReply.location.to.host ELSE url.host
           /\ url'.scheme = IF httpReply.location.kind = "absolute"
                            THEN httpReply.location.to.scheme ELSE url.scheme]_Requests!vars
  <2>. SUFFICES ASSUME RequestInv, [WorkersNext]_workersVars, ~ UNCHANGED Requests!vars
                PROVE  redirects' > redirects /\ url.query = "none"
                         /\ httpReply.location.to.query = "none" =>
                         /\ url'.dir = IF httpReply.location.kind = "relative"
                                       THEN url.dir ELSE httpReply.location.to.dir
                         /\ url'.host = IF httpReply.location.kind \in {"absolute", "protocol"}
                                        THEN httpReply.location.to.host ELSE url.host
                         /\ url'.scheme = IF httpReply.location.kind = "absolute"
                                          THEN httpReply.location.to.scheme ELSE url.scheme
    OBVIOUS
  <2>1. ~ UNCHANGED httpVars
    BY DEF httpVars, Requests!vars, Requests!roundVars
  <2>2. RequestIInv /\ [Requests!Next]_httpVars
    BY <2>1, WorkersStep
  <2>. QED
    BY <2>2, RequestStep
<1>. QED
  BY <1>1, <1>2, <1>3, <1>4, <1>5, <1>6, PTL DEF WorkersSpec, Outcomes, Requests!RedirectTarget

-----------------------------------------------------------------------------
(* The monitor of selected text and the code graph.                        *)

(***************************************************************************)
(* Between the two joins of a stop, and after it, no thread of the monitor *)
(* is left that would start a reader; while it runs it is not stopped.     *)
(***************************************************************************)
MonitorIInv ==
  /\ monitorOwner \in {"joinWorker", "joinReader"} => ~monitoring
  /\ monitorOwner = "joinReader" => hookThread = "none"
  /\ monitorStopped => /\ ~monitoring /\ hookThread = "none"
                       /\ reader \in {"none", "ended"}

(***************************************************************************)
(* A new monitor has no thread.                                            *)
(***************************************************************************)
LEMMA MonitorInit == Monitor!Init => MonitorIInv
BY DEF Monitor!Init, MonitorIInv

(***************************************************************************)
(* Neither the owner nor a hook, a reader or an event of UI Automation     *)
(* brings a thread back that was joined.                                   *)
(***************************************************************************)
LEMMA MonitorStep == MonitorIInv /\ [Monitor!Next]_monitorVars => MonitorIInv'
<1>. SUFFICES ASSUME MonitorIInv, [Monitor!Next]_monitorVars PROVE MonitorIInv'
  OBVIOUS
<1>. USE DEF MonitorIInv, Monitor!selectionVars, Monitor!readerVars, Monitor!uiaVars,
             Monitor!ownerVars
<1>1. CASE Monitor!Start
  BY <1>1 DEF Monitor!Start
<1>2. CASE Monitor!Stop \/ Monitor!Destroy
  BY <1>2 DEF Monitor!Stop, Monitor!Destroy
<1>3. CASE Monitor!OwnerSteps
  BY <1>3 DEF Monitor!OwnerSteps, Monitor!JoinsWorker, Monitor!JoinsReader
<1>4. CASE Monitor!WorkerSteps
  BY <1>4 DEF Monitor!WorkerSteps, Monitor!WorkerBegins, Monitor!WorkerEnds, Monitor!Process,
              Monitor!NextReader
<1>5. CASE Monitor!ReaderSteps
  BY <1>5 DEF Monitor!ReaderSteps, Monitor!Reads, Monitor!HasText, Monitor!Notifies
<1>6. CASE Monitor!EventSteps
  BY <1>6 DEF Monitor!EventSteps, Monitor!EventStored, Monitor!EventFlagged
<1>7. CASE Monitor!PortForgotten
  BY <1>7 DEF Monitor!PortForgotten
<1>8. ASSUME NEW w \in Windows, Monitor!Selected(w) \/ Monitor!EventArrives(w) PROVE MonitorIInv'
  BY <1>8 DEF Monitor!Selected, Monitor!EventArrives
<1>9. CASE UNCHANGED monitorVars
  BY <1>9 DEF monitorVars
<1>. QED
  BY <1>1, <1>2, <1>3, <1>4, <1>5, <1>6, <1>7, <1>8, <1>9 DEF Monitor!Next

(***************************************************************************)
(* The watcher's thread exists only with a database, while running_ is set *)
(* or a shutdown joins it; and no call of the API meets a shutdown.        *)
(***************************************************************************)
GraphIInv ==
  /\ indexer # "none" => database # "none" /\ (indexing \/ owner = "joining")
  /\ caller # "idle" => database # "none" /\ owner # "joining"

(***************************************************************************)
(* A new code graph has neither thread nor database.                       *)
(***************************************************************************)
LEMMA GraphInit == Graph!Init => GraphIInv
BY DEF Graph!Init, GraphIInv

(***************************************************************************)
(* A shutdown closes the database when nobody indexes, if it comes from    *)
(* the owner's thread; no other step closes it or brings an indexer back.  *)
(***************************************************************************)
LEMMA GraphStep == ~TwoThreads /\ GraphIInv /\ [Graph!Next]_graphVars => GraphIInv'
<1>. SUFFICES ASSUME ~TwoThreads, GraphIInv, [Graph!Next]_graphVars PROVE GraphIInv'
  OBVIOUS
<1>. USE DEF GraphIInv, Graph!dataVars, Graph!threadVars, Graph!callVars
<1>1. ASSUME NEW f \in Graph!Files, Graph!Edit(f) PROVE GraphIInv'
  BY <1>1 DEF Graph!Edit
<1>2. CASE Graph!Shutdown
  BY <1>2 DEF Graph!Shutdown
<1>3. CASE Graph!Initialize
  BY <1>3 DEF Graph!Initialize
<1>4. CASE Graph!StartFileWatcher \/ Graph!StopFileWatcher
  BY <1>4 DEF Graph!StartFileWatcher, Graph!StopFileWatcher
<1>5. CASE Graph!IndexDirectory
  BY <1>5 DEF Graph!IndexDirectory
<1>6. CASE Graph!OwnerSteps
  BY <1>6 DEF Graph!OwnerSteps, Graph!ShutdownEnds
<1>7. CASE Graph!CallerSteps
  <2>1. UNCHANGED <<indexer, database, indexing, owner>>
    BY <1>7 DEF Graph!CallerSteps, Graph!Skips, Graph!Reads, Graph!Writes, Graph!IndexEnds
  <2>2. caller' # "idle" => caller # "idle"
    BY <1>7 DEF Graph!CallerSteps, Graph!Skips, Graph!Reads, Graph!Writes, Graph!IndexEnds
  <2>. QED
    BY <2>1, <2>2
<1>8. CASE Graph!WorkerSteps
  <2>1. UNCHANGED <<caller, database, indexing, owner>>
    BY <1>8 DEF Graph!WorkerSteps, Graph!EventArrives, Graph!IndexFileBegins,
                Graph!IndexFileEnds, Graph!WorkerEnds
  <2>2. indexer # "none"
    BY <1>8 DEF Graph!WorkerSteps, Graph!EventArrives, Graph!IndexFileBegins,
                Graph!IndexFileEnds, Graph!WorkerEnds
  <2>. QED
    BY <2>1, <2>2
<1>9. CASE UNCHANGED graphVars
  BY <1>9 DEF graphVars
<1>. QED
  BY <1>1, <1>2, <1>3, <1>4, <1>5, <1>6, <1>7, <1>8, <1>9 DEF Graph!Next

(***************************************************************************)
(* When a stop of the monitor has returned, no listener is called; and as  *)
(* long as shutdown is called from the owner's thread, it closes no        *)
(* database into which somebody indexes.                                   *)
(***************************************************************************)
THEOREM QuietAfterStopCorrect == ~TwoThreads => (WorkersSpec => []QuietAfterStop)
<1>. DEFINE Inv == /\ job = "monitor" => MonitorIInv
                   /\ job = "graph" => GraphIInv
<1>. SUFFICES ASSUME ~TwoThreads PROVE WorkersSpec => []QuietAfterStop
  OBVIOUS
<1>1. WorkersInit => Inv
  BY MonitorInit, GraphInit DEF WorkersInit
<1>2. Inv /\ [WorkersNext]_workersVars => Inv'
  <2>. SUFFICES ASSUME Inv, [WorkersNext]_workersVars PROVE Inv'
    OBVIOUS
  <2>1. job = "monitor" => MonitorIInv'
    BY WorkersStep, MonitorStep
  <2>2. job = "graph" => GraphIInv'
    BY WorkersStep, GraphStep
  <2>. QED
    BY <2>1, <2>2, WorkersStep
<1>3. Inv => QuietAfterStop
  BY DEF QuietAfterStop, MonitorIInv, GraphIInv, Monitor!QuietAfterStop,
         Graph!DatabaseOutlivesIndexing
<1>. QED
  BY <1>1, <1>2, <1>3, PTL DEF WorkersSpec

-----------------------------------------------------------------------------
(* The agent's ACP server.                                                 *)

(***************************************************************************)
(* What a prompt has come to: before it arrives it has neither worker nor  *)
(* answer, afterwards it has an answer or a worker that will give one; and *)
(* once run has returned to its caller there is no worker to come.         *)
(***************************************************************************)
AgentTypes ==
  /\ session \in [Agent!Prompts -> Sessions \cup {None}]
  /\ agentWorker \in [Agent!Prompts -> Agent!Counted \cup {"none", "notify", "gone"}]
  /\ agentAnswer \in [Agent!Prompts -> {"none", "refused", "end_turn", "cancelled"}]
  /\ flag \in [Sessions -> {"absent", "clear", "set"}]
  /\ cancels \in [Sessions -> Nat]
  /\ agentStop \in BOOLEAN

PromptsPlaced ==
  /\ \A p \in Agent!Prompts :
       IF session[p] = None THEN agentWorker[p] = "none" /\ agentAnswer[p] = "none"
       ELSE agentAnswer[p] # "none" \/ agentWorker[p] \in {"running", "ran", "cancelled"}
  /\ agentTransport = "stdio" /\ agentReader = "returned" =>
       \A p \in Agent!Prompts : agentWorker[p] \notin Agent!Counted

AgentIInv ==
  AgentTypes /\ PromptsPlaced /\ Agent!WorkersAccounted /\ Agent!CancelsSpent

(***************************************************************************)
(* The workers that are counted, and the prompts a cancel was spent on.    *)
(***************************************************************************)
AgentCounted == {p \in Agent!Prompts : agentWorker[p] \in Agent!Counted}
Spent(s) ==
  {p \in Agent!Prompts :
     session[p] = s /\ (agentAnswer[p] = "cancelled" \/ agentWorker[p] = "cancelled")}

(***************************************************************************)
(* The server counts as everyone does, and it counts prompts.              *)
(***************************************************************************)
LEMMA AgentCounts ==
  /\ \A S : Agent!Cardinality(S) = Cardinality(S)
  /\ IsFiniteSet(Agent!Prompts)
  /\ \A S \in SUBSET Agent!Prompts : IsFiniteSet(S) /\ Cardinality(S) \in Nat
<1>1. ASSUME NEW S PROVE Agent!Cardinality(S) = Cardinality(S)
  BY DEF Agent!Cardinality, Cardinality
<1>2. IsFiniteSet(Agent!Prompts)
  BY PeersAssumption, FS_Interval DEF Agent!Prompts
<1>3. ASSUME NEW S \in SUBSET Agent!Prompts PROVE IsFiniteSet(S) /\ Cardinality(S) \in Nat
  BY <1>2, FS_Subset, FS_CardinalityType
<1>. QED
  BY <1>1, <1>2, <1>3

(***************************************************************************)
(* A new server has no prompt.                                             *)
(***************************************************************************)
LEMMA AgentInit == Agent!Init => AgentIInv
<1>. SUFFICES ASSUME Agent!Init PROVE AgentIInv
  OBVIOUS
<1>1. AgentTypes /\ PromptsPlaced
  BY DEF Agent!Init, AgentTypes, PromptsPlaced, Agent!Counted, Agent!Unreleased
<1>2. AgentCounted = {} /\ \A s \in Sessions : Spent(s) = {}
  BY PeersAssumption DEF Agent!Init, AgentCounted, Spent, Agent!Counted, Agent!Unreleased
<1>3. Agent!WorkersAccounted
  BY <1>2, AgentCounts, FS_EmptySet
  DEF Agent!Init, Agent!WorkersAccounted, AgentCounted, Agent!Unreleased
<1>4. Agent!CancelsSpent
  <2>1. \A s \in Sessions : Agent!Cardinality(Spent(s)) = 0
    BY <1>2, AgentCounts, FS_EmptySet
  <2>. QED
    BY <2>1 DEF Agent!Init, Agent!CancelsSpent, Spent
<1>. QED
  BY <1>1, <1>3, <1>4 DEF AgentIInv

(***************************************************************************)
(* A prompt keeps its place: what is started, answered or over stays so,   *)
(* and a worker is started only while the reader reads.                    *)
(***************************************************************************)
LEMMA AgentPlaces ==
  ASSUME AgentIInv, [Agent!Next]_agentVars
  PROVE  AgentTypes' /\ PromptsPlaced'
<1>. USE DEF AgentTypes, PromptsPlaced, Agent!Counted, Agent!Unreleased,
             Agent!readerVars, Agent!workerVars, Agent!flagVars, Agent!outVars
<1>. AgentTypes /\ PromptsPlaced
  BY DEF AgentIInv
<1>1. ASSUME NEW p \in Agent!Prompts, NEW s \in Sessions, Agent!SessionPrompt(p, s)
      PROVE  AgentTypes' /\ PromptsPlaced'
  <2>1. /\ session[p] = None /\ agentReader = "reading" /\ session' = [session EXCEPT ![p] = s]
        /\ agentReader' \in {"register", "drain", "reading"} /\ UNCHANGED <<cancels, agentStop>>
    BY <1>1 DEF Agent!SessionPrompt, Agent!NextMessage
  <2>2. flag' \in [Sessions -> {"absent", "clear", "set"}]
    BY <1>1 DEF Agent!SessionPrompt, Agent!Refuse, Agent!Admit
  <2>3. \/ agentAnswer' = [agentAnswer EXCEPT ![p] = "refused"] /\ agentWorker' = agentWorker
        \/ agentAnswer' = agentAnswer /\ agentWorker' = [agentWorker EXCEPT ![p] = "running"]
    BY <1>1 DEF Agent!SessionPrompt, Agent!Refuse, Agent!Admit, Agent!Emit, Agent!NotCounted
  <2>. QED
    BY <2>1, <2>2, <2>3, PeersAssumption
<1>2. ASSUME NEW s \in Sessions, Agent!SessionNew(s) \/ Agent!SessionCancel(s)
      PROVE  AgentTypes' /\ PromptsPlaced'
  <2>1. /\ agentReader' \in {"drain", "reading"}
        /\ UNCHANGED <<session, agentWorker, agentAnswer, agentStop>>
    BY <1>2 DEF Agent!SessionNew, Agent!SessionCancel, Agent!NextMessage
  <2>2. flag' \in [Sessions -> {"absent", "clear", "set"}] /\ cancels' \in [Sessions -> Nat]
    BY <1>2 DEF Agent!SessionNew, Agent!SessionCancel
  <2>. QED
    BY <2>1, <2>2
<1>3. CASE Agent!Stop
  BY <1>3 DEF Agent!Stop
<1>4. CASE Agent!InputEnds \/ Agent!Register \/ Agent!WaitEnds
  BY <1>4 DEF Agent!InputEnds, Agent!Register, Agent!WaitEnds
<1>5. CASE Agent!Drain
  <2>1. agentReader' = "returned" => AgentCounted = {}
    <3>1. ASSUME agentReader' = "returned" PROVE Cardinality(AgentCounted) = 0
      BY <1>5, <3>1, AgentCounts
      DEF Agent!Drain, Agent!NobodyLeft, AgentIInv, Agent!WorkersAccounted, AgentCounted
    <3>2. AgentCounted \in SUBSET Agent!Prompts
      BY DEF AgentCounted
    <3>. QED
      BY <3>1, <3>2, AgentCounts, FS_EmptySet
  <2>2. /\ UNCHANGED <<agentTransport, session, agentWorker, agentAnswer, flag, cancels, agentStop>>
    BY <1>5 DEF Agent!Drain
  <2>. QED
    BY <2>1, <2>2 DEF AgentCounted
<1>6. ASSUME NEW p \in Agent!Prompts, Agent!Worker(p) PROVE AgentTypes' /\ PromptsPlaced'
  <2>1. CASE Agent!RunReturns(p) \/ Agent!RunFails(p)
    <3>1. /\ agentWorker[p] = "running" /\ UNCHANGED <<agentTransport, agentReader, session,
                                                       agentAnswer, cancels, agentStop>>
          /\ \E w \in {"ran", "cancelled"} : agentWorker' = [agentWorker EXCEPT ![p] = w]
      BY <2>1 DEF Agent!RunReturns, Agent!RunFails
    <3>2. flag' \in [Sessions -> {"absent", "clear", "set"}]
      BY <2>1 DEF Agent!RunReturns, Agent!RunFails, Agent!FlagTaken
    <3>. QED
      BY <3>1, <3>2
  <2>2. CASE Agent!WorkerEmits(p)
    <3>1. /\ agentWorker[p] \in {"ran", "cancelled"}
          /\ agentWorker' = [agentWorker EXCEPT ![p] = "answered"]
          /\ \E what \in {"end_turn", "cancelled"} : agentAnswer' = [agentAnswer EXCEPT ![p] = what]
          /\ UNCHANGED <<agentTransport, agentReader, session, flag, cancels, agentStop>>
      BY <2>2 DEF Agent!WorkerEmits, Agent!Emit
    <3>. QED
      BY <3>1
  <2>3. CASE Agent!WorkerReleases(p) \/ Agent!WorkerUncounts(p)
    <3>1. /\ agentWorker[p] \in {"answered", "released"}
          /\ \E w \in {"released", "notify", "gone"} :
               /\ agentWorker' = [agentWorker EXCEPT ![p] = w]
               /\ agentWorker[p] = "answered" => w = "released"
          /\ UNCHANGED <<agentTransport, agentReader, session, agentAnswer, flag, cancels, agentStop>>
      BY <2>3 DEF Agent!WorkerReleases, Agent!WorkerUncounts
    <3>. QED
      BY <3>1
  <2>4. CASE Agent!WorkerNotifies(p)
    <3>1. /\ agentWorker[p] = "notify"
          /\ agentWorker' = [agentWorker EXCEPT ![p] = "gone"]
          /\ agentReader' = "returned" => agentReader = "returned"
          /\ UNCHANGED <<agentTransport, session, agentAnswer, flag, cancels, agentStop>>
      BY <2>4 DEF Agent!WorkerNotifies
    <3>. QED
      BY <3>1
  <2>. QED
    BY <1>6, <2>1, <2>2, <2>3, <2>4 DEF Agent!Worker
<1>7. CASE UNCHANGED agentVars
  BY <1>7 DEF agentVars
<1>. QED
  BY <1>1, <1>2, <1>3, <1>4, <1>5, <1>6, <1>7 DEF Agent!Next, Agent!Reader

(***************************************************************************)
(* The count and the sessions in flight stay those of the workers.         *)
(***************************************************************************)
LEMMA AgentAccounts ==
  ASSUME AgentIInv, [Agent!Next]_agentVars
  PROVE  Agent!WorkersAccounted'
<1>. USE DEF AgentTypes, Agent!readerVars, Agent!workerVars, Agent!flagVars, Agent!outVars
<1>. AgentTypes /\ PromptsPlaced /\ Agent!WorkersAccounted
  BY DEF AgentIInv
<1>0. IsFiniteSet(AgentCounted) /\ Cardinality(AgentCounted) \in Nat
      /\ agentCount = Cardinality(AgentCounted)
  BY AgentCounts DEF AgentCounted, Agent!WorkersAccounted
<1>1. ASSUME UNCHANGED <<session, agentWorker, inflight, agentCount>>
      PROVE  Agent!WorkersAccounted'
  BY <1>1 DEF Agent!WorkersAccounted
<1>2. ASSUME NEW p \in Agent!Prompts, NEW w, agentWorker' = [agentWorker EXCEPT ![p] = w],
             \/ agentWorker[p] \in Agent!Unreleased /\ w \in Agent!Unreleased
             \/ agentWorker[p] = "notify" /\ w = "gone",
             UNCHANGED <<session, inflight, agentCount>>
      PROVE  Agent!WorkersAccounted'
  <2>1. \A q \in Agent!Prompts : /\ agentWorker'[q] \in Agent!Counted <=> agentWorker[q] \in Agent!Counted
                                 /\ agentWorker'[q] \in Agent!Unreleased <=> agentWorker[q] \in Agent!Unreleased
    BY <1>2 DEF Agent!Counted, Agent!Unreleased
  <2>. QED
    BY <1>2, <2>1 DEF Agent!WorkersAccounted
<1>3. ASSUME NEW p \in Agent!Prompts, NEW s \in Sessions, Agent!SessionPrompt(p, s)
      PROVE  Agent!WorkersAccounted'
  <2>1. session[p] = None /\ session' = [session EXCEPT ![p] = s] /\ agentWorker[p] = "none"
    BY <1>3 DEF Agent!SessionPrompt, PromptsPlaced
  <2>2. CASE UNCHANGED <<agentWorker, inflight, agentCount>>
    <3>1. \A q \in Agent!Prompts : agentWorker[q] \in Agent!Unreleased => session'[q] = session[q]
      BY <2>1 DEF Agent!Unreleased
    <3>. QED
      BY <2>2, <3>1 DEF Agent!WorkersAccounted
  <2>3. CASE Agent!Admit(p, s)
    <3>1. /\ s \notin inflight /\ inflight' = inflight \cup {s} /\ agentCount' = agentCount + 1
          /\ agentWorker' = [agentWorker EXCEPT ![p] = "running"]
      BY <2>3 DEF Agent!Admit
    <3>2. AgentCounted' = AgentCounted \cup {p} /\ p \notin AgentCounted
      BY <2>1, <3>1 DEF AgentCounted, Agent!Counted, Agent!Unreleased
    <3>3. agentCount' = Cardinality(AgentCounted')
      BY <1>0, <3>1, <3>2, FS_AddElement
    <3>4. \A q \in Agent!Prompts :
            agentWorker'[q] \in Agent!Unreleased <=> q = p \/ agentWorker[q] \in Agent!Unreleased
      BY <3>1 DEF Agent!Unreleased
    <3>5. \A q \in Agent!Prompts : session'[q] = IF q = p THEN s ELSE session[q]
      BY <2>1
    <3>6. agentWorker[p] \notin Agent!Unreleased
      BY <2>1 DEF Agent!Unreleased
    <3>7. \A q \in Agent!Prompts : agentWorker[q] \in Agent!Unreleased => session[q] # s
      BY <3>1 DEF Agent!WorkersAccounted
    <3>. QED
      BY <3>1, <3>3, <3>4, <3>5, <3>6, <3>7, AgentCounts DEF Agent!WorkersAccounted, AgentCounted
  <2>. QED
    BY <1>3, <2>2, <2>3 DEF Agent!SessionPrompt, Agent!Refuse, Agent!NotCounted
<1>4. ASSUME NEW p \in Agent!Prompts, Agent!WorkerReleases(p) PROVE Agent!WorkersAccounted'
  <2>1. /\ agentWorker[p] = "answered" /\ agentWorker' = [agentWorker EXCEPT ![p] = "released"]
        /\ inflight' = inflight \ {session[p]} /\ UNCHANGED <<agentCount, session>>
    BY <1>4 DEF Agent!WorkerReleases
  <2>2. AgentCounted' = AgentCounted
    BY <2>1 DEF AgentCounted, Agent!Counted, Agent!Unreleased
  <2>3. \A q \in Agent!Prompts :
          agentWorker'[q] \in Agent!Unreleased <=> q # p /\ agentWorker[q] \in Agent!Unreleased
    BY <2>1 DEF Agent!Unreleased
  <2>4. agentWorker[p] \in Agent!Unreleased
    BY <2>1 DEF Agent!Unreleased
  <2>5. agentCount' = Agent!Cardinality(AgentCounted')
    BY <1>0, <2>1, <2>2, AgentCounts
  <2>6. inflight' = {session'[r] : r \in {q \in Agent!Prompts : agentWorker'[q] \in Agent!Unreleased}}
    <3>1. \A q \in Agent!Prompts :
            agentWorker[q] \in Agent!Unreleased /\ session[q] = session[p] => q = p
      BY <2>4 DEF Agent!WorkersAccounted
    <3>. QED
      BY <2>1, <2>3, <3>1 DEF Agent!WorkersAccounted
  <2>7. \A q, r \in Agent!Prompts :
          {agentWorker'[q], agentWorker'[r]} \subseteq Agent!Unreleased /\ session'[q] = session'[r]
            => q = r
    BY <2>1, <2>3 DEF Agent!WorkersAccounted
  <2>. QED
    BY <2>5, <2>6, <2>7 DEF Agent!WorkersAccounted, AgentCounted
<1>5. ASSUME NEW p \in Agent!Prompts, Agent!WorkerUncounts(p) PROVE Agent!WorkersAccounted'
  <2>1. /\ agentWorker[p] = "released" /\ agentCount' = agentCount - 1
        /\ \E w \in {"notify", "gone"} : agentWorker' = [agentWorker EXCEPT ![p] = w]
        /\ UNCHANGED <<inflight, session>>
    BY <1>5 DEF Agent!WorkerUncounts
  <2>2. AgentCounted' = AgentCounted \ {p} /\ p \in AgentCounted
    BY <2>1 DEF AgentCounted, Agent!Counted, Agent!Unreleased
  <2>3. agentCount' = Cardinality(AgentCounted')
    BY <1>0, <2>1, <2>2, FS_RemoveElement
  <2>4. \A q \in Agent!Prompts :
          agentWorker'[q] \in Agent!Unreleased <=> agentWorker[q] \in Agent!Unreleased
    BY <2>1 DEF Agent!Unreleased
  <2>. QED
    BY <2>1, <2>3, <2>4, AgentCounts DEF Agent!WorkersAccounted, AgentCounted
<1>6. ASSUME NEW p \in Agent!Prompts, Agent!Worker(p) PROVE Agent!WorkersAccounted'
  <2>1. CASE Agent!RunReturns(p) \/ Agent!RunFails(p) \/ Agent!WorkerEmits(p)
    BY <1>2, <2>1 DEF Agent!RunReturns, Agent!RunFails, Agent!WorkerEmits, Agent!Unreleased
  <2>2. CASE Agent!WorkerNotifies(p)
    BY <1>2, <2>2 DEF Agent!WorkerNotifies
  <2>. QED
    BY <1>4, <1>5, <1>6, <2>1, <2>2 DEF Agent!Worker
<1>7. CASE Agent!Stop \/ Agent!InputEnds \/ Agent!Reader
  BY <1>1, <1>7 DEF Agent!Stop, Agent!InputEnds, Agent!Reader, Agent!Register, Agent!WaitEnds,
                    Agent!Drain
<1>8. ASSUME NEW s \in Sessions, Agent!SessionNew(s) \/ Agent!SessionCancel(s)
      PROVE  Agent!WorkersAccounted'
  BY <1>1, <1>8 DEF Agent!SessionNew, Agent!SessionCancel
<1>9. CASE UNCHANGED agentVars
  BY <1>1, <1>9 DEF agentVars
<1>. QED
  BY <1>3, <1>6, <1>7, <1>8, <1>9 DEF Agent!Next

(***************************************************************************)
(* No step spends a cancel that was not sent: a flag is put up by a cancel *)
(* or a stop, and a prompt is cancelled when it takes its flag down.       *)
(***************************************************************************)
LEMMA AgentCancels ==
  ASSUME AgentIInv, [Agent!Next]_agentVars
  PROVE  Agent!CancelsSpent'
<1>. USE DEF AgentTypes, Agent!readerVars, Agent!workerVars, Agent!flagVars, Agent!outVars
<1>. AgentTypes /\ PromptsPlaced
  BY DEF AgentIInv
<1>. DEFINE Set(s) == IF flag[s] = "set" THEN 1 ELSE 0
            Stopped == IF agentStop THEN 1 ELSE 0
<1>0. \A s \in Sessions : /\ Cardinality(Spent(s)) \in Nat
                          /\ Cardinality(Spent(s)) + Set(s) <= cancels[s] + Stopped
  BY AgentCounts DEF AgentIInv, Agent!CancelsSpent, Spent
<1>1. ASSUME \A s \in Sessions : /\ Cardinality(Spent(s))' \in Nat
                                 /\ Cardinality(Spent(s))' + Set(s)' <= cancels'[s] + Stopped'
      PROVE  Agent!CancelsSpent'
  BY <1>1, AgentCounts DEF Agent!CancelsSpent, Spent
<1>2. \A s \in Sessions : IsFiniteSet(Spent(s)) /\ IsFiniteSet(Spent(s))'
                          /\ Cardinality(Spent(s))' \in Nat
  BY AgentCounts DEF Spent
<1>3. ASSUME \A s \in Sessions : /\ Spent(s)' \subseteq Spent(s)
                                 /\ flag'[s] = "set" => flag[s] = "set",
             UNCHANGED <<cancels, agentStop>>
      PROVE  Agent!CancelsSpent'
  <2>1. \A s \in Sessions : Cardinality(Spent(s))' <= Cardinality(Spent(s))
    BY <1>2, <1>3, FS_Subset
  <2>. QED
    BY <1>0, <1>1, <1>2, <1>3, <2>1
<1>4. ASSUME NEW p \in Agent!Prompts, NEW s \in Sessions, Agent!SessionPrompt(p, s)
      PROVE  Agent!CancelsSpent'
  <2>1. /\ session[p] = None /\ session' = [session EXCEPT ![p] = s] /\ agentWorker[p] = "none"
        /\ agentAnswer[p] = "none" /\ UNCHANGED <<cancels, agentStop>>
    BY <1>4 DEF Agent!SessionPrompt, PromptsPlaced
  <2>2. \/ agentAnswer' = [agentAnswer EXCEPT ![p] = "refused"] /\ agentWorker' = agentWorker
        \/ agentAnswer' = agentAnswer /\ agentWorker' = [agentWorker EXCEPT ![p] = "running"]
    BY <1>4 DEF Agent!SessionPrompt, Agent!Refuse, Agent!Admit, Agent!Emit, Agent!NotCounted
  <2>3. \A t \in Sessions : flag'[t] = "set" => flag[t] = "set"
    BY <1>4 DEF Agent!SessionPrompt, Agent!Refuse, Agent!Admit
  <2>4. \A t \in Sessions : Spent(t)' \subseteq Spent(t)
    BY <2>1, <2>2 DEF Spent
  <2>. QED
    BY <1>3, <2>1, <2>3, <2>4
<1>5. ASSUME NEW s \in Sessions, Agent!SessionNew(s) PROVE Agent!CancelsSpent'
  BY <1>3, <1>5 DEF Agent!SessionNew, Spent
<1>6. ASSUME NEW s \in Sessions, Agent!SessionCancel(s) PROVE Agent!CancelsSpent'
  <2>1. /\ cancels' = [cancels EXCEPT ![s] = @ + 1] /\ flag' = [flag EXCEPT ![s] = "set"]
        /\ UNCHANGED <<session, agentAnswer, agentWorker, agentStop>>
    BY <1>6 DEF Agent!SessionCancel
  <2>2. \A t \in Sessions : Spent(t)' = Spent(t)
    BY <2>1 DEF Spent
  <2>. QED
    BY <1>0, <1>1, <2>1, <2>2
<1>7. CASE Agent!Stop
  <2>1. \A t \in Sessions : Spent(t)' = Spent(t)
    BY <1>7 DEF Agent!Stop, Spent
  <2>2. ~agentStop /\ agentStop' /\ cancels' = cancels
    BY <1>7 DEF Agent!Stop
  <2>. QED
    BY <1>0, <1>1, <2>1, <2>2
<1>8. CASE Agent!InputEnds \/ Agent!Reader
  BY <1>3, <1>8 DEF Agent!InputEnds, Agent!Reader, Agent!Register, Agent!WaitEnds, Agent!Drain,
                    Spent
<1>9. ASSUME NEW p \in Agent!Prompts, Agent!RunReturns(p), flag[session[p]] = "set"
      PROVE  Agent!CancelsSpent'
  <2>1. /\ agentWorker[p] = "running" /\ agentWorker' = [agentWorker EXCEPT ![p] = "cancelled"]
        /\ flag' = [flag EXCEPT ![session[p]] = "clear"]
        /\ UNCHANGED <<session, agentAnswer, cancels, agentStop>>
    BY <1>9 DEF Agent!RunReturns, Agent!FlagTaken
  <2>2. session[p] \in Sessions
    BY <2>1 DEF PromptsPlaced
  <2>3. \A t \in Sessions : Spent(t)' \subseteq (IF t = session[p] THEN Spent(t) \cup {p} ELSE Spent(t))
    BY <2>1 DEF Spent
  <2>4. ASSUME NEW t \in Sessions
        PROVE  Cardinality(Spent(t))' + Set(t)' <= cancels'[t] + Stopped'
    <3>1. CASE t = session[p]
      <4>1. Cardinality(Spent(t))' <= Cardinality(Spent(t) \cup {p})
        BY <1>2, <2>3, <3>1, FS_Subset, FS_AddElement
      <4>2. Cardinality(Spent(t) \cup {p}) \in {Cardinality(Spent(t)), Cardinality(Spent(t)) + 1}
        BY <1>2, FS_AddElement
      <4>. QED
        BY <1>0, <1>2, <1>9, <2>1, <2>2, <3>1, <4>1, <4>2
    <3>2. CASE t # session[p]
      <4>1. Cardinality(Spent(t))' <= Cardinality(Spent(t))
        BY <1>2, <2>3, <3>2, FS_Subset
      <4>. QED
        BY <1>0, <1>2, <2>1, <3>2, <4>1
    <3>. QED
      BY <3>1, <3>2
  <2>. QED
    BY <1>1, <1>2, <2>4
<1>10. ASSUME NEW p \in Agent!Prompts, Agent!Worker(p), ~(Agent!RunReturns(p) /\ flag[session[p]] = "set")
       PROVE  Agent!CancelsSpent'
  <2>1. /\ UNCHANGED <<session, cancels, agentStop>>
        /\ \A t \in Sessions : flag'[t] = "set" => flag[t] = "set"
    BY <1>10
    DEF Agent!Worker, Agent!RunReturns, Agent!RunFails, Agent!WorkerEmits, Agent!WorkerReleases,
        Agent!WorkerUncounts, Agent!WorkerNotifies, Agent!FlagTaken
  <2>2. \A t \in Sessions : Spent(t)' \subseteq Spent(t)
    <3>1. CASE Agent!WorkerEmits(p)
      BY <2>1, <3>1 DEF Agent!WorkerEmits, Agent!Emit, Spent
    <3>2. CASE ~Agent!WorkerEmits(p)
      <4>1. /\ agentAnswer' = agentAnswer
            /\ \E w \in {"ran", "released", "notify", "gone"} :
                 agentWorker' = [agentWorker EXCEPT ![p] = w]
        BY <1>10, <3>2
        DEF Agent!Worker, Agent!RunReturns, Agent!RunFails, Agent!WorkerReleases,
            Agent!WorkerUncounts, Agent!WorkerNotifies
      <4>. QED
        BY <2>1, <4>1 DEF Spent
    <3>. QED
      BY <3>1, <3>2
  <2>. QED
    BY <1>3, <2>1, <2>2
<1>11. CASE UNCHANGED agentVars
  BY <1>3, <1>11 DEF agentVars, Spent
<1>. QED
  BY <1>4, <1>5, <1>6, <1>7, <1>8, <1>9, <1>10, <1>11 DEF Agent!Next

(***************************************************************************)
(* Whatever order prompts, cancels, failures and cleanups come in, the     *)
(* server loses no place and no session, spends a cancel on one prompt,    *)
(* and leaves no prompt without its answer when it returns (acp_server.h). *)
(***************************************************************************)
THEOREM PromptsAccountedCorrect == PeersSpec => []PromptsAccounted
<1>. DEFINE Inv == peer = "agent" => AgentIInv
<1>1. PeersInit => Inv
  BY AgentInit DEF PeersInit
<1>2. Inv /\ [PeersNext]_peersVars => Inv'
  BY PeersStep, AgentPlaces, AgentAccounts, AgentCancels DEF AgentIInv
<1>3. Inv => PromptsAccounted
  BY DEF PromptsAccounted, AgentIInv, PromptsPlaced, Agent!QuietAfterReturn, Agent!Counted,
         Agent!Unreleased
<1>. QED
  BY <1>1, <1>2, <1>3, PTL DEF PeersSpec

-----------------------------------------------------------------------------
(* The agent's calls to its editor.                                        *)

EditorThreads == 1 .. EditorCalls

(***************************************************************************)
(* An entry of the table is of a call that has not returned, under the id  *)
(* the call has; an answer that was taken for a call, given to it or about *)
(* to be, is to that id, and the call has no entry any more.               *)
(***************************************************************************)
NoEntry(c) == \A p \in pending : p.call # c

OutboundIInv ==
  /\ nextId \in Nat /\ id \in [EditorThreads -> Nat]
  /\ pc \in [EditorThreads -> {"idle", "pending", "waiting", "returned"}]
  /\ promise = [c \in EditorThreads |-> promise[c]]
  /\ thread = [t \in MessageThreads |-> thread[t]]
  /\ \A p \in pending : /\ p.call \in EditorThreads /\ p.id = id[p.call]
                        /\ pc[p.call] \in {"pending", "waiting"}
  /\ \A c \in EditorThreads :
       promise[c] # Outbound!Nothing => promise[c].id = id[c] /\ pc[c] # "idle" /\ NoEntry(c)
  /\ \A t \in MessageThreads : thread[t].doing = "gives" =>
       /\ thread[t].to \in EditorThreads /\ thread[t].answer.id = id[thread[t].to]
       /\ pc[thread[t].to] # "idle" /\ NoEntry(thread[t].to)

(***************************************************************************)
(* No call has been made yet.                                              *)
(***************************************************************************)
LEMMA OutboundInit == Outbound!Init => OutboundIInv
BY DEF Outbound!Init, OutboundIInv, EditorThreads, Outbound!Free

(***************************************************************************)
(* No answer is taken for another call, however late it is, and no call    *)
(* returns with its entry.                                                 *)
(***************************************************************************)
LEMMA OutboundStep == OutboundIInv /\ [Outbound!Next]_outboundVars => OutboundIInv'
<1>. SUFFICES ASSUME OutboundIInv, [Outbound!Next]_outboundVars PROVE OutboundIInv'
  OBVIOUS
<1>. USE DEF OutboundIInv, NoEntry, Outbound!callVars, Outbound!tableVars, Outbound!stopVars
<1>1. ASSUME NEW c \in EditorThreads, Outbound!Begin(c) PROVE OutboundIInv'
  <2>1. /\ pc[c] = "idle" /\ pc' = [pc EXCEPT ![c] = "pending"]
        /\ nextId' = nextId + 1 /\ id' = [id EXCEPT ![c] = nextId]
        /\ \A p \in pending' : p \in pending \/ p = [id |-> nextId, call |-> c]
        /\ UNCHANGED <<promise, thread>>
    BY <1>1 DEF Outbound!Begin, Outbound!FetchAdd
  <2>2. promise[c] = Outbound!Nothing /\ NoEntry(c)
    BY <2>1
  <2>3. \A p \in pending' : /\ p.call \in EditorThreads /\ p.id = id'[p.call]
                            /\ pc'[p.call] \in {"pending", "waiting"}
    BY <2>1, <2>2
  <2>4. ASSUME NEW d \in EditorThreads, d # c, NoEntry(d) PROVE NoEntry(d)'
    BY <2>1, <2>4
  <2>5. \A d \in EditorThreads : promise'[d] # Outbound!Nothing =>
          promise'[d].id = id'[d] /\ pc'[d] # "idle" /\ NoEntry(d)'
    BY <2>1, <2>2, <2>4
  <2>6. \A t \in MessageThreads : thread'[t].doing = "gives" =>
          /\ thread'[t].to \in EditorThreads /\ thread'[t].answer.id = id'[thread'[t].to]
          /\ pc'[thread'[t].to] # "idle" /\ NoEntry(thread[t].to)'
    BY <2>1, <2>2, <2>4
  <2>7. nextId' \in Nat /\ id' \in [EditorThreads -> Nat]
        /\ pc' \in [EditorThreads -> {"idle", "pending", "waiting", "returned"}]
    BY <2>1
  <2>. QED
    BY <2>1, <2>3, <2>5, <2>6, <2>7
<1>2. ASSUME NEW c \in EditorThreads, Outbound!Send(c) \/ Outbound!Expire(c) PROVE OutboundIInv'
  BY <1>2 DEF Outbound!Send, Outbound!Expire
<1>3. ASSUME NEW c \in EditorThreads, Outbound!GiveUp(c) \/ Outbound!Answered(c)
      PROVE  OutboundIInv'
  <2>1. /\ pc[c] = "waiting" /\ pc' = [pc EXCEPT ![c] = "returned"]
        /\ pending' \subseteq pending /\ UNCHANGED <<nextId, id, promise, thread>>
    BY <1>3 DEF Outbound!GiveUp, Outbound!Answered, Outbound!Return, Outbound!Erased
  <2>2. \A p \in pending' : p.call # c
    BY <1>3 DEF Outbound!GiveUp, Outbound!Answered, Outbound!Erased
  <2>. QED
    BY <2>1, <2>2
<1>4. ASSUME NEW t \in MessageThreads, NEW n \in Outbound!Ids, NEW a \in Outbound!Answers,
             NEW s \in BOOLEAN, Outbound!AnswerArrives(t, n, a, s)
      PROVE  OutboundIInv'
  <2>. DEFINE found == {p \in pending : p.id = n /\ ~s}
              first == CHOOSE p \in found : TRUE
  <2>1. /\ pending' = pending \ found /\ UNCHANGED <<nextId, id, pc, promise>>
        /\ thread' = [thread EXCEPT ![t] =
             IF found = {} THEN Outbound!AfterMessage(TRUE)
             ELSE Outbound!Gives(first.call, [what |-> a, id |-> n])]
    BY <1>4 DEF Outbound!AnswerArrives
  <2>2. CASE found = {}
    BY <2>1, <2>2 DEF Outbound!AfterMessage, Outbound!Waits, Outbound!Free
  <2>3. CASE found # {}
    <3>1. first \in found
      BY <2>3
    <3>2. /\ first.call \in EditorThreads /\ id[first.call] = n /\ pc[first.call] # "idle"
          /\ \A p \in pending' : p.call # first.call
      BY <2>1, <3>1
    <3>. HIDE DEF first
    <3>3. /\ thread'[t].to = first.call /\ thread'[t].answer.id = n
          /\ \A u \in MessageThreads \ {t} : thread'[u] = thread[u]
          /\ thread' = [u \in MessageThreads |-> thread'[u]]
      BY <2>1, <2>3 DEF Outbound!Gives
    <3>. HIDE DEF found
    <3>4. pending' \subseteq pending
      BY <2>1
    <3>5. ASSUME NEW u \in MessageThreads, thread'[u].doing = "gives"
          PROVE  /\ thread'[u].to \in EditorThreads /\ thread'[u].answer.id = id[thread'[u].to]
                 /\ pc[thread'[u].to] # "idle" /\ \A p \in pending' : p.call # thread'[u].to
      BY <3>2, <3>3, <3>4, <3>5
    <3>6. \A p \in pending' : p.call \in EditorThreads /\ p.id = id[p.call]
                             /\ pc[p.call] \in {"pending", "waiting"}
      BY <3>4
    <3>7. \A c \in EditorThreads : promise[c] # Outbound!Nothing =>
            promise[c].id = id[c] /\ pc[c] # "idle" /\ \A p \in pending' : p.call # c
      BY <3>4
    <3>. QED
      BY <2>1, <3>3, <3>5, <3>6, <3>7
  <2>. QED
    BY <2>2, <2>3
<1>5. ASSUME NEW t \in MessageThreads, Outbound!Give(t) PROVE OutboundIInv'
  BY <1>5 DEF Outbound!Give, Outbound!AfterMessage, Outbound!Waits, Outbound!Free
<1>6. ASSUME NEW t \in MessageThreads, NEW h \in BOOLEAN,
             Outbound!CancelArrives(t, h) \/ Outbound!WaitEnds(t)
      PROVE  OutboundIInv'
  BY <1>6 DEF Outbound!CancelArrives, Outbound!WaitEnds, Outbound!AfterMessage, Outbound!Waits,
              Outbound!Free
<1>7. CASE Outbound!Stop
  BY <1>7 DEF Outbound!Stop
<1>8. CASE UNCHANGED outboundVars
  BY <1>8 DEF outboundVars
<1>. HIDE DEF OutboundIInv, NoEntry, Outbound!callVars, Outbound!tableVars, Outbound!stopVars
<1>. QED
  BY <1>1, <1>2, <1>3, <1>4, <1>5, <1>6, <1>7, <1>8 DEF Outbound!Next, EditorThreads

-----------------------------------------------------------------------------
(* The MCP server.                                                         *)

(***************************************************************************)
(* The entries a worker may have seen are those there were since its       *)
(* request came, and a registry is read for a list or a call only.         *)
(***************************************************************************)
ServingIInv ==
  /\ serving \in [ServingThreads -> {"idle", "listing", "looking", "found", "running", "answered"}]
  /\ request = [w \in ServingThreads |-> request[w]]
  /\ answer = [w \in ServingThreads |-> answer[w]]
  /\ sometime = [w \in ServingThreads |-> sometime[w]]
  /\ throughout = [w \in ServingThreads |-> throughout[w]]
  /\ \A w \in ServingThreads :
       /\ serving[w] = "idle" => request[w] = Serving!NoRequest
       /\ serving[w] # "idle" => throughout[w] \subseteq registered /\ registered \subseteq sometime[w]
       /\ serving[w] = "listing" => request[w].method = "list"
  /\ Serving!AnswersMatch
  /\ Serving!CallSeesRegistry

(***************************************************************************)
(* A step of a worker that has a request: it goes to `where' and `says' it *)
(* under the id it has and of the entries there were.                      *)
(***************************************************************************)
ServingMove(w, where, says) ==
  /\ serving[w] # "idle" /\ where \in {"listing", "looking", "found", "running", "answered"}
  /\ serving' = [serving EXCEPT ![w] = where] /\ answer' = [answer EXCEPT ![w] = says]
  /\ UNCHANGED <<registered, request, sometime, throughout>>
  /\ where = "listing" => request[w].method = "list"
  /\ where = "answered" => /\ says.id = "own" => request[w].hasId
                           /\ says.id = "null" => request[w].method \in Serving!Malformed
  /\ request[w].method = "call" =>
       /\ where \in {"found", "running"} => request[w].entry \in sometime[w]
       /\ where = "answered" /\ says.what = "value" => request[w].entry \in sometime[w]
       /\ where = "answered" /\ says.what = "error" /\ request[w].kind = "tool" =>
            request[w].entry \notin throughout[w]

(***************************************************************************)
(* Such a step keeps the invariant.                                        *)
(***************************************************************************)
LEMMA ServingMoves ==
  ASSUME ServingIInv, NEW w \in ServingThreads, NEW where, NEW says, ServingMove(w, where, says)
  PROVE  ServingIInv'
<1>. USE DEF ServingIInv, ServingMove
<1>1. \A v \in ServingThreads : /\ serving'[v] = IF v = w THEN where ELSE serving[v]
                                /\ answer'[v] = IF v = w THEN says ELSE answer[v]
  OBVIOUS
<1>2. Serving!AnswersMatch'
  BY <1>1 DEF Serving!AnswersMatch
<1>3. Serving!CallSeesRegistry'
  BY <1>1 DEF Serving!CallSeesRegistry
<1>. QED
  BY <1>1, <1>2, <1>3

(***************************************************************************)
(* Nobody works yet.                                                       *)
(***************************************************************************)
LEMMA ServingInit == Serving!Init => ServingIInv
BY DEF Serving!Init, ServingIInv, Serving!AnswersMatch, Serving!CallSeesRegistry,
       Serving!NoRequest

(***************************************************************************)
(* Whenever the registry changes, a worker says what stood at a moment of  *)
(* its request, under the id it has.                                       *)
(***************************************************************************)
LEMMA ServingStep == ServingIInv /\ [Serving!Next]_servingVars => ServingIInv'
<1>. SUFFICES ASSUME ServingIInv, [Serving!Next]_servingVars PROVE ServingIInv'
  OBVIOUS
<1>. USE DEF Serving!historyVars
<1>. /\ serving \in [ServingThreads -> {"idle", "listing", "looking", "found", "running", "answered"}]
     /\ answer = [w \in ServingThreads |-> answer[w]]
  BY DEF ServingIInv
<1>1. ASSUME NEW new, Serving!Changes(new) PROVE ServingIInv'
  <2>1. /\ registered' = new /\ UNCHANGED <<serving, request, answer>>
        /\ sometime' = [w \in ServingThreads |->
                          IF serving[w] = "idle" THEN {} ELSE sometime[w] \cup new]
        /\ throughout' = [w \in ServingThreads |-> throughout[w] \cap new]
    BY <1>1 DEF Serving!Changes
  <2>2. Serving!CallSeesRegistry'
    BY <2>1 DEF ServingIInv, Serving!CallSeesRegistry
  <2>. QED
    BY <2>1, <2>2 DEF ServingIInv, Serving!AnswersMatch
<1>2. ASSUME NEW w \in ServingThreads, NEW r \in Serving!Requests, Serving!Receive(w, r)
      PROVE  ServingIInv'
  <2>1. /\ serving[w] = "idle" /\ request' = [request EXCEPT ![w] = r]
        /\ sometime' = [sometime EXCEPT ![w] = registered]
        /\ throughout' = [throughout EXCEPT ![w] = registered]
        /\ registered' = registered
    BY <1>2 DEF Serving!Receive
  <2>2. PICK where \in {"listing", "looking", "answered"} :
          /\ serving' = [serving EXCEPT ![w] = where]
          /\ where = "listing" => r.method = "list"
          /\ where = "answered" => r.method \notin {"list", "call"}
    BY <1>2 DEF Serving!Receive
  <2>3. PICK says :
          /\ answer' = [answer EXCEPT ![w] = says]
          /\ where = "answered" => says = Serving!AnswerOf(r)
    BY <1>2, <2>2 DEF Serving!Receive
  <2>4. where = "answered" =>
          /\ says.id = "own" => r.hasId = TRUE
          /\ says.id = "null" => r.method \in Serving!Malformed
    <3>. SUFFICES ASSUME where = "answered"
                  PROVE  /\ says.id = "own" => r.hasId = TRUE
                         /\ says.id = "null" => r.method \in Serving!Malformed
      OBVIOUS
    <3>1. CASE r.method \in Serving!Malformed
      <4>1. says = Serving!Answer("null", "error")
        BY <2>3, <3>1 DEF Serving!AnswerOf, Serving!Malformed
      <4>. QED
        BY <3>1, <4>1 DEF Serving!Answer
    <3>2. CASE r.method \notin Serving!Malformed
      <4>1. r.method \in {"initialized", "cancelled", "message", "initialize", "constant",
                          "subscribe", "unknown"}
        BY <2>2, <3>2 DEF Serving!Requests, Serving!Methods, Serving!Notifications
      <4>2. says \in {Serving!Answered(r, "result"), Serving!Answered(r, "error"), Serving!NoAnswer}
        BY <2>3, <3>2, <4>1 DEF Serving!AnswerOf
      <4>3. r.hasId \in BOOLEAN
        BY DEF Serving!Requests
      <4>. QED
        BY <4>2, <4>3 DEF Serving!Answered, Serving!Answer, Serving!NoAnswer
    <3>. QED
      BY <3>1, <3>2
  <2>5. /\ \A v \in ServingThreads : /\ serving'[v] = IF v = w THEN where ELSE serving[v]
                                     /\ answer'[v] = IF v = w THEN says ELSE answer[v]
                                     /\ request'[v] = IF v = w THEN r ELSE request[v]
                                     /\ sometime'[v] = IF v = w THEN registered ELSE sometime[v]
                                     /\ throughout'[v] = IF v = w THEN registered ELSE throughout[v]
    BY <2>1, <2>2, <2>3 DEF ServingIInv
  <2>6. ASSUME NEW v \in ServingThreads, serving'[v] = "answered"
        PROVE  /\ answer'[v].id = "own" => request'[v].hasId
               /\ answer'[v].id = "null" => request'[v].method \in Serving!Malformed
    <3>1. CASE v = w
      <4>1. where = "answered" /\ answer'[v] = says /\ request'[v] = r
        BY <2>5, <2>6, <3>1
      <4>2. answer'[v].id = "own" => request'[v].hasId
        <5>1. answer'[v].id = "own" => request'[v].hasId = TRUE
          BY <2>4, <4>1
        <5>. QED
          BY <5>1
      <4>3. answer'[v].id = "null" => request'[v].method \in Serving!Malformed
        BY <2>4, <4>1
      <4>. QED
        BY <4>2, <4>3
    <3>2. CASE v # w
      BY <2>5, <2>6, <3>2 DEF ServingIInv, Serving!AnswersMatch
    <3>. QED
      BY <3>1, <3>2
  <2>7. Serving!CallSeesRegistry'
    BY <2>2, <2>5 DEF ServingIInv, Serving!CallSeesRegistry
  <2>. QED
    BY <2>1, <2>2, <2>3, <2>5, <2>6, <2>7 DEF ServingIInv, Serving!AnswersMatch
<1>3. ASSUME NEW w \in ServingThreads, NEW e \in Entries, Serving!ListTakes(w, e) PROVE ServingIInv'
  BY <1>3 DEF ServingIInv, Serving!ListTakes, Serving!AnswersMatch, Serving!CallSeesRegistry
<1>4. ASSUME NEW w \in ServingThreads, NEW what, Serving!Says(w, what), serving[w] # "idle",
             UNCHANGED <<registered, request, sometime, throughout>>,
             request[w].method = "call" =>
               /\ what = "value" => request[w].entry \in sometime[w]
               /\ what = "error" /\ request[w].kind = "tool" => request[w].entry \notin throughout[w]
      PROVE  ServingIInv'
  <2>. DEFINE says == Serving!Answered(request[w], what)
  <2>1. /\ says.id \in {"own", "none"} /\ says.what \in {what, "nothing"}
        /\ says.id = "own" => request[w].hasId
    BY DEF Serving!Answered, Serving!Answer, Serving!NoAnswer
  <2>2. serving' = [serving EXCEPT ![w] = "answered"] /\ answer' = [answer EXCEPT ![w] = says]
    BY <1>4 DEF Serving!Says
  <2>. HIDE DEF says
  <2>3. ServingMove(w, "answered", says)
    BY <1>4, <2>1, <2>2 DEF ServingMove
  <2>. QED
    BY <2>3, ServingMoves
<1>5. ASSUME NEW w \in ServingThreads, Serving!ListEnds(w) PROVE ServingIInv'
  <2>1. request[w].method = "list"
    BY <1>5 DEF Serving!ListEnds, ServingIInv
  <2>. QED
    BY <1>4, <1>5, <2>1 DEF Serving!ListEnds
<1>6. ASSUME NEW w \in ServingThreads, Serving!LookUp(w) PROVE ServingIInv'
  <2>1. throughout[w] \subseteq registered /\ registered \subseteq sometime[w]
    BY <1>6 DEF Serving!LookUp, ServingIInv
  <2>2. CASE request[w].entry \in registered
    <3>1. serving' = [serving EXCEPT ![w] = "found"] /\ answer' = [answer EXCEPT ![w] = answer[w]]
      BY <1>6, <2>2 DEF Serving!LookUp, Serving!Found
    <3>2. ServingMove(w, "found", answer[w])
      BY <1>6, <2>1, <2>2, <3>1 DEF Serving!LookUp, ServingMove
    <3>. QED
      BY <3>2, ServingMoves
  <2>3. CASE request[w].entry \notin registered
    BY <1>4, <1>6, <2>1, <2>3 DEF Serving!LookUp, Serving!Found
  <2>. QED
    BY <2>2, <2>3
<1>7. ASSUME NEW w \in ServingThreads, Serving!CopyHandler(w) PROVE ServingIInv'
  <2>1. serving' = [serving EXCEPT ![w] = "running"] /\ answer' = [answer EXCEPT ![w] = answer[w]]
    BY <1>7 DEF Serving!CopyHandler
  <2>2. request[w].method = "call" => request[w].entry \in sometime[w]
    BY <1>7 DEF Serving!CopyHandler, ServingIInv, Serving!CallSeesRegistry
  <2>3. ServingMove(w, "running", answer[w])
    BY <1>7, <2>1, <2>2 DEF Serving!CopyHandler, ServingMove
  <2>. QED
    BY <2>3, ServingMoves
<1>8. ASSUME NEW w \in ServingThreads,
             Serving!ToolReturns(w) \/ Serving!ReaderReturns(w) \/ Serving!PromptReturns(w)
      PROVE  ServingIInv'
  <2>1. PICK what \in {"value", "isError", "error"} :
          /\ serving[w] = "running" /\ Serving!Says(w, what)
          /\ UNCHANGED <<registered, request, sometime, throughout>>
          /\ what = "error" => request[w].kind # "tool"
    BY <1>8 DEF Serving!ToolReturns, Serving!ReaderReturns, Serving!PromptReturns,
                Serving!HandlerReturns
  <2>2. request[w].method = "call" => request[w].entry \in sometime[w]
    BY <2>1 DEF ServingIInv, Serving!CallSeesRegistry
  <2>. QED
    BY <1>4, <2>1, <2>2
<1>9. ASSUME NEW w \in ServingThreads, Serving!Done(w) PROVE ServingIInv'
  <2>1. /\ serving' = [serving EXCEPT ![w] = "idle"]
        /\ request' = [request EXCEPT ![w] = Serving!NoRequest]
        /\ answer' = [answer EXCEPT ![w] = Serving!NoAnswer]
        /\ sometime' = [sometime EXCEPT ![w] = {}] /\ throughout' = [throughout EXCEPT ![w] = {}]
        /\ registered' = registered
    BY <1>9 DEF Serving!Done
  <2>. QED
    BY <2>1 DEF ServingIInv, Serving!AnswersMatch, Serving!CallSeesRegistry
<1>10. CASE UNCHANGED servingVars
  BY <1>10 DEF servingVars, ServingIInv, Serving!AnswersMatch, Serving!CallSeesRegistry
<1>. QED
  BY <1>1, <1>2, <1>3, <1>5, <1>6, <1>7, <1>8, <1>9, <1>10
  DEF Serving!Next, Serving!Add, Serving!RemoveEntry

(***************************************************************************)
(* The server answers initialize with a version it has, its client's if it *)
(* has that; and the client takes it.                                      *)
(***************************************************************************)
LEMMA VersionNegotiated == Serving!VersionAgreed
<1>. DEFINE Known == {Serving!Supported[i] : i \in DOMAIN Serving!Supported}
<1>1. /\ DOMAIN Serving!Supported = 1 .. 4 /\ 202411 \in Known
      /\ \A i \in 1 .. 4 : Serving!Supported[i] \in Known
  BY DEF Serving!Supported
<1>2. ASSUME NEW fits \in SUBSET (1 .. 4), fits # {}
      PROVE  (CHOOSE i \in fits : \A j \in fits : i <= j) \in 1 .. 4
  <2>1. \E i \in fits : \A j \in fits : i <= j
    <3>1. CASE 1 \in fits
      BY <3>1
    <3>2. CASE 1 \notin fits /\ 2 \in fits
      BY <3>2
    <3>3. CASE 1 \notin fits /\ 2 \notin fits /\ 3 \in fits
      BY <3>3
    <3>4. CASE 1 \notin fits /\ 2 \notin fits /\ 3 \notin fits
      <4>1. ASSUME NEW i \in fits PROVE i = 4
        <5>1. i \in 1 .. 4 /\ i # 1 /\ i # 2 /\ i # 3
          BY <3>4
        <5>. QED
          BY <5>1
      <4>2. 4 \in fits
        BY <1>2, <4>1
      <4>. QED
        BY <4>1, <4>2
    <3>. QED
      BY <3>1, <3>2, <3>3, <3>4
  <2>2. (CHOOSE i \in fits : \A j \in fits : i <= j) \in fits
    BY <2>1
  <2>. QED
    BY <2>2
<1>3. ASSUME NEW v
      PROVE  /\ Serving!NegotiatedVersion(v) \in Known
             /\ v \in Known => Serving!NegotiatedVersion(v) = v
  <2>. DEFINE fits == {i \in DOMAIN Serving!Supported : Serving!Supported[i] \div 100 <= v \div 100}
  <2>1. fits \in SUBSET (1 .. 4)
    BY <1>1
  <2>2. Serving!NegotiatedVersion(v) = IF v \in Known THEN v
          ELSE IF v = 0 \/ fits = {} THEN 202411
          ELSE Serving!Supported[CHOOSE i \in fits : \A j \in fits : i <= j]
    BY DEF Serving!NegotiatedVersion
  <2>. DEFINE first == CHOOSE i \in fits : \A j \in fits : i <= j
  <2>. HIDE DEF fits, Known
  <2>3. fits # {} => first \in 1 .. 4
    BY <1>2, <2>1
  <2>4. first \in 1 .. 4 => Serving!Supported[first] \in Known
    <3>. HIDE DEF first
    <3>. QED
      BY <1>1
  <2>. QED
    BY <1>1, <2>2, <2>3, <2>4
<1>. QED
  BY <1>3 DEF Serving!VersionAgreed, Serving!negotiateProtocolVersion

-----------------------------------------------------------------------------
(* The MCP client.                                                         *)

ClientStates == {"none", "discovering", "posting", "notifying", "writing", "waiting", "done"}
ClientLines  == [id : Nat, as : {"integer", "string", "none"}, what : {"result", "error"}, call : Nat]

(***************************************************************************)
(* Calls have an id each; a call that writes or waits is in the table or   *)
(* has been given its promise, and not both.                               *)
(***************************************************************************)
ClientTable ==
  /\ clientNextId \in Nat \ {0} /\ clientId \in [Client!Calls -> Nat]
  /\ clientPc \in [Client!Calls -> ClientStates]
  /\ clientPromise = [r \in Client!Calls |-> clientPromise[r]]
  /\ \A r \in Client!Calls :
       /\ clientId[r] < clientNextId
       /\ clientPc[r] = "none" => clientId[r] = 0
       /\ clientId[r] = 0 => clientPromise[r] = Client!Nothing
       /\ clientPc[r] \in {"writing", "waiting"} =>
            /\ clientId[r] # 0
            /\ clientId[r] \in clientPending \/ clientPromise[r] # Client!Nothing
       /\ clientPromise[r] # Client!Nothing => clientId[r] \notin clientPending
  /\ \A r, q \in Client!Calls : clientId[r] = clientId[q] => clientId[r] = 0 \/ r = q
  /\ \A i \in clientPending : \E r \in Client!Calls :
       clientId[r] = i /\ clientPc[r] \in {"writing", "waiting"}

(***************************************************************************)
(* What the pipes hold, and the server works at, has the id of its call.   *)
(***************************************************************************)
OwnLine(line) ==
  line.call \in Client!Calls /\ line.id = clientId[line.call] /\ line.id # 0

LinesOwned ==
  /\ toServer \in Seq([id : Nat, call : Client!Calls])
  /\ \A i \in 1 .. Len(toServer) : OwnLine(toServer[i])
  /\ taken \subseteq [id : Nat, call : Client!Calls]
  /\ \A q \in taken : OwnLine(q)
  /\ fromServer \in Seq(ClientLines)
  /\ \A i \in 1 .. Len(fromServer) :
       fromServer[i].as \in {"integer", "string"} => OwnLine(fromServer[i])

(***************************************************************************)
(* A promise, and what a call returns, was made for the call.              *)
(***************************************************************************)
Own(r, outcome_) == outcome_.what \in {"result", "error"} => outcome_.call = r

AnswersOwned ==
  /\ result = [r \in Client!Calls |-> result[r]]
  /\ \A r \in Client!Calls : Own(r, result[r]) /\ Own(r, clientPromise[r])

ClientIInv == ClientTable /\ LinesOwned /\ AnswersOwned

(***************************************************************************)
(* No call has begun.                                                      *)
(***************************************************************************)
LEMMA ClientInit == Client!Init => ClientIInv
<1>. SUFFICES ASSUME Client!Init PROVE ClientIInv
  OBVIOUS
<1>1. ClientTable
  BY DEF Client!Init, ClientTable, ClientStates
<1>2. LinesOwned
  BY DEF Client!Init, LinesOwned
<1>3. AnswersOwned
  BY DEF Client!Init, AnswersOwned, Own, Client!Nothing, Client!Outcome
<1>. QED
  BY <1>1, <1>2, <1>3 DEF ClientIInv

(***************************************************************************)
(* Lines stay owned when calls get ids, since a call of a line has its own.*)
(***************************************************************************)
LEMMA LinesStay ==
  ASSUME LinesOwned, \A r \in Client!Calls : clientId[r] # 0 => clientId'[r] = clientId[r],
         \/ UNCHANGED <<toServer, taken, fromServer>>
         \/ toServer' = <<>> /\ taken' = {} /\ fromServer' = <<>>
         \/ toServer' = <<>> /\ taken' = {} /\ fromServer' = fromServer
  PROVE  LinesOwned'
<1>1. ASSUME NEW line, OwnLine(line) PROVE OwnLine(line)'
  BY <1>1 DEF OwnLine
<1>2. CASE UNCHANGED <<toServer, taken, fromServer>>
  BY <1>1, <1>2 DEF LinesOwned
<1>3. CASE toServer' = <<>> /\ taken' = {} /\ fromServer' = <<>>
  BY <1>3 DEF LinesOwned
<1>4. CASE toServer' = <<>> /\ taken' = {} /\ fromServer' = fromServer
  BY <1>1, <1>4 DEF LinesOwned
<1>. QED
  BY <1>2, <1>3, <1>4

(***************************************************************************)
(* A call that begins is refused, or has a new id, in the table over stdio.*)
(***************************************************************************)
LEMMA ClientSends ==
  ASSUME ClientIInv, NEW r \in Client!Calls, clientPc[r] = "none", Client!SendRequest(r)
  PROVE  /\ ClientTable' /\ AnswersOwned'
         /\ \A q \in Client!Calls : clientId[q] # 0 => clientId'[q] = clientId[q]
<1>. ClientTable /\ AnswersOwned
  BY DEF ClientIInv
<1>1. CASE closed
  <2>1. /\ clientPc' = [clientPc EXCEPT ![r] = "done"]
        /\ result' = [result EXCEPT ![r] = Client!Failed]
        /\ UNCHANGED <<clientNextId, clientId, clientPending, clientPromise>>
    BY <1>1 DEF Client!SendRequest, Client!Returns, Client!tableVars
  <2>2. ClientTable'
    BY <2>1 DEF ClientTable, ClientStates
  <2>3. AnswersOwned'
    BY <2>1 DEF AnswersOwned, Own, Client!Failed, Client!Outcome
  <2>. QED
    BY <2>1, <2>2, <2>3
<1>2. CASE ~closed
  <2>1. /\ clientNextId' = clientNextId + 1
        /\ clientId' = [clientId EXCEPT ![r] = clientNextId]
        /\ UNCHANGED <<result, clientPromise>>
    BY <1>2 DEF Client!SendRequest, Client!NewId
  <2>2. \/ /\ clientPending' = clientPending
           /\ \E w \in {"posting", "discovering"} : clientPc' = [clientPc EXCEPT ![r] = w]
        \/ /\ clientPending' = clientPending \cup {clientNextId}
           /\ clientPc' = [clientPc EXCEPT ![r] = "writing"]
    BY <1>2 DEF Client!SendRequest
  <2>3. clientId[r] = 0 /\ clientPromise[r] = Client!Nothing
    BY DEF ClientTable
  <2>4. \A q \in Client!Calls : /\ clientId'[q] = IF q = r THEN clientNextId ELSE clientId[q]
                                /\ q # r => clientPc'[q] = clientPc[q]
    BY <2>1, <2>2 DEF ClientTable
  <2>5. \A q \in Client!Calls : clientId[q] # 0 => clientId'[q] = clientId[q]
    BY <2>3, <2>4
  <2>6. \A i \in clientPending : i < clientNextId
    BY DEF ClientTable
  <2>7. \A q, p \in Client!Calls : clientId'[q] = clientId'[p] => clientId'[q] = 0 \/ q = p
    BY <2>4 DEF ClientTable
  <2>8. \A i \in clientPending' : \E q \in Client!Calls :
          clientId'[q] = i /\ clientPc'[q] \in {"writing", "waiting"}
    <3>1. ASSUME NEW i \in clientPending
          PROVE  \E q \in Client!Calls : clientId'[q] = i /\ clientPc'[q] \in {"writing", "waiting"}
      <4>1. PICK q \in Client!Calls : clientId[q] = i /\ clientPc[q] \in {"writing", "waiting"}
        BY DEF ClientTable
      <4>. QED
        BY <2>4, <4>1
    <3>2. clientPending' # clientPending => clientId'[r] = clientNextId /\ clientPc'[r] = "writing"
      BY <2>2, <2>4 DEF ClientTable
    <3>. QED
      BY <2>2, <3>1, <3>2
  <2>9. ClientTable'
    <3>1. clientPc' \in [Client!Calls -> ClientStates]
      BY <2>2 DEF ClientTable, ClientStates
    <3>2. clientNextId' \in Nat \ {0} /\ clientId' \in [Client!Calls -> Nat]
      BY <2>1 DEF ClientTable
    <3>3. ASSUME NEW q \in Client!Calls
          PROVE  /\ clientId'[q] < clientNextId'
                 /\ clientPc'[q] = "none" => clientId'[q] = 0
                 /\ clientId'[q] = 0 => clientPromise'[q] = Client!Nothing
                 /\ clientPc'[q] \in {"writing", "waiting"} =>
                      /\ clientId'[q] # 0
                      /\ clientId'[q] \in clientPending' \/ clientPromise'[q] # Client!Nothing
                 /\ clientPromise'[q] # Client!Nothing => clientId'[q] \notin clientPending'
      <4>1. CASE q = r
        BY <2>1, <2>2, <2>3, <2>4, <4>1 DEF ClientTable
      <4>2. CASE q # r
        BY <2>1, <2>2, <2>4, <4>2 DEF ClientTable
      <4>. QED
        BY <4>1, <4>2
    <3>. QED
      BY <2>1, <2>7, <2>8, <3>1, <3>2, <3>3 DEF ClientTable
  <2>10. AnswersOwned'
    BY <2>1 DEF AnswersOwned
  <2>. QED
    BY <2>5, <2>9, <2>10
<1>. QED
  BY <1>1, <1>2

(***************************************************************************)
(* A call that has written or waits leaves the table alone, and a step of  *)
(* another call keeps it as it is.                                         *)
(***************************************************************************)
LEMMA ClientGoesOn ==
  ASSUME ClientTable, NEW r \in Client!Calls, NEW w \in ClientStates,
         clientPc' = [clientPc EXCEPT ![r] = w], w # "none",
         UNCHANGED <<clientNextId, clientId, clientPending, clientPromise>>,
         \/ clientPc[r] \notin {"writing", "waiting"} /\ w \notin {"writing", "waiting"}
         \/ clientPc[r] = "writing" /\ w = "waiting"
         \/ clientPc[r] = "waiting" /\ clientPromise[r] # Client!Nothing /\ w = "done"
  PROVE  ClientTable'
<1>1. \A q \in Client!Calls : clientPc'[q] = IF q = r THEN w ELSE clientPc[q]
  BY DEF ClientTable
<1>2. \A i \in clientPending : \E q \in Client!Calls :
        clientId[q] = i /\ clientPc'[q] \in {"writing", "waiting"}
  <2>. SUFFICES ASSUME NEW i \in clientPending
                PROVE  \E q \in Client!Calls :
                         clientId[q] = i /\ clientPc'[q] \in {"writing", "waiting"}
    OBVIOUS
  <2>1. PICK q \in Client!Calls : clientId[q] = i /\ clientPc[q] \in {"writing", "waiting"}
    BY DEF ClientTable
  <2>2. q = r => w = "waiting"
    BY <2>1 DEF ClientTable
  <2>. QED
    BY <1>1, <2>1, <2>2
<1>3. \A q \in Client!Calls :
        /\ clientPc'[q] = "none" => clientId[q] = 0
        /\ clientPc'[q] \in {"writing", "waiting"} =>
             /\ clientId[q] # 0
             /\ clientId[q] \in clientPending \/ clientPromise[q] # Client!Nothing
  BY <1>1 DEF ClientTable
<1>4. clientPc' \in [Client!Calls -> ClientStates]
  BY DEF ClientTable
<1>. QED
  BY <1>2, <1>3, <1>4 DEF ClientTable

(***************************************************************************)
(* Entries that leave the table with a promise for each leave no call      *)
(* behind; the answers given are the calls' own.                           *)
(***************************************************************************)
LEMMA ClientGiven ==
  ASSUME ClientTable, AnswersOwned, NEW settled \in SUBSET clientPending,
         clientPending' = clientPending \ settled,
         clientPromise' = [r \in Client!Calls |-> clientPromise'[r]],
         \A r \in Client!Calls :
           IF clientId[r] \in settled
           THEN clientPromise'[r] # Client!Nothing /\ Own(r, clientPromise'[r])
           ELSE clientPromise'[r] = clientPromise[r],
         UNCHANGED <<clientNextId, clientId, clientPc, result>>
  PROVE  ClientTable' /\ AnswersOwned'
<1>1. AnswersOwned'
  BY DEF AnswersOwned
<1>2. \A i \in clientPending : i # 0
  BY DEF ClientTable
<1>3. ASSUME NEW r \in Client!Calls
      PROVE  /\ clientId[r] = 0 => clientPromise'[r] = Client!Nothing
             /\ clientPc[r] \in {"writing", "waiting"} =>
                  clientId[r] \in clientPending' \/ clientPromise'[r] # Client!Nothing
             /\ clientPromise'[r] # Client!Nothing => clientId[r] \notin clientPending'
  BY <1>2 DEF ClientTable
<1>4. ClientTable'
  BY <1>3 DEF ClientTable
<1>. QED
  BY <1>1, <1>4

(***************************************************************************)
(* An answer from the pipe is given to the call it was made for, whatever  *)
(* else comes, and a call that its server or close fails is not left in    *)
(* the table.                                                              *)
(***************************************************************************)
LEMMA ClientStep == ClientIInv /\ [Client!Next]_clientVars => ClientIInv'
<1>. SUFFICES ASSUME ClientIInv, [Client!Next]_clientVars PROVE ClientIInv'
  OBVIOUS
<1>. USE DEF Client!clientVars, Client!callVars, Client!tableVars, Client!lockVars,
             Client!readerVars, Client!serverVars
<1>. ClientTable /\ LinesOwned /\ AnswersOwned
  BY DEF ClientIInv
<1>1. ASSUME UNCHANGED <<clientNextId, clientId, clientPc, clientPending, clientPromise, result>>
      PROVE  ClientTable' /\ AnswersOwned'
  BY <1>1 DEF ClientTable, AnswersOwned
<1>2. ASSUME UNCHANGED <<clientId, toServer, taken, fromServer>> PROVE LinesOwned'
  BY <1>2 DEF LinesOwned, OwnLine
<1>3. ASSUME NEW r \in Client!Calls, Client!Initialize(r) PROVE ClientIInv'
  <2>1. /\ clientPc[r] = "none"
        /\ Client!SendRequest(r) \/ (Client!Returns(r, Client!Failed)
             /\ UNCHANGED <<clientNextId, clientId, clientPending, clientPromise>>)
        /\ \/ UNCHANGED <<toServer, taken, fromServer>>
           \/ toServer' = <<>> /\ taken' = {} /\ fromServer' = <<>>
    BY <1>3 DEF Client!Initialize, Client!Next1, Client!StartSubprocess
  <2>2. CASE Client!SendRequest(r)
    BY <2>1, <2>2, ClientSends, LinesStay DEF ClientIInv
  <2>3. CASE /\ Client!Returns(r, Client!Failed)
             /\ UNCHANGED <<clientNextId, clientId, clientPending, clientPromise>>
    <3>1. ClientTable'
      BY <2>1, <2>3, ClientGoesOn DEF Client!Returns, ClientStates
    <3>2. AnswersOwned'
      BY <2>3 DEF Client!Returns, AnswersOwned, Own, Client!Failed, Client!Outcome
    <3>. QED
      BY <2>1, <2>3, <3>1, <3>2, LinesStay DEF ClientIInv
  <2>. QED
    BY <2>1, <2>2, <2>3
<1>4. ASSUME NEW r \in Client!Calls, Client!Request(r) PROVE ClientIInv'
  <2>1. clientPc[r] = "none" /\ Client!SendRequest(r) /\ UNCHANGED <<toServer, taken, fromServer>>
    BY <1>4 DEF Client!Request, Client!Next1
  <2>. QED
    BY <2>1, ClientSends, LinesStay DEF ClientIInv
<1>5. ASSUME NEW r \in Client!Calls, NEW w \in ClientStates, w # "none",
             clientPc' = [clientPc EXCEPT ![r] = w],
             UNCHANGED <<clientNextId, clientId, clientPending, clientPromise, taken, toServer,
                         fromServer>>,
             \/ clientPc[r] \notin {"writing", "waiting"} /\ w \notin {"writing", "waiting"}
             \/ clientPc[r] = "waiting" /\ clientPromise[r] # Client!Nothing /\ w = "done",
             \/ result' = result
             \/ \E what : result' = [result EXCEPT ![r] = what] /\ Own(r, what)
      PROVE  ClientIInv'
  <2>1. ClientTable'
    BY <1>5, ClientGoesOn
  <2>2. AnswersOwned'
    BY <1>5 DEF AnswersOwned
  <2>. QED
    BY <1>2, <1>5, <2>1, <2>2 DEF ClientIInv
<1>6. ASSUME NEW r \in Client!Calls,
             Client!DiscoveryEnds(r) \/ Client!PostEnds(r) \/ Client!Notified(r)
      PROVE  ClientIInv'
  <2>1. /\ clientPc[r] \in {"discovering", "posting", "notifying"}
        /\ UNCHANGED <<clientNextId, clientId, clientPending, clientPromise, taken, toServer,
                       fromServer>>
        /\ \/ /\ \E w \in {"posting", "notifying"} : clientPc' = [clientPc EXCEPT ![r] = w]
              /\ result' = result
           \/ /\ clientPc' = [clientPc EXCEPT ![r] = "done"]
              /\ \E what : result' = [result EXCEPT ![r] = what] /\ Own(r, what)
    <3>1. \A what : Own(r, Client!Outcome(what, r)) /\ Own(r, Client!Failed)
      BY DEF Own, Client!Outcome, Client!Failed
    <3>2. CASE Client!DiscoveryEnds(r)
      BY <3>2 DEF Client!DiscoveryEnds
    <3>3. CASE Client!PostEnds(r)
      BY <3>1, <3>3 DEF Client!PostEnds, Client!Returns
    <3>4. CASE Client!Notified(r)
      BY <3>1, <3>4 DEF Client!Notified, Client!Returns
    <3>. QED
      BY <1>6, <3>2, <3>3, <3>4
  <2>2. \E w \in {"posting", "notifying", "done"} : clientPc' = [clientPc EXCEPT ![r] = w]
    BY <2>1
  <2>. QED
    BY <1>5, <2>1, <2>2 DEF ClientStates
<1>7. ASSUME NEW r \in Client!Calls, Client!FutureReady(r) PROVE ClientIInv'
  <2>1. /\ clientPc[r] = "waiting" /\ clientPromise[r] # Client!Nothing
        /\ clientPc' = [clientPc EXCEPT ![r] = "done"]
        /\ result' = [result EXCEPT ![r] = clientPromise[r]]
        /\ UNCHANGED <<clientNextId, clientId, clientPending, clientPromise, taken, toServer,
                       fromServer>>
    BY <1>7 DEF Client!FutureReady, Client!Returns
  <2>2. Own(r, clientPromise[r])
    BY DEF AnswersOwned
  <2>. QED
    BY <1>5, <2>1, <2>2 DEF ClientStates
<1>8. ASSUME NEW r \in Client!Calls, Client!WriteEnds(r) PROVE ClientIInv'
  <2>. DEFINE line == [id |-> clientId[r], call |-> r]
  <2>1. clientPc[r] = "writing" /\ clientId[r] # 0 /\ clientId[r] \in Nat
    BY <1>8 DEF Client!WriteEnds, ClientTable
  <2>2. CASE /\ toServer' = Append(toServer, line)
             /\ clientPc' = [clientPc EXCEPT ![r] = "waiting"]
             /\ UNCHANGED <<clientNextId, clientId, clientPending, clientPromise, result, taken,
                            fromServer>>
    <3>1. ClientTable'
      BY <2>1, <2>2, ClientGoesOn DEF ClientStates
    <3>2. AnswersOwned'
      BY <2>2 DEF AnswersOwned
    <3>3. line \in [id : Nat, call : Client!Calls] /\ OwnLine(line)
      BY <2>1, <2>2 DEF OwnLine
    <3>4. LinesOwned'
      <4>. HIDE DEF line
      <4>1. toServer' \in Seq([id : Nat, call : Client!Calls])
        BY <2>2, <3>3 DEF LinesOwned
      <4>2. ASSUME NEW i \in 1 .. Len(toServer') PROVE OwnLine(toServer'[i])
        <5>1. CASE i = Len(toServer) + 1
          BY <2>2, <3>3, <5>1 DEF LinesOwned
        <5>2. CASE i \in 1 .. Len(toServer)
          <6>1. toServer'[i] = toServer[i]
            BY <2>2, <3>3, <5>2 DEF LinesOwned
          <6>. QED
            BY <5>2, <6>1 DEF LinesOwned
        <5>. QED
          BY <2>2, <3>3, <5>1, <5>2 DEF LinesOwned
      <4>. QED
        BY <2>2, <4>1, <4>2 DEF LinesOwned, OwnLine
    <3>. QED
      BY <3>1, <3>2, <3>4 DEF ClientIInv
  <2>3. CASE /\ clientPc' = [clientPc EXCEPT ![r] = "done"]
             /\ result' = [result EXCEPT ![r] = Client!Failed]
             /\ clientPending' = clientPending \ {clientId[r]}
             /\ UNCHANGED <<clientNextId, clientId, clientPromise, toServer, taken, fromServer>>
    <3>1. \A q \in Client!Calls : /\ clientPc'[q] = IF q = r THEN "done" ELSE clientPc[q]
                                  /\ q # r => clientId[q] # clientId[r]
      BY <2>1, <2>3 DEF ClientTable
    <3>2. \A i \in clientPending' : \E q \in Client!Calls :
            clientId[q] = i /\ clientPc'[q] \in {"writing", "waiting"}
      BY <2>3, <3>1 DEF ClientTable
    <3>3. clientPc' \in [Client!Calls -> ClientStates]
      BY <2>3 DEF ClientTable, ClientStates
    <3>4. ClientTable'
      BY <2>3, <3>1, <3>2, <3>3 DEF ClientTable
    <3>5. AnswersOwned'
      BY <2>3 DEF AnswersOwned, Own, Client!Failed, Client!Outcome
    <3>. QED
      BY <1>2, <2>3, <3>4, <3>5 DEF ClientIInv
  <2>. QED
    BY <1>8, <2>2, <2>3 DEF Client!WriteEnds, Client!Returns, Client!Unpended
<1>9. CASE Client!ReaderBegins \/ Client!ReaderEnds \/ Client!OldReaderEnds
  BY <1>1, <1>2, <1>9 DEF Client!ReaderBegins, Client!ReaderEnds, Client!OldReaderEnds, ClientIInv
<1>10. CASE Client!ReaderReads
  <2>. DEFINE line == Head(fromServer)
              key  == Client!Parsed(line)
  <2>1. /\ fromServer # <<>> /\ Client!Deliver(line) /\ fromServer' = Tail(fromServer)
        /\ UNCHANGED <<clientNextId, clientId, clientPc, result, toServer, taken>>
    BY <1>10 DEF Client!ReaderReads
  <2>2. line \in ClientLines /\ (line.as \in {"integer", "string"} => OwnLine(line))
    BY <2>1 DEF LinesOwned
  <2>3. LinesOwned'
    BY <2>1 DEF LinesOwned, OwnLine
  <2>4. ClientTable' /\ AnswersOwned'
    <3>1. CASE key \in clientPending
      <4>1. key # 0
        BY <3>1 DEF ClientTable
      <4>2. line.as \in {"integer", "string"} /\ key = line.id
        BY <2>2, <4>1 DEF Client!Parsed, ClientLines
      <4>3. /\ clientPending' = clientPending \ {key}
            /\ clientPromise' = [r \in Client!Calls |->
                 IF clientId[r] = key /\ clientPromise[r] = Client!Nothing
                 THEN Client!Outcome(line.what, line.call) ELSE clientPromise[r]]
        BY <2>1, <3>1 DEF Client!Deliver
      <4>. HIDE DEF key
      <4>4. ASSUME NEW r \in Client!Calls, clientId[r] = key
            PROVE  clientPromise'[r] # Client!Nothing /\ Own(r, clientPromise'[r])
        <5>1. clientPromise[r] = Client!Nothing
          BY <3>1, <4>4 DEF ClientTable
        <5>2. r = line.call
          BY <2>2, <4>1, <4>2, <4>4 DEF OwnLine, ClientTable
        <5>3. line.what # "none"
          BY <2>2 DEF ClientLines
        <5>. QED
          BY <4>3, <4>4, <5>1, <5>2, <5>3 DEF Own, Client!Outcome, Client!Nothing
      <4>5. \A r \in Client!Calls : clientId[r] # key => clientPromise'[r] = clientPromise[r]
        BY <4>3
      <4>6. clientPromise' = [r \in Client!Calls |-> clientPromise'[r]]
        BY <4>3
      <4>7. clientPending' = clientPending \ {key} /\ {key} \in SUBSET clientPending
        BY <3>1, <4>3
      <4>. QED
        BY <2>1, <4>4, <4>5, <4>6, <4>7, ClientGiven
    <3>2. CASE key \notin clientPending
      BY <1>1, <2>1, <3>2 DEF Client!Deliver
    <3>. QED
      BY <3>1, <3>2
  <2>. QED
    BY <2>3, <2>4 DEF ClientIInv
<1>11. CASE Client!Close
  <2>1. /\ clientPending' = clientPending \ clientPending
        /\ clientPromise' = [r \in Client!Calls |->
             IF clientId[r] \in clientPending THEN Client!Closed ELSE clientPromise[r]]
        /\ UNCHANGED <<clientNextId, clientId, clientPc, result>>
        /\ toServer' = <<>> /\ taken' = {} /\ fromServer' = <<>>
    BY <1>11 DEF Client!Close, Client!Drained
  <2>2. \A r \in Client!Calls : Client!Closed # Client!Nothing /\ Own(r, Client!Closed)
    BY DEF Client!Closed, Client!Nothing, Client!Outcome, Own
  <2>3. \A r \in Client!Calls : IF clientId[r] \in clientPending
          THEN clientPromise'[r] # Client!Nothing /\ Own(r, clientPromise'[r])
          ELSE clientPromise'[r] = clientPromise[r]
    BY <2>1, <2>2
  <2>4. clientPromise' = [r \in Client!Calls |-> clientPromise'[r]]
    BY <2>1
  <2>5. ClientTable' /\ AnswersOwned'
    BY <2>1, <2>3, <2>4, ClientGiven
  <2>. QED
    BY <2>1, <2>5, LinesStay DEF ClientIInv
<1>12. CASE Client!ServerTakes
  <2>1. ClientTable' /\ AnswersOwned'
    BY <1>1, <1>12 DEF Client!ServerTakes
  <2>2. LinesOwned'
    <3>1. /\ toServer # <<>> /\ taken' = taken \cup {Head(toServer)} /\ toServer' = Tail(toServer)
          /\ UNCHANGED <<clientId, fromServer>>
      BY <1>12 DEF Client!ServerTakes
    <3>2. /\ Head(toServer) \in [id : Nat, call : Client!Calls] /\ OwnLine(Head(toServer))
      <4>1. Head(toServer) = toServer[1] /\ 1 \in 1 .. Len(toServer)
        BY <3>1 DEF LinesOwned
      <4>2. toServer[1] \in [id : Nat, call : Client!Calls]
        <5>. DEFINE S == [id : Nat, call : Client!Calls]
        <5>1. toServer \in Seq(S)
          BY DEF LinesOwned
        <5>. HIDE DEF S
        <5>2. toServer[1] \in S
          BY <4>1, <5>1
        <5>. QED
          BY <5>2 DEF S
      <4>3. OwnLine(toServer[1])
        BY <4>1 DEF LinesOwned
      <4>. QED
        BY <4>1, <4>2, <4>3
    <3>3. /\ toServer' \in Seq([id : Nat, call : Client!Calls])
          /\ \A i \in 1 .. Len(toServer') : OwnLine(toServer'[i])
      BY <3>1 DEF LinesOwned
    <3>. QED
      BY <3>1, <3>2, <3>3 DEF LinesOwned, OwnLine
  <2>. QED
    BY <2>1, <2>2 DEF ClientIInv
<1>13. ASSUME NEW line \in ClientLines, Client!Says(line), taken' \subseteq taken,
              line.as \in {"integer", "string"} => OwnLine(line),
              UNCHANGED <<clientId, toServer>>
       PROVE  LinesOwned'
  <2>1. fromServer' = Append(fromServer, line)
    BY <1>13 DEF Client!Says
  <2>. QED
    BY <1>13, <2>1 DEF LinesOwned, OwnLine
<1>14. CASE Client!ServerAnswers
  <2>1. ClientTable' /\ AnswersOwned'
    BY <1>1, <1>14 DEF Client!ServerAnswers
  <2>2. PICK q \in taken, as \in {"integer", "string"}, what \in {"result", "error"} :
          /\ taken' = taken \ {q}
          /\ Client!Says([id |-> q.id, as |-> as, what |-> what, call |-> q.call])
    BY <1>14 DEF Client!ServerAnswers
  <2>. DEFINE line == [id |-> q.id, as |-> as, what |-> what, call |-> q.call]
  <2>3. q \in [id : Nat, call : Client!Calls] /\ OwnLine(q)
    BY DEF LinesOwned
  <2>4. line \in ClientLines /\ OwnLine(line)
    <3>1. q.id \in Nat /\ q.call \in Nat
      BY <2>3 DEF Client!Calls
    <3>. QED
      BY <2>3, <3>1 DEF OwnLine, ClientLines
  <2>. HIDE DEF line
  <2>5. LinesOwned'
    BY <1>13, <1>14, <2>2, <2>4 DEF Client!ServerAnswers, line
  <2>. QED
    BY <2>1, <2>5 DEF ClientIInv
<1>15. CASE Client!ServerChatters
  <2>1. ClientTable' /\ AnswersOwned'
    BY <1>1, <1>15 DEF Client!ServerChatters
  <2>2. PICK line :
          /\ Client!Says(line)
          /\ \/ line = [id |-> 0, as |-> "none", what |-> "result", call |-> 0]
             \/ \E r \in Client!Calls : /\ clientPromise[r] # Client!Nothing
                                        /\ line = [id |-> clientId[r], as |-> "integer",
                                                   what |-> "result", call |-> r]
    BY <1>15 DEF Client!ServerChatters
  <2>3. line \in ClientLines /\ (line.as \in {"integer", "string"} => OwnLine(line))
    <3>1. CASE line = [id |-> 0, as |-> "none", what |-> "result", call |-> 0]
      BY <3>1 DEF ClientLines
    <3>2. ASSUME NEW r \in Client!Calls, clientPromise[r] # Client!Nothing,
                 line = [id |-> clientId[r], as |-> "integer", what |-> "result", call |-> r]
          PROVE  line \in ClientLines /\ OwnLine(line)
      <4>1. clientId[r] \in Nat \ {0} /\ r \in Nat
        BY <3>2 DEF ClientTable, Client!Calls
      <4>. QED
        BY <3>2, <4>1 DEF ClientLines, OwnLine
    <3>. QED
      BY <2>2, <3>1, <3>2
  <2>4. LinesOwned'
    BY <1>13, <1>15, <2>2, <2>3 DEF Client!ServerChatters
  <2>. QED
    BY <2>1, <2>4 DEF ClientIInv
<1>16. CASE Client!ServerDies
  BY <1>1, <1>16, LinesStay DEF Client!ServerDies, ClientIInv
<1>17. CASE UNCHANGED clientVars
  BY <1>1, <1>2, <1>17 DEF clientVars, ClientIInv
<1>. QED
  BY <1>3, <1>4, <1>6, <1>7, <1>8, <1>9, <1>10, <1>11, <1>12, <1>14, <1>15, <1>16, <1>17
  DEF Client!Next, Client!CallGoesOn, Client!ReaderLoop, Client!Server

(***************************************************************************)
(* An answer is the answer to what was asked: of the editor, of an MCP     *)
(* server, and of the agent's own (acp_server.h, mcp_client.h,             *)
(* mcp_server.h).                                                          *)
(***************************************************************************)
THEOREM OwnAnswersCorrect == PeersSpec => []OwnAnswers
<1>. DEFINE Inv == /\ peer = "client" => ClientIInv
                   /\ peer = "serving" => ServingIInv
                   /\ peer = "outbound" => OutboundIInv
<1>1. PeersInit => Inv
  BY ClientInit, ServingInit, OutboundInit DEF PeersInit
<1>2. Inv /\ [PeersNext]_peersVars => Inv'
  <2>. SUFFICES ASSUME Inv, [PeersNext]_peersVars PROVE Inv'
    OBVIOUS
  <2>1. peer = "client" => ClientIInv'
    BY PeersStep, ClientStep
  <2>2. peer = "serving" => ServingIInv'
    BY PeersStep, ServingStep
  <2>3. peer = "outbound" => OutboundIInv'
    BY PeersStep, OutboundStep
  <2>. QED
    BY <2>1, <2>2, <2>3, PeersStep
<1>3. Inv => OwnAnswers
  <2>1. ClientIInv => Client!OwnAnswer /\ Client!PromiseKept
    BY DEF ClientIInv, ClientTable, AnswersOwned, Own, Client!OwnAnswer, Client!PromiseKept
  <2>2. ServingIInv => Serving!AnswersMatch /\ Serving!CallSeesRegistry
    BY DEF ServingIInv
  <2>3. OutboundIInv => Outbound!OwnAnswerAndNoEntry
    BY DEF OutboundIInv, NoEntry, EditorThreads, Outbound!OwnAnswerAndNoEntry
  <2>. QED
    BY <2>1, <2>2, <2>3, VersionNegotiated DEF OwnAnswers
<1>. QED
  BY <1>1, <1>2, <1>3, PTL DEF PeersSpec
=============================================================================
