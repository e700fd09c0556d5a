------------------------ MODULE FraudPipelineProofs ------------------------
(***************************************************************************)
(* What FraudPipeline guarantees for every value of its constants.         *)
(***************************************************************************)
EXTENDS FraudPipeline, TLAPS

-----------------------------------------------------------------------------
(* Type correctness *)

(* Once a row is encrypted its number is known to be one of the CSV's. *)
InRow       == {"unlink", "lookup", "record", "replay", "decrypt"}
RowsInRange == \A p \in Runners : pc[p] \in InRow => Row(p) \in Rows

ControlOK ==
    /\ pc       \in [Runners -> PC]
    /\ job      \in [Runners -> Job \cup {NoJob}]
    /\ \A p \in Runners : job[p] = NoJob <=> pc[p] = "idle"
    /\ at       \in [Runners -> Nat \ {0}]
    /\ loaded   \in [Runners -> EvalPair \cup {Absent}]
    /\ \A p \in Runners : pc[p] = "record" => loaded[p] # Absent
    /\ status   \in [Runners -> {"none", "running", "ok", "disagree", "failed"}]
    /\ launched \in 0..MaxRuns
    /\ RowsInRange

KeysOK   == keys   \in [Instances -> [KeyFiles -> Gen \cup {Absent, Torn}]]
StagedOK == staged \in [Instances -> Cipher \cup {Absent, Torn}]
ResultOK == result \in [Instances -> [Rows -> Answer \cup {Absent, Torn}]]
CsvOK    == csv    \in [Instances -> Seq(Line)]
CacheOK  == cache  \in [Settings -> Trace \cup {NoTrace}]
FaultsOK == faults \in 0..MaxFaults

TypeInv ==
    ControlOK /\ KeysOK /\ StagedOK /\ ResultOK /\ CsvOK /\ CacheOK /\ FaultsOK

LEMMA TypeInvImpliesTypeOK == TypeInv <=> TypeOK /\ RowsInRange
BY DEF TypeInv, TypeOK, ControlOK, KeysOK, StagedOK, ResultOK, CsvOK, CacheOK, FaultsOK

LEMMA InitTypeInv == Init => TypeInv
BY PipelineAssumption
   DEF Init, TypeInv, ControlOK, KeysOK, StagedOK, ResultOK, CsvOK, CacheOK, FaultsOK,
       RowsInRange, InRow, PC, NoKeys, NoResults

(* A runner that is not idle has a job, and its parts have their types. *)
LEMMA ActiveJob ==
    ASSUME ControlOK, NEW p \in Runners, pc[p] # "idle"
    PROVE  /\ job[p] \in Job
           /\ Dir(p) \in Instances /\ Setting(p) \in Settings
           /\ job[p].run \in Run /\ job[p].rows \in RowLists /\ job[p].rows \in Seq(Nat)
BY PipelineAssumption DEF ControlOK, Job, Dir, Setting

(* Leaving a run keeps the control variables' types, whatever the files hold. *)
LEMMA ExitTypes ==
    ASSUME ControlOK, NEW p \in Runners, NEW how \in {"ok", "disagree", "failed"}, Exit(p, how)
    PROVE  ControlOK'
BY DEF Exit, ControlOK, RowsInRange, InRow, PC, Row

(* So does moving to another step of the same run at the same row. *)
LEMMA GotoTypes ==
    ASSUME ControlOK, NEW p \in Runners, NEW label \in PC \ {"idle", "record"},
           pc[p] # "idle", Goto(p, label), at' = at, loaded' = loaded,
           label \in InRow => Row(p) \in Rows
    PROVE  ControlOK'
BY DEF Goto, ControlOK, RowsInRange, InRow, PC, Row

LEMMA StartTypes ==
    ASSUME TypeInv, NEW p \in Runners, Start(p)
    PROVE  TypeInv'
<1> USE DEF TypeInv
<1>1. PICK i \in Instances, s \in Settings, l \in RowLists, keep \in KeepFlags :
         /\ SharedDirs \/ ~InUse(i)
         /\ job' = [job EXCEPT ![p] =
                      [dir |-> i, setting |-> s, rows |-> l, run |-> launched + 1]]
         /\ pc'  = [pc EXCEPT ![p] =
                      IF keep /\ keys[i]["cc"] # Absent THEN "drop" ELSE "wipe"]
  BY DEF Start
<1>2. [dir |-> i, setting |-> s, rows |-> l, run |-> launched + 1] \in Job
  BY PipelineAssumption DEF Start, Job, Run, ControlOK
<1>3. /\ pc' \in [Runners -> PC] /\ pc'[p] \in {"wipe", "drop"}
      /\ \A q \in Runners \ {p} : pc'[q] = pc[q] /\ job'[q] = job[q]
      /\ job' \in [Runners -> Job \cup {NoJob}] /\ job'[p] # NoJob
      /\ pc[p] = "idle" /\ at' = at /\ loaded' = loaded /\ launched' \in 0..MaxRuns
      /\ status' \in [Runners -> {"none", "running", "ok", "disagree", "failed"}]
  BY <1>1, <1>2, PipelineAssumption DEF Start, ControlOK, PC
<1>4. ControlOK'
  BY <1>3 DEF ControlOK, RowsInRange, InRow, Row
<1> QED
  BY <1>4 DEF Start, KeysOK, StagedOK, ResultOK, CsvOK, CacheOK, FaultsOK

LEMMA StepTypes ==
    ASSUME TypeInv, NEW p \in Runners, Step(p)
    PROVE  TypeInv'
<1> USE DEF TypeInv
<1>0. pc[p] # "idle"
  BY DEF Step, WipeIoDir, ClearTraces, Keygen, DropResults, Encrypt, UnlinkResult, LookUp,
         Record, Replay, ReplayLost, Decrypt, DecryptThrows, Summarize, Check, StageFails,
         Stuck, KeyFiles
<1>j. /\ job[p] \in Job
      /\ Dir(p) \in Instances /\ Setting(p) \in Settings
      /\ job[p].run \in Run /\ job[p].rows \in Seq(Nat)
  BY <1>0, ActiveJob
<1>r. pc[p] \in InRow => Row(p) \in Rows
  BY DEF ControlOK, RowsInRange
<1>1. CASE WipeIoDir(p)
  <2>1. ControlOK'
    BY <1>1, <1>0, GotoTypes DEF WipeIoDir, PC, InRow
  <2> QED
    BY <1>1, <1>j, <2>1 DEF WipeIoDir, Goto, KeysOK, StagedOK, ResultOK, CsvOK, CacheOK,
       FaultsOK, NoKeys, NoResults
<1>2. CASE ClearTraces(p)
  <2>1. ControlOK'
    BY <1>2, <1>0, GotoTypes DEF ClearTraces, PC, InRow, KeyFiles
  <2> QED
    BY <1>2, <1>j, <2>1 DEF ClearTraces, Goto, KeysOK, StagedOK, ResultOK, CsvOK, CacheOK,
       FaultsOK, Cleared
<1>3. CASE Keygen(p)
  <2>1. AfterKeyFile[pc[p]] \in (PC \ {"idle"}) \ InRow
    BY <1>3 DEF Keygen, KeyFiles, AfterKeyFile, PC, InRow
  <2>2. ControlOK'
    BY <1>3, <1>0, <2>1, GotoTypes DEF Keygen, InRow
  <2> QED
    BY <1>3, <1>j, <2>2 DEF Keygen, Goto, KeysOK, StagedOK, ResultOK, CsvOK, CacheOK,
       FaultsOK, Gen
<1>4. CASE DropResults(p)
  <2>1. ControlOK'
    BY <1>4, <1>0, GotoTypes DEF DropResults, FirstRow, PC, InRow, Loop, Ending
  <2> QED
    BY <1>4, <1>j, <2>1 DEF DropResults, FirstRow, Goto, KeysOK, StagedOK, ResultOK, CsvOK,
       CacheOK, FaultsOK
<1>5. CASE Encrypt(p)
  <2>1. ControlOK'
    BY <1>5, <1>0, GotoTypes DEF Encrypt, CanEncrypt, PC, InRow, Loop, Ending
  <2>2. Enciphered(p) \in Cipher
    BY <1>5, <1>j DEF Encrypt, CanEncrypt, Loads, Readable, Enciphered, Cipher, KeysOK,
       KeyFiles, Plain, Tx
  <2> QED
    BY <1>5, <1>j, <2>1, <2>2 DEF Encrypt, Goto, KeysOK, StagedOK, ResultOK, CsvOK,
       CacheOK, FaultsOK
<1>6. CASE UnlinkResult(p)
  <2>1. ControlOK'
    BY <1>6, <1>0, <1>r, GotoTypes DEF UnlinkResult, PC, InRow, Loop, Ending
  <2> QED
    BY <1>6, <1>j, <2>1 DEF UnlinkResult, Goto, KeysOK, StagedOK, ResultOK, CsvOK, CacheOK,
       FaultsOK
<1>7. CASE LookUp(p)
  <2>1. EvalKeys(p) \in EvalPair /\ Absent \notin EvalPair
    BY <1>7, <1>j, PipelineAssumption DEF LookUp, CanLoad, Loads, Readable, EvalKeys,
       EvalPair, KeysOK, KeyFiles
  <2>2. ControlOK'
    BY <1>7, <1>r, <2>1 DEF LookUp, Goto, ControlOK, RowsInRange, InRow, PC, Loop, Ending, Row
  <2> QED
    BY <1>7, <2>2 DEF LookUp, Goto, KeysOK, StagedOK, ResultOK, CsvOK, CacheOK, FaultsOK
<1>8. CASE Record(p)
  <2>1. ControlOK'
    BY <1>8, <1>r DEF Record, Goto, ControlOK, RowsInRange, InRow, PC, Loop, Ending, Row
  <2>2. loaded[p] \in EvalPair
    BY <1>8 DEF Record, ControlOK
  <2> QED
    BY <1>8, <1>j, <2>1, <2>2 DEF Record, Goto, KeysOK, StagedOK, ResultOK, CsvOK, CacheOK,
       FaultsOK, Trace, EvalPair
<1>9. CASE Replay(p)
  <2>1. ControlOK'
    BY <1>9, <1>0, <1>r, GotoTypes DEF Replay, PC, InRow, Loop, Ending
  <2> QED
    BY <1>9, <1>j, <2>1 DEF Replay, Goto, KeysOK, StagedOK, ResultOK, CsvOK, CacheOK,
       FaultsOK, CanReplay, Recorded, Readable, Evaluate, Answer, Cipher, Trace, Plain
<1>10. CASE ReplayLost(p)
  <2>1. ControlOK'
    BY <1>10, <1>0, <1>r, GotoTypes DEF ReplayLost, PC, InRow, Loop, Ending
  <2> QED
    BY <1>10, <2>1 DEF ReplayLost, Goto, KeysOK, StagedOK, ResultOK, CsvOK, CacheOK, FaultsOK
<1>11. CASE Decrypt(p)
  <2>1. ControlOK'
    BY <1>11, <1>0, <1>j DEF Decrypt, Goto, ControlOK, RowsInRange, InRow, PC, Loop, Ending,
       Ending, Row
  <2>2. Row(p) \in Rows
    BY <1>11, <1>r DEF Decrypt, InRow
  <2>3. [row |-> Row(p), tx |-> Decrypted(result[Dir(p)][Row(p)], keys[Dir(p)]["sk"]),
         run |-> result[Dir(p)][Row(p)].run] \in Line
    BY <1>11, <1>j, <2>2 DEF Decrypt, CanDecrypt, Readable, Decrypted, ResultOK, Answer,
       Line, Plain
  <2> QED
    BY <1>11, <1>j, <2>1, <2>3 DEF Decrypt, Goto, KeysOK, StagedOK, ResultOK, CsvOK,
       CacheOK, FaultsOK
<1>12. CASE Summarize(p)
  <2>1. ControlOK'
    <3>1. CASE csv[Dir(p)] = <<>>
      BY <1>12, <3>1, ExitTypes DEF Summarize
    <3>2. CASE csv[Dir(p)] # <<>>
      BY <1>12, <1>0, <3>2, GotoTypes DEF Summarize, PC, InRow, Ending
    <3> QED
      BY <3>1, <3>2
  <2> QED
    BY <1>12, <2>1 DEF Summarize, Goto, KeysOK, StagedOK, ResultOK, CsvOK, CacheOK, FaultsOK
<1>13. CASE DecryptThrows(p) \/ Check(p) \/ StageFails(p)
  <2>1. ControlOK'
    BY <1>13, ExitTypes DEF DecryptThrows, Check, StageFails
  <2> QED
    BY <1>13, <2>1 DEF DecryptThrows, Check, StageFails, KeysOK, StagedOK, ResultOK, CsvOK,
       CacheOK, FaultsOK
<1> QED
  BY <1>1, <1>2, <1>3, <1>4, <1>5, <1>6, <1>7, <1>8, <1>9, <1>10, <1>11, <1>12, <1>13
     DEF Step

LEMMA CutShortTypes ==
    ASSUME TypeInv, NEW p \in Runners, CutShort(p)
    PROVE  TypeInv'
<1> USE DEF TypeInv
<1>0. pc[p] # "idle" /\ Fault(p)
  BY DEF CutShort, AbortClean, KillInWipe, KillInClear, KillInKeygen, KillInEncrypt,
         KillInReplay, KeyFiles
<1>j. Dir(p) \in Instances /\ job[p].run \in Run
  BY <1>0, ActiveJob
<1>c. ControlOK' /\ FaultsOK'
  BY <1>0, ExitTypes, PipelineAssumption DEF Fault, FaultsOK
<1>1. CASE AbortClean(p)
  BY <1>1, <1>c DEF AbortClean, KeysOK, StagedOK, ResultOK, CsvOK, CacheOK
<1>2. CASE KillInWipe(p)
  <2> DEFINE left(R) == [r \in Rows |-> IF r \in R THEN result[Dir(p)][r] ELSE Absent]
  <2>1. PICK F \in SUBSET KeyFiles, st \in {staged[Dir(p)], Absent}, R \in SUBSET Rows,
             cs \in {csv[Dir(p)], <<>>} :
          /\ keys'   = [keys EXCEPT ![Dir(p)] =
                          [f \in KeyFiles |-> IF f \in F THEN keys[Dir(p)][f] ELSE Absent]]
          /\ staged' = [staged EXCEPT ![Dir(p)] = st]
          /\ result' = [result EXCEPT ![Dir(p)] = left(R)]
          /\ csv'    = [csv EXCEPT ![Dir(p)] = cs]
    BY <1>2 DEF KillInWipe
  <2>2. KeysOK' /\ StagedOK'
    BY <1>j, <2>1 DEF KeysOK, StagedOK
  <2>3. left(R) \in [Rows -> Answer \cup {Absent, Torn}]
    BY <1>j DEF ResultOK
  <2>4. cs \in Seq(Line)
    <3>1. CASE cs = csv[Dir(p)]
      BY <1>j, <3>1 DEF CsvOK
    <3>2. CASE cs = <<>>
      BY <3>2
    <3> QED
      BY <3>1, <3>2
  <2> HIDE DEF left
  <2>5. ResultOK' /\ CsvOK'
    BY <1>j, <2>1, <2>3, <2>4 DEF ResultOK, CsvOK
  <2> QED
    BY <1>2, <1>c, <2>2, <2>5 DEF KillInWipe, CacheOK
<1>3. CASE KillInClear(p)
  BY <1>3, <1>c DEF KillInClear, Cleared, KeysOK, StagedOK, ResultOK, CsvOK, CacheOK
<1>4. CASE KillInKeygen(p)
  BY <1>4, <1>c, <1>j DEF KillInKeygen, KeysOK, StagedOK, ResultOK, CsvOK, CacheOK
<1>5. CASE KillInEncrypt(p)
  BY <1>5, <1>c, <1>j DEF KillInEncrypt, KeysOK, StagedOK, ResultOK, CsvOK, CacheOK
<1>6. CASE KillInReplay(p)
  BY <1>6, <1>c, <1>j DEF KillInReplay, KeysOK, StagedOK, ResultOK, CsvOK, CacheOK
<1> QED
  BY <1>1, <1>2, <1>3, <1>4, <1>5, <1>6 DEF CutShort

LEMMA HandKeygenTypes ==
    ASSUME TypeInv, NEW i \in Instances, KeygenByHand(i)
    PROVE  TypeInv'
<1>1. launched + 1 \in Gen /\ launched' \in 0..MaxRuns
  BY PipelineAssumption DEF KeygenByHand, TypeInv, ControlOK, Gen, Run
<1>2. KeysOK'
  BY <1>1 DEF KeygenByHand, TypeInv, KeysOK
<1> QED
  BY <1>1, <1>2 DEF KeygenByHand, TypeInv, ControlOK, RowsInRange, Row, KeysOK, StagedOK,
     ResultOK, CsvOK, CacheOK, FaultsOK

LEMMA TypeInvStep == TypeInv /\ [Next]_vars => TypeInv'
<1> SUFFICES ASSUME TypeInv, [Next]_vars PROVE TypeInv'
  OBVIOUS
<1>1. CASE UNCHANGED vars
  BY <1>1 DEF vars, TypeInv, ControlOK, RowsInRange, Row, KeysOK, StagedOK, ResultOK, CsvOK,
     CacheOK, FaultsOK
<1>2. CASE Next
  BY <1>1, <1>2, StartTypes, StepTypes, CutShortTypes, HandKeygenTypes DEF Next, Finished
<1> QED
  BY <1>1, <1>2

(* Every reachable state has the declared types: no action stages, records, *)
(* scores or truncates anything but the files the harness names.            *)
THEOREM TypeCorrect == Spec => []TypeOK
<1>1. Spec => []TypeInv
  BY InitTypeInv, TypeInvStep, PTL DEF Spec
<1> QED
  BY <1>1, TypeInvImpliesTypeOK, PTL

-----------------------------------------------------------------------------
(* A run and its results.csv, when no two runs share an io-dir *)

Exclusive == SharedDirs = FALSE \/ \A p, q \in Runners : p = q

Setup == {"wipe", "clear", "drop"} \cup KeyFiles

SoleUser ==
    \A p, q \in Runners :
        pc[p] # "idle" /\ pc[q] # "idle" /\ Dir(p) = Dir(q) => p = q

(* results.csv holds the first n rows of the list, all answered by this run. *)
LinesSoFar(p, n) ==
    /\ Len(csv[Dir(p)]) = n
    /\ \A m \in 1..n : /\ csv[Dir(p)][m].row = job[p].rows[m]
                       /\ csv[Dir(p)][m].run = job[p].run

Progress(p) ==
    /\ pc[p] \in Setup \cup {"idle"} => at[p] = 1
    /\ pc[p] \in Loop => at[p] <= Len(job[p].rows) /\ LinesSoFar(p, at[p] - 1)
    /\ pc[p] \in Ending => LinesSoFar(p, Len(job[p].rows))
    /\ pc[p] = "check" => csv[Dir(p)] # <<>>

(* A result that decrypt can find was written by this run: the older one is  *)
(* gone before the compute stage starts.                                     *)
FreshResult(p) ==
    /\ pc[p] \in {"lookup", "record", "replay"} => result[Dir(p)][Row(p)] = Absent
    /\ pc[p] = "decrypt" /\ Readable(result[Dir(p)][Row(p)]) =>
         result[Dir(p)][Row(p)].run = job[p].run

RunInv == TypeInv /\ SoleUser /\ \A p \in Runners : Progress(p) /\ FreshResult(p)

LEMMA InitRunInv == Init => RunInv
BY InitTypeInv
   DEF Init, RunInv, SoleUser, Progress, FreshResult, Setup, Loop, Ending, KeyFiles

(* What one runner does leaves the others' control and files alone. *)
LEMMA Frame ==
    ASSUME TypeInv, NEW p \in Runners, Step(p) \/ CutShort(p)
    PROVE  /\ pc[p] # "idle"
           /\ \A q \in Runners \ {p} :
                pc'[q] = pc[q] /\ job'[q] = job[q] /\ at'[q] = at[q] /\ status'[q] = status[q]
           /\ \A i \in Instances \ {Dir(p)} :
                /\ csv'[i] = csv[i] /\ result'[i] = result[i]
                /\ keys'[i] = keys[i] /\ staged'[i] = staged[i]
           /\ launched' = launched
           /\ job'[p] = job[p] \/ (pc'[p] = "idle" /\ job'[p] = NoJob /\ at'[p] = 1)
<1> USE DEF TypeInv, ControlOK, KeysOK, StagedOK, ResultOK, CsvOK
<1>1. CASE Step(p)
  BY <1>1 DEF Step, WipeIoDir, ClearTraces, Keygen, DropResults, FirstRow, Encrypt,
     UnlinkResult, LookUp, Record, Replay, ReplayLost, Decrypt, DecryptThrows, Summarize, Check,
     StageFails, Stuck, Goto, Exit, KeyFiles
<1>2. CASE CutShort(p)
  BY <1>2 DEF CutShort, AbortClean, KillInWipe, KillInClear, KillInKeygen, KillInEncrypt,
     KillInReplay, Fault, Exit, KeyFiles
<1> QED
  BY <1>1, <1>2

LEMMA SoleUserStep ==
    ASSUME RunInv, NEW p \in Runners, Step(p) \/ CutShort(p)
    PROVE  SoleUser'
<1>1. \A q \in Runners : pc'[q] # "idle" => pc[q] # "idle" /\ job'[q] = job[q]
  BY Frame DEF RunInv
<1> QED
  BY <1>1 DEF RunInv, SoleUser, Dir

LEMMA OthersProgress ==
    ASSUME RunInv, NEW p \in Runners, Step(p) \/ CutShort(p), NEW q \in Runners \ {p}
    PROVE  Progress(q)' /\ FreshResult(q)'
<1>1. /\ pc'[q] = pc[q] /\ job'[q] = job[q] /\ at'[q] = at[q]
  BY Frame DEF RunInv
<1>2. CASE pc[q] = "idle"
  BY <1>1, <1>2 DEF RunInv, Progress, FreshResult, Setup, Loop, Ending, KeyFiles
<1>3. CASE pc[q] # "idle"
  <2>1. Dir(q) \in Instances \ {Dir(p)}
    BY <1>3, Frame, ActiveJob DEF RunInv, SoleUser, TypeInv
  <2>2. csv'[Dir(q)] = csv[Dir(q)] /\ result'[Dir(q)] = result[Dir(q)]
    BY <2>1, Frame DEF RunInv
  <2>3. Dir(q)' = Dir(q) /\ Row(q)' = Row(q)
    BY <1>1 DEF Dir, Row
  <2> QED
    BY <1>1, <2>2, <2>3 DEF RunInv, Progress, FreshResult, LinesSoFar
<1> QED
  BY <1>2, <1>3

(* The run that moves: its lines follow its list, its result is its own. *)
LEMMA OwnProgress ==
    ASSUME RunInv, NEW p \in Runners, Step(p)
    PROVE  Progress(p)' /\ FreshResult(p)'
<1> USE DEF RunInv
<1>0. pc[p] # "idle"
  BY Frame
<1>j. Dir(p) \in Instances /\ job[p].rows \in Seq(Nat) /\ job[p].run \in Run
  BY <1>0, ActiveJob DEF TypeInv
<1>t. /\ pc \in [Runners -> PC] /\ at \in [Runners -> Nat \ {0}]
      /\ job \in [Runners -> Job \cup {NoJob}]
      /\ CsvOK /\ ResultOK
      /\ pc[p] \in InRow => Row(p) \in Rows
  BY DEF TypeInv, ControlOK, RowsInRange
<1>i. Progress(p) /\ FreshResult(p)
  OBVIOUS
<1> DEFINE Moves(label) ==
      /\ pc'[p] = label /\ job'[p] = job[p] /\ Dir(p)' = Dir(p)
<1>g. ASSUME NEW label, Goto(p, label) PROVE Moves(label)
  BY <1>g, <1>t DEF Goto, Dir
<1>s. ASSUME at' = at, job'[p] = job[p] PROVE Row(p)' = Row(p) /\ at'[p] = at[p]
  BY <1>s DEF Row
<1> HIDE DEF RunInv
<1>1. CASE WipeIoDir(p)
  BY <1>1, <1>g, <1>i DEF WipeIoDir, Progress, FreshResult, Setup, Loop, Ending, KeyFiles
<1>2. CASE ClearTraces(p)
  BY <1>2, <1>g, <1>i DEF ClearTraces, Progress, FreshResult, Setup, Loop, Ending, KeyFiles
<1>3. CASE Keygen(p)
  <2>1. AfterKeyFile[pc[p]] \in Setup
    BY <1>3 DEF Keygen, KeyFiles, AfterKeyFile, Setup
  <2> QED
    BY <1>3, <1>g, <1>i, <2>1 DEF Keygen, Progress, FreshResult, Setup, Loop, Ending, KeyFiles
<1>4. CASE DropResults(p)
  <2>1. csv'[Dir(p)] = <<>> /\ at'[p] = 1
    BY <1>4, <1>i, <1>j, <1>t DEF DropResults, Progress, Setup, CsvOK
  <2>2. CASE job[p].rows = <<>>
    BY <1>4, <1>g, <2>1, <2>2 DEF DropResults, FirstRow, Progress, FreshResult, LinesSoFar,
       Setup, Loop, Ending, KeyFiles
  <2>3. CASE job[p].rows # <<>>
    <3>1. Len(job[p].rows) >= 1
      BY <1>j, <2>3
    <3> QED
      BY <1>4, <1>g, <2>1, <2>3, <3>1 DEF DropResults, FirstRow, Progress, FreshResult,
         LinesSoFar, Setup, Loop, Ending, KeyFiles
  <2> QED
    BY <2>2, <2>3
<1>5. CASE Encrypt(p)
  BY <1>5, <1>g, <1>s, <1>i DEF Encrypt, Progress, FreshResult, LinesSoFar, Setup, Loop, Ending,
     KeyFiles
<1>6. CASE UnlinkResult(p)
  <2>1. result'[Dir(p)][Row(p)] = Absent
    BY <1>6, <1>j, <1>t DEF UnlinkResult, ResultOK, InRow
  <2> QED
    BY <1>6, <1>g, <1>s, <1>i, <2>1 DEF UnlinkResult, Progress, FreshResult, LinesSoFar,
       Setup, Loop, Ending, KeyFiles
<1>7. CASE LookUp(p)
  BY <1>7, <1>g, <1>s, <1>i DEF LookUp, Progress, FreshResult, LinesSoFar, Setup, Loop, Ending,
     KeyFiles
<1>8. CASE Record(p)
  BY <1>8, <1>g, <1>s, <1>i DEF Record, Progress, FreshResult, LinesSoFar, Setup, Loop, Ending,
     KeyFiles
<1>9. CASE Replay(p)
  <2>1. result'[Dir(p)][Row(p)].run = job[p].run
    BY <1>9, <1>j, <1>t DEF Replay, ResultOK, InRow
  <2> QED
    BY <1>9, <1>g, <1>s, <1>i, <2>1 DEF Replay, Progress, FreshResult, LinesSoFar, Setup,
       Loop, Ending, KeyFiles
<1>10. CASE ReplayLost(p)
  BY <1>10, <1>g, <1>s, <1>i DEF ReplayLost, Progress, FreshResult, LinesSoFar, Setup, Loop,
     Ending,
     KeyFiles, Readable
<1>11. CASE Decrypt(p)
  <2> DEFINE a == result[Dir(p)][Row(p)]
             new == [row |-> Row(p), tx |-> Decrypted(a, keys[Dir(p)]["sk"]), run |-> a.run]
             n == at[p]
  <2>1. csv'[Dir(p)] = Append(csv[Dir(p)], new)
    BY <1>11, <1>j, <1>t DEF Decrypt, CsvOK
  <2>2. csv[Dir(p)] \in Seq(Line)
    BY <1>j, <1>t DEF CsvOK
  <2>3. n <= Len(job[p].rows) /\ LinesSoFar(p, n - 1) /\ n \in Nat \ {0}
    BY <1>11, <1>i, <1>t DEF Decrypt, Progress, Loop, Ending
  <2>4. new.row = job[p].rows[n] /\ new.run = job[p].run
    BY <1>11, <1>i DEF Decrypt, CanDecrypt, FreshResult, Row
  <2>5. Len(csv'[Dir(p)]) = n /\ csv'[Dir(p)][n] = new
        /\ \A m \in 1..(n - 1) : csv'[Dir(p)][m] = csv[Dir(p)][m]
    BY <2>1, <2>2, <2>3 DEF LinesSoFar
  <2>6. \A m \in 1..n : /\ csv'[Dir(p)][m].row = job[p].rows[m]
                        /\ csv'[Dir(p)][m].run = job[p].run
    <3> TAKE m \in 1..n
    <3> HIDE DEF new
    <3>1. CASE m = n
      BY <2>4, <2>5, <3>1
    <3>2. CASE m # n
      <4>1. m \in 1..(n - 1)
        BY <3>2, <2>3
      <4> QED
        BY <4>1, <2>3, <2>5 DEF LinesSoFar
    <3> QED
      BY <3>1, <3>2
  <2>7. at'[p] = n + 1
    BY <1>11, <1>t DEF Decrypt
  <2>8. CASE MoreRows(p)
    <3>1. Moves("encrypt")
      BY <1>11, <1>g, <2>8 DEF Decrypt
    <3>2. n + 1 <= Len(job[p].rows) /\ (n + 1) - 1 = n
      BY <2>3, <2>8, <1>j DEF MoreRows
    <3> QED
      BY <2>7, <3>1, <3>2, <2>5, <2>6 DEF Progress, FreshResult, LinesSoFar, Setup, Loop,
         Ending,
         KeyFiles
  <2>9. CASE ~MoreRows(p)
    <3>1. Moves("summary")
      BY <1>11, <1>g, <2>9 DEF Decrypt
    <3>2. n = Len(job[p].rows)
      BY <2>3, <2>9, <1>j DEF MoreRows
    <3> QED
      BY <3>1, <3>2, <2>5, <2>6 DEF Progress, FreshResult, LinesSoFar, Setup, Loop, Ending,
         KeyFiles
  <2> QED
    BY <2>8, <2>9
<1>12. CASE Summarize(p)
  <2>1. CASE csv[Dir(p)] = <<>>
    <3>1. pc'[p] = "idle" /\ at'[p] = 1
      BY <1>12, <1>t, <2>1 DEF Summarize, Exit
    <3> QED
      BY <3>1 DEF Progress, FreshResult, Setup, Loop, Ending, KeyFiles
  <2>2. CASE csv[Dir(p)] # <<>>
    <3>1. Moves("check") /\ csv' = csv
      BY <1>12, <1>g, <2>2 DEF Summarize
    <3>2. LinesSoFar(p, Len(job[p].rows))'
      BY <1>12, <1>i, <3>1 DEF Summarize, Progress, Ending, LinesSoFar
    <3> QED
      BY <2>2, <3>1, <3>2 DEF Progress, FreshResult, Setup, Loop, Ending, KeyFiles
  <2> QED
    BY <2>1, <2>2
<1>13. CASE DecryptThrows(p) \/ Check(p) \/ StageFails(p)
  <2>1. pc'[p] = "idle" /\ at'[p] = 1
    BY <1>13, <1>t DEF DecryptThrows, Check, StageFails, Exit
  <2> QED
    BY <2>1 DEF Progress, FreshResult, Setup, Loop, Ending, KeyFiles
<1> QED
  BY <1>1, <1>2, <1>3, <1>4, <1>5, <1>6, <1>7, <1>8, <1>9, <1>10, <1>11, <1>12, <1>13
     DEF Step

LEMMA StartRunInv ==
    ASSUME Exclusive, RunInv, NEW p \in Runners, Start(p)
    PROVE  RunInv'
<1>1. PICK i \in Instances, s \in Settings, l \in RowLists, keep \in KeepFlags :
         /\ SharedDirs \/ ~InUse(i)
         /\ job' = [job EXCEPT ![p] =
                      [dir |-> i, setting |-> s, rows |-> l, run |-> launched + 1]]
         /\ pc'  = [pc EXCEPT ![p] =
                      IF keep /\ keys[i]["cc"] # Absent THEN "drop" ELSE "wipe"]
  BY DEF Start
<1>2. /\ pc[p] = "idle" /\ pc'[p] \in {"wipe", "drop"} /\ Dir(p)' = i
      /\ \A q \in Runners \ {p} : pc'[q] = pc[q] /\ job'[q] = job[q] /\ Dir(q)' = Dir(q)
      /\ UNCHANGED <<at, csv, result>>
  BY <1>1 DEF Start, RunInv, TypeInv, ControlOK, Dir
<1>3. SharedDirs = FALSE => \A q \in Runners : pc[q] # "idle" => Dir(q) # i
  BY <1>1 DEF InUse
<1>4. SoleUser'
  <2>1. CASE SharedDirs = FALSE
    BY <1>2, <1>3, <2>1 DEF RunInv, SoleUser
  <2>2. CASE \A q, r \in Runners : q = r
    BY <2>2 DEF SoleUser
  <2> QED
    BY <2>1, <2>2 DEF Exclusive
<1>5. ASSUME NEW q \in Runners PROVE Progress(q)' /\ FreshResult(q)'
  <2>1. CASE q = p
    BY <1>2, <2>1 DEF RunInv, Progress, FreshResult, Setup, Loop, Ending, KeyFiles
  <2>2. CASE q # p
    <3>1. Row(q)' = Row(q)
      BY <1>2, <2>2 DEF Row
    <3> QED
      BY <1>2, <2>2, <3>1 DEF RunInv, Progress, FreshResult, LinesSoFar
  <2> QED
    BY <2>1, <2>2
<1> QED
  BY <1>4, <1>5, StartTypes DEF RunInv

LEMMA RunInvStep ==
    ASSUME Exclusive, RunInv, [Next]_vars
    PROVE  RunInv'
<1>1. CASE UNCHANGED vars
  BY <1>1, TypeInvStep DEF vars, RunInv, SoleUser, Progress, FreshResult, LinesSoFar, Dir, Row
<1>2. ASSUME NEW p \in Runners, Start(p) PROVE RunInv'
  BY <1>2, StartRunInv
<1>3. ASSUME NEW p \in Runners, Step(p) PROVE RunInv'
  BY <1>3, SoleUserStep, OthersProgress, OwnProgress, StepTypes DEF RunInv
<1>4. ASSUME NEW p \in Runners, CutShort(p) PROVE RunInv'
  <2>1. pc'[p] = "idle" /\ at'[p] = 1
    BY <1>4 DEF CutShort, AbortClean, KillInWipe, KillInClear, KillInKeygen, KillInEncrypt,
       KillInReplay, Fault, Exit, RunInv, TypeInv, ControlOK
  <2>2. Progress(p)' /\ FreshResult(p)'
    BY <2>1 DEF Progress, FreshResult, Setup, Loop, Ending, KeyFiles
  <2> QED
    BY <1>4, <2>2, SoleUserStep, OthersProgress, CutShortTypes DEF RunInv
<1>5. ASSUME NEW i \in Instances, KeygenByHand(i) PROVE RunInv'
  BY <1>5, HandKeygenTypes DEF KeygenByHand, RunInv, SoleUser, Progress, FreshResult,
     LinesSoFar, Dir, Row
<1> QED
  BY <1>1, <1>2, <1>3, <1>4, <1>5 DEF Next, Finished

LEMMA RunInvAlways == ASSUME Exclusive PROVE Spec => []RunInv
<1>1. RunInv /\ [Next]_vars => RunInv'
  BY RunInvStep
<1> QED
  BY <1>1, InitRunInv, PTL DEF Spec

(* As long as no two runs share an io-dir, no line of results.csv comes from *)
(* a result an earlier run left: however many runs, datasets, settings and   *)
(* faults, with --keep, lost Fog jobs and keys remade by hand.               *)
THEOREM AnswersAreFresh ==
    ASSUME Exclusive PROVE Spec => []AnswersFromThisRun
<1>1. RunInv => AnswersFromThisRun
  <2> SUFFICES ASSUME RunInv, NEW p \in Runners, pc[p] \in Loop \cup Ending,
                      NEW n \in 1..Len(csv[Dir(p)])
               PROVE  csv[Dir(p)][n].run = job[p].run
    BY DEF AnswersFromThisRun
  <2>1. Progress(p) /\ at \in [Runners -> Nat \ {0}]
    BY DEF RunInv, TypeInv, ControlOK
  <2> QED
    BY <2>1 DEF Progress, LinesSoFar
<1> QED
  BY <1>1, RunInvAlways, PTL

(* Under the same assumption "Done. Every transaction above agreed with the  *)
(* plaintext reference" is only printed over a results.csv with exactly one  *)
(* line per requested row, in order, each with that row's own score.         *)
THEOREM DoneIsVerified ==
    ASSUME Exclusive PROVE Spec => DoneMeansVerified
<1>1. RunInv /\ [Next]_vars =>
        [\A p \in Runners : ReportsDone(p) => Verified(p)]_vars
  <2> SUFFICES ASSUME RunInv, Next, NEW p \in Runners, ReportsDone(p)
               PROVE  Verified(p)
    BY DEF vars, ReportsDone
  <2>1. Check(p)
    <3>t. /\ TypeInv /\ status \in [Runners -> {"none", "running", "ok", "disagree", "failed"}]
          /\ status[p] = "running" /\ status'[p] = "ok"
      BY DEF RunInv, TypeInv, ControlOK, ReportsDone
    <3>1. ~UNCHANGED status
      BY <3>t
    <3>2. \A q \in Runners \ {p} : ~Start(q) /\ ~Step(q) /\ ~CutShort(q)
      <4>1. \A q \in Runners \ {p} : ~Start(q)
        BY <3>t DEF Start
      <4> QED
        BY <3>t, <4>1, Frame
    <3>3. ~Start(p)
      BY <3>t DEF Start
    <3>4. ~CutShort(p)
      BY <3>t DEF CutShort, AbortClean, KillInWipe, KillInClear, KillInKeygen, KillInEncrypt,
         KillInReplay, Fault, Exit
    <3>5. \A i \in Instances : ~KeygenByHand(i)
      BY <3>1 DEF KeygenByHand
    <3>6. Step(p)
      BY <3>1, <3>2, <3>3, <3>4, <3>5 DEF Next, Finished, vars
    <3> QED
      BY <3>6, <3>t, <3>1 DEF Step, WipeIoDir, ClearTraces, Keygen, DropResults, FirstRow,
         Encrypt, UnlinkResult, LookUp, Record, Replay, ReplayLost, Decrypt, DecryptThrows,
         Summarize, StageFails, Goto, Exit
  <2>2. AllLinesOk(Dir(p)) /\ pc[p] = "check"
    BY <2>1 DEF Check, Exit, ReportsDone, RunInv, TypeInv, ControlOK
  <2>3. LinesSoFar(p, Len(job[p].rows)) /\ csv[Dir(p)] # <<>>
    BY <2>2 DEF RunInv, Progress, Ending
  <2>4. job[p].rows # <<>>
    <3>1. csv[Dir(p)] \in Seq(Line) /\ job[p].rows \in Seq(Nat)
      BY <2>2, ActiveJob DEF RunInv, TypeInv, CsvOK
    <3> QED
      BY <2>2, <2>3, <3>1 DEF LinesSoFar
  <2> QED
    BY <2>2, <2>3, <2>4 DEF Verified, LinesSoFar, AllLinesOk
<1> QED
  BY <1>1, RunInvAlways, PTL DEF Spec, DoneMeansVerified

-----------------------------------------------------------------------------
(* Keys, traces and scores, when runs follow one another *)

(* One run at a time, on one instance or never with --keep; traces can be   *)
(* removed, and keygen is left to the harness.                              *)
OneAtATime ==
    /\ \A p, q \in Runners : p = q
    /\ (\A i, j \in Instances : i = j) \/ TRUE \notin KeepFlags
    /\ Stubborn = {}
    /\ ~HandKeygen

(* The key files of an io-dir that can be read belong to one key set. *)
OneKeySet ==
    \A i \in Instances : \A f, g \in KeyFiles :
        Readable(keys[i][f]) /\ Readable(keys[i][g]) => keys[i][f] = keys[i][g]

(* Every trace holds the evaluation keys of the io-dir it was recorded on,  *)
(* as far as that io-dir still has any.                                     *)
TracesFit ==
    \A s \in Settings : cache[s] # NoTrace =>
        \A f \in KeyFiles : Readable(keys[cache[s].inst][f]) =>
            keys[cache[s].inst][f] = cache[s].mk /\ keys[cache[s].inst][f] = cache[s].rk

(* Keygen starts from an empty io-dir and no trace at all. *)
CleanSetup(p) ==
    /\ pc[p] = "clear" => keys[Dir(p)] = NoKeys
    /\ pc[p] \in KeyFiles =>
         /\ \A f \in KeyFiles : keys[Dir(p)][f] \in {job[p].run, Absent}
         /\ \A s \in Settings : cache[s] = NoTrace

(* From then on every trace is one of this io-dir. *)
OwnTraces(p) ==
    pc[p] \in {"drop"} \cup Loop \cup Ending =>
        \A s \in Settings : cache[s] # NoTrace => cache[s].inst = Dir(p)

(* What a run holds in memory and in files while it scores a row. *)
RowData(p) ==
    /\ pc[p] \in InRow =>
         staged[Dir(p)] = Enciphered(p) /\ Readable(keys[Dir(p)]["pk"])
    /\ pc[p] = "record" => CanLoad(p) /\ loaded[p] = EvalKeys(p)
    /\ pc[p] = "decrypt" /\ Readable(result[Dir(p)][Row(p)]) =>
         /\ <<Dir(p), Row(p)>> \notin Divergent =>
              result[Dir(p)][Row(p)].tx = <<Dir(p), Row(p)>>
         /\ result[Dir(p)][Row(p)].gen = keys[Dir(p)]["pk"]

ScoreInv ==
    /\ RunInv /\ OneKeySet /\ TracesFit /\ NoWrongScore
    /\ \A p \in Runners : CleanSetup(p) /\ OwnTraces(p) /\ RowData(p)

LEMMA InitScoreInv == Init => ScoreInv
<1> SUFFICES ASSUME Init PROVE ScoreInv
  OBVIOUS
<1>1. RunInv
  BY InitRunInv
<1>2. OneKeySet /\ TracesFit /\ NoWrongScore
  BY DEF Init, OneKeySet, TracesFit, NoWrongScore, NoKeys, Readable
<1> QED
  BY <1>1, <1>2 DEF Init, ScoreInv, CleanSetup, OwnTraces, RowData, KeyFiles, Loop, Ending,
     InRow

LEMMA StartScoreInv ==
    ASSUME OneAtATime, ScoreInv, NEW p \in Runners, Start(p)
    PROVE  ScoreInv'
<1>1. RunInv'
  BY StartRunInv DEF OneAtATime, Exclusive, ScoreInv
<1>2. PICK i \in Instances, s \in Settings, l \in RowLists, keep \in KeepFlags :
         /\ SharedDirs \/ ~InUse(i)
         /\ job' = [job EXCEPT ![p] =
                      [dir |-> i, setting |-> s, rows |-> l, run |-> launched + 1]]
         /\ pc'  = [pc EXCEPT ![p] =
                      IF keep /\ keys[i]["cc"] # Absent THEN "drop" ELSE "wipe"]
  BY DEF Start
<1>3. /\ pc'[p] = "wipe" \/ (pc'[p] = "drop" /\ keep)
      /\ pc'[p] \in {"wipe", "drop"} /\ Dir(p)' = i
  BY <1>2 DEF ScoreInv, RunInv, TypeInv, ControlOK, Dir
<1>4. OwnTraces(p)'
  <2>1. CASE \A j, k \in Instances : j = k
    <3>1. \A c \in Settings : cache[c] # NoTrace => cache[c].inst \in Instances
      BY DEF ScoreInv, RunInv, TypeInv, CacheOK, Trace
    <3> QED
      BY <1>3, <2>1, <3>1 DEF OwnTraces, Start
  <2>2. CASE TRUE \notin KeepFlags
    <3>1. keep = FALSE
      BY <2>2, PipelineAssumption
    <3> QED
      BY <1>3, <3>1 DEF OwnTraces, Loop, Ending
  <2> QED
    BY <2>1, <2>2 DEF OneAtATime
<1>5. CleanSetup(p)' /\ RowData(p)'
  BY <1>3 DEF CleanSetup, RowData, KeyFiles, InRow
<1>6. OneKeySet' /\ TracesFit' /\ NoWrongScore'
  BY DEF Start, ScoreInv, OneKeySet, TracesFit, NoWrongScore
<1> QED
  BY <1>1, <1>4, <1>5, <1>6 DEF ScoreInv, OneAtATime

LEMMA StepScoreInv ==
    ASSUME OneAtATime, ScoreInv, NEW p \in Runners, Step(p)
    PROVE  ScoreInv'
<1>0. pc[p] # "idle" /\ RunInv /\ TypeInv /\ TypeInv'
  BY Frame, StepTypes DEF ScoreInv, RunInv
<1>a. RunInv'
  BY RunInvStep DEF OneAtATime, Exclusive, ScoreInv, Next
<1>j. /\ Dir(p) \in Instances /\ Setting(p) \in Settings
      /\ job[p].run \in Run /\ Readable(job[p].run)
  BY <1>0, ActiveJob, PipelineAssumption DEF TypeInv, Gen, Readable
<1>t. /\ pc \in [Runners -> PC] /\ at \in [Runners -> Nat \ {0}]
      /\ loaded \in [Runners -> EvalPair \cup {Absent}]
      /\ job \in [Runners -> Job \cup {NoJob}]
      /\ KeysOK /\ StagedOK /\ ResultOK /\ CsvOK /\ CacheOK
      /\ pc[p] \in InRow => Row(p) \in Rows
  BY <1>0 DEF TypeInv, ControlOK, RowsInRange
<1>i. /\ OneKeySet /\ TracesFit /\ NoWrongScore
      /\ CleanSetup(p) /\ OwnTraces(p) /\ RowData(p)
      /\ Progress(p) /\ FreshResult(p)
  BY DEF ScoreInv, RunInv
<1>one. \A q \in Runners : q = p
  BY DEF OneAtATime
<1> DEFINE Good == /\ OneKeySet /\ TracesFit /\ NoWrongScore
                   /\ CleanSetup(p) /\ OwnTraces(p) /\ RowData(p)
<1>q. SUFFICES Good'
  BY <1>a, <1>one DEF ScoreInv
<1> DEFINE Moves(label) ==
      /\ pc'[p] = label /\ job'[p] = job[p] /\ Dir(p)' = Dir(p) /\ Setting(p)' = Setting(p)
<1>g. ASSUME NEW label, Goto(p, label) PROVE Moves(label)
  BY <1>g, <1>t DEF Goto, Dir, Setting
<1>s. ASSUME at' = at, job'[p] = job[p] PROVE Row(p)' = Row(p)
  BY <1>s DEF Row
<1>1. CASE WipeIoDir(p)
  <2>1. /\ Moves("clear") /\ cache' = cache
        /\ keys'[Dir(p)] = NoKeys /\ csv'[Dir(p)] = <<>>
        /\ \A i \in Instances \ {Dir(p)} : keys'[i] = keys[i] /\ csv'[i] = csv[i]
    BY <1>1, <1>g, <1>j, <1>t DEF WipeIoDir, KeysOK, CsvOK
  <2>k. \A f \in KeyFiles : ~Readable(keys'[Dir(p)][f])
    BY <2>1 DEF NoKeys, Readable
  <2>2. OneKeySet'
    BY <2>1, <2>k, <1>i DEF OneKeySet, Readable
  <2>4. TracesFit'
    <3> SUFFICES ASSUME NEW s \in Settings, cache'[s] # NoTrace, NEW f \in KeyFiles,
                        Readable(keys'[cache'[s].inst][f])
                 PROVE  /\ keys'[cache'[s].inst][f] = cache'[s].mk
                        /\ keys'[cache'[s].inst][f] = cache'[s].rk
      BY DEF TracesFit, Readable
    <3>1. cache[s].inst \in Instances \ {Dir(p)}
      BY <2>1, <2>k, <1>t DEF CacheOK, Trace
    <3> QED
      BY <2>1, <3>1, <1>i DEF TracesFit, Readable
  <2>3. NoWrongScore'
    BY <2>1, <1>i DEF NoWrongScore
  <2> QED
    BY <2>1, <2>2, <2>3, <2>4 DEF CleanSetup, OwnTraces, RowData, KeyFiles, Loop, Ending, InRow
<1>2. CASE ClearTraces(p)
  <2>1. Moves("cc") /\ keys' = keys /\ csv' = csv /\ \A s \in Settings : cache'[s] = NoTrace
    BY <1>2, <1>g DEF ClearTraces, Cleared, OneAtATime
  <2>2. keys[Dir(p)] = NoKeys
    BY <1>2, <1>i DEF ClearTraces, CleanSetup
  <2>3. CleanSetup(p)'
    BY <2>1, <2>2 DEF CleanSetup, NoKeys
  <2>4. OneKeySet' /\ NoWrongScore'
    BY <2>1, <1>i DEF OneKeySet, NoWrongScore
  <2> QED
    BY <2>1, <2>3, <2>4 DEF TracesFit, OwnTraces, RowData, Loop, Ending, InRow
<1>3. CASE Keygen(p)
  <2>1. /\ Moves(AfterKeyFile[pc[p]]) /\ AfterKeyFile[pc[p]] \in {"pk", "sk", "mk", "rk", "drop"}
        /\ csv' = csv /\ cache' = cache /\ pc[p] \in KeyFiles
    BY <1>3, <1>g DEF Keygen, KeyFiles, AfterKeyFile
  <2>2. /\ \A f \in KeyFiles : keys'[Dir(p)][f] \in {job[p].run, Absent}
        /\ \A i \in Instances \ {Dir(p)} : keys'[i] = keys[i]
        /\ \A s \in Settings : cache[s] = NoTrace
    BY <1>3, <1>i, <1>j, <1>t DEF Keygen, CleanSetup, KeysOK
  <2>3. OneKeySet'
    <3> SUFFICES ASSUME NEW i \in Instances, NEW f \in KeyFiles, NEW g \in KeyFiles,
                        Readable(keys'[i][f]), Readable(keys'[i][g])
                 PROVE  keys'[i][f] = keys'[i][g]
      BY DEF OneKeySet, Readable
    <3>1. CASE i = Dir(p)
      BY <2>2, <3>1 DEF Readable
    <3>2. CASE i # Dir(p)
      BY <2>2, <3>2, <1>i DEF OneKeySet
    <3> QED
      BY <3>1, <3>2
  <2>4. TracesFit' /\ OwnTraces(p)'
    BY <2>1, <2>2 DEF TracesFit, OwnTraces
  <2>5. CleanSetup(p)'
    BY <2>1, <2>2 DEF CleanSetup
  <2>6. RowData(p)' /\ NoWrongScore'
    BY <2>1, <1>i DEF RowData, InRow, NoWrongScore
  <2> QED
    BY <2>3, <2>4, <2>5, <2>6
<1>4. CASE DropResults(p)
  <2>1. \E label \in {"summary", "encrypt"} : Moves(label)
    BY <1>4, <1>g DEF DropResults, FirstRow
  <2>2. csv'[Dir(p)] = <<>> /\ \A i \in Instances \ {Dir(p)} : csv'[i] = csv[i]
    BY <1>4, <1>j, <1>t DEF DropResults, CsvOK
  <2>3. NoWrongScore'
    BY <2>2, <1>i DEF NoWrongScore
  <2> QED
    BY <1>4, <2>1, <2>3, <1>i DEF DropResults, OneKeySet, TracesFit, CleanSetup, OwnTraces,
       RowData, KeyFiles, Loop, Ending, InRow
<1>5. CASE Encrypt(p)
  <2>1. Moves("unlink") /\ Row(p)' = Row(p) /\ Readable(keys[Dir(p)]["pk"])
        /\ staged'[Dir(p)] = Enciphered(p) /\ UNCHANGED <<keys, csv, cache>>
    BY <1>5, <1>g, <1>s, <1>j, <1>t DEF Encrypt, CanEncrypt, Loads, StagedOK
  <2>2. RowData(p)'
    BY <2>1 DEF RowData, Enciphered
  <2> QED
    BY <2>1, <2>2, <1>5, <1>i DEF Encrypt, OneKeySet, TracesFit, NoWrongScore,
       CleanSetup, OwnTraces, KeyFiles, Loop, Ending
<1>6. CASE UnlinkResult(p)
  <2>1. Moves("lookup") /\ Row(p)' = Row(p) /\ UNCHANGED <<keys, staged, csv, cache>>
    BY <1>6, <1>g, <1>s DEF UnlinkResult
  <2>2. RowData(p)'
    BY <2>1, <1>6, <1>i DEF UnlinkResult, RowData, Enciphered, InRow
  <2> QED
    BY <2>1, <2>2, <1>6, <1>i DEF UnlinkResult, OneKeySet, TracesFit, NoWrongScore,
       CleanSetup, OwnTraces, KeyFiles, Loop, Ending
<1>7. CASE LookUp(p)
  <2>1. /\ \E label \in {"record", "replay"} :
             Moves(label) /\ (label = "record" => loaded'[p] = EvalKeys(p))
        /\ Row(p)' = Row(p) /\ CanLoad(p) /\ UNCHANGED <<keys, staged, csv, cache>>
    BY <1>7, <1>g, <1>s, <1>t DEF LookUp
  <2>2. CanLoad(p)' /\ EvalKeys(p)' = EvalKeys(p)
    BY <2>1 DEF CanLoad, Loads, EvalKeys
  <2>3. RowData(p)'
    BY <2>1, <2>2, <1>7, <1>i DEF LookUp, RowData, Enciphered, InRow
  <2> QED
    BY <2>1, <2>3, <1>7, <1>i DEF LookUp, OneKeySet, TracesFit, NoWrongScore,
       CleanSetup, OwnTraces, KeyFiles, Loop, Ending
<1>8. CASE Record(p)
  <2>1. /\ Moves("replay") /\ Row(p)' = Row(p) /\ UNCHANGED <<keys, staged, csv>>
        /\ CanLoad(p) /\ loaded[p] = EvalKeys(p)
    BY <1>8, <1>g, <1>s, <1>i DEF Record, RowData
  <2>2. /\ cache'[Setting(p)] = [inst |-> Dir(p), mk |-> keys[Dir(p)]["mk"],
                                  rk |-> keys[Dir(p)]["rk"]]
        /\ \A s \in Settings \ {Setting(p)} : cache'[s] = cache[s]
    BY <1>8, <2>1, <1>j, <1>t DEF Record, EvalKeys, CacheOK
  <2>3. Readable(keys[Dir(p)]["mk"]) /\ Readable(keys[Dir(p)]["rk"])
    BY <2>1 DEF CanLoad, Loads
  <2>4. TracesFit'
    BY <2>1, <2>2, <2>3, <1>i, <1>j DEF TracesFit, OneKeySet, KeyFiles
  <2>5. OwnTraces(p)'
    BY <1>8, <2>1, <2>2, <1>i DEF Record, OwnTraces, Loop, Ending
  <2>6. RowData(p)'
    BY <2>1, <1>8, <1>i DEF Record, RowData, Enciphered, InRow
  <2> QED
    BY <2>1, <2>4, <2>5, <2>6, <1>i DEF OneKeySet, NoWrongScore, CleanSetup,
       KeyFiles
<1>9. CASE Replay(p)
  <2>1. /\ Moves("decrypt") /\ Row(p)' = Row(p) /\ UNCHANGED <<keys, staged, csv, cache>>
        /\ CanReplay(p) /\ staged[Dir(p)] = Enciphered(p) /\ Readable(keys[Dir(p)]["pk"])
    BY <1>9, <1>g, <1>s, <1>i DEF Replay, RowData, InRow
  <2>2. Recorded(p).inst = Dir(p)
    BY <1>9, <2>1, <1>i, <1>j DEF Replay, CanReplay, Recorded, OwnTraces, Loop, Ending
  <2>3. Recorded(p).mk = keys[Dir(p)]["pk"] /\ Recorded(p).rk = keys[Dir(p)]["pk"]
    BY <2>1, <2>2, <1>i, <1>j DEF CanReplay, Recorded, TracesFit, KeyFiles
  <2>4. /\ result'[Dir(p)][Row(p)].gen = keys[Dir(p)]["pk"]
        /\ <<Dir(p), Row(p)>> \notin Divergent =>
             result'[Dir(p)][Row(p)].tx = <<Dir(p), Row(p)>>
    BY <1>9, <2>1, <2>2, <2>3, <1>j, <1>t DEF Replay, ResultOK, Evaluate, Enciphered, InRow
  <2>5. RowData(p)'
    BY <2>1, <2>4 DEF RowData, Enciphered
  <2> QED
    BY <2>1, <2>5, <1>9, <1>i DEF Replay, OneKeySet, TracesFit, NoWrongScore,
       CleanSetup, OwnTraces, KeyFiles, Loop, Ending
<1>10. CASE ReplayLost(p)
  <2>1. /\ Moves("decrypt") /\ Row(p)' = Row(p) /\ UNCHANGED <<keys, staged, result, csv, cache>>
        /\ result[Dir(p)][Row(p)] = Absent
        /\ staged[Dir(p)] = Enciphered(p) /\ Readable(keys[Dir(p)]["pk"])
    BY <1>10, <1>g, <1>s, <1>i DEF ReplayLost, RowData, InRow, FreshResult
  <2>2. RowData(p)'
    BY <2>1 DEF RowData, Enciphered, Readable
  <2> QED
    BY <2>1, <2>2, <1>10, <1>i DEF ReplayLost, OneKeySet, TracesFit, NoWrongScore,
       CleanSetup, OwnTraces, KeyFiles, Loop, Ending
<1>11. CASE Decrypt(p)
  <2> DEFINE a == result[Dir(p)][Row(p)]
             new == [row |-> Row(p), tx |-> Decrypted(a, keys[Dir(p)]["sk"]), run |-> a.run]
  <2>1. /\ \E label \in {"encrypt", "summary"} : Moves(label)
        /\ UNCHANGED <<keys, cache>>
    BY <1>11, <1>g DEF Decrypt
  <2>2. Readable(a) /\ Readable(keys[Dir(p)]["sk"]) /\ Readable(keys[Dir(p)]["pk"])
    BY <1>11, <1>i DEF Decrypt, CanDecrypt, Loads, RowData, InRow
  <2>3. keys[Dir(p)]["sk"] = keys[Dir(p)]["pk"]
    BY <2>2, <1>i, <1>j DEF OneKeySet, KeyFiles
  <2>4. new.row = Row(p) /\ (<<Dir(p), Row(p)>> \notin Divergent => LineOk(Dir(p), new))
    BY <1>11, <2>2, <2>3, <1>i DEF Decrypt, RowData, Decrypted, LineOk
  <2>5. /\ csv[Dir(p)] \in Seq(Line) /\ csv'[Dir(p)] = Append(csv[Dir(p)], new)
        /\ \A i \in Instances \ {Dir(p)} : csv'[i] = csv[i]
    BY <1>11, <1>j, <1>t DEF Decrypt, CsvOK
  <2>6. ASSUME NEW n \in 1..Len(csv'[Dir(p)]), <<Dir(p), csv'[Dir(p)][n].row>> \notin Divergent
        PROVE  LineOk(Dir(p), csv'[Dir(p)][n])
    <3> HIDE DEF new
    <3>1. CASE n = Len(csv[Dir(p)]) + 1
      BY <2>4, <2>5, <2>6, <3>1
    <3>2. CASE n # Len(csv[Dir(p)]) + 1
      <4>1. n \in 1..Len(csv[Dir(p)]) /\ csv'[Dir(p)][n] = csv[Dir(p)][n]
        BY <2>5, <3>2
      <4> QED
        BY <4>1, <2>6, <1>i, <1>j DEF NoWrongScore
    <3> QED
      BY <3>1, <3>2
  <2>7. NoWrongScore'
    BY <2>1, <2>5, <2>6, <1>i DEF NoWrongScore
  <2> QED
    BY <2>1, <2>7, <1>11, <1>i DEF Decrypt, OneKeySet, TracesFit, CleanSetup, OwnTraces,
       RowData, KeyFiles, Loop, Ending, InRow
<1>12. CASE Summarize(p) \/ DecryptThrows(p) \/ Check(p) \/ StageFails(p)
  <2>1. UNCHANGED <<keys, csv, cache>>
    BY <1>12 DEF Summarize, DecryptThrows, Check, StageFails
  <2>2. pc'[p] = "idle" \/ (pc[p] = "summary" /\ Moves("check"))
    BY <1>12, <1>g, <1>t DEF Summarize, DecryptThrows, Check, StageFails, Exit
  <2> QED
    BY <2>1, <2>2, <1>i DEF OneKeySet, TracesFit, NoWrongScore, CleanSetup, OwnTraces,
       RowData, KeyFiles, Loop, Ending, InRow
<1> QED
  BY <1>1, <1>2, <1>3, <1>4, <1>5, <1>6, <1>7, <1>8, <1>9, <1>10, <1>11, <1>12 DEF Step

LEMMA CutShortScoreInv ==
    ASSUME OneAtATime, ScoreInv, NEW p \in Runners, CutShort(p)
    PROVE  ScoreInv'
<1>0. pc[p] # "idle" /\ TypeInv
  BY Frame DEF ScoreInv, RunInv
<1>a. RunInv'
  BY RunInvStep DEF OneAtATime, Exclusive, ScoreInv, Next
<1>b. pc'[p] = "idle"
  BY <1>0 DEF CutShort, AbortClean, KillInWipe, KillInClear, KillInKeygen, KillInEncrypt,
     KillInReplay, Fault, Exit, TypeInv, ControlOK
<1>c. ASSUME NEW q \in Runners PROVE CleanSetup(q)' /\ OwnTraces(q)' /\ RowData(q)'
  <2>1. q = p
    BY DEF OneAtATime
  <2> QED
    BY <1>b, <2>1 DEF CleanSetup, OwnTraces, RowData, KeyFiles, Loop, Ending, InRow
<1>i. OneKeySet /\ TracesFit /\ NoWrongScore
  BY DEF ScoreInv
<1>d. Dir(p) \in Instances /\ KeysOK /\ CsvOK
  BY <1>0, ActiveJob DEF TypeInv
<1>1. SUFFICES OneKeySet' /\ TracesFit' /\ NoWrongScore'
  BY <1>a, <1>c DEF ScoreInv
(* Whatever is cut short, a key file that can be read afterwards is one that *)
(* could be read before, and a trace or a line that is there was there.      *)
<1>2. \A i \in Instances, f \in KeyFiles : Readable(keys'[i][f]) => keys'[i][f] = keys[i][f]
  <2>1. CASE KillInWipe(p)
    BY <2>1, <1>d DEF KillInWipe, KeysOK, Readable
  <2>2. CASE KillInKeygen(p)
    BY <2>2, <1>d DEF KillInKeygen, KeysOK, Readable
  <2> QED
    BY <2>1, <2>2 DEF CutShort, AbortClean, KillInClear, KillInEncrypt, KillInReplay
<1>3. \A s \in Settings : cache'[s] # NoTrace => cache'[s] = cache[s]
  BY DEF CutShort, AbortClean, KillInWipe, KillInClear, Cleared, KillInKeygen, KillInEncrypt,
     KillInReplay
<1>4. \A i \in Instances : csv'[i] \in {csv[i], <<>>}
  BY <1>d DEF CutShort, AbortClean, KillInWipe, KillInClear, KillInKeygen, KillInEncrypt,
     KillInReplay, CsvOK
<1>5. OneKeySet'
  <2> SUFFICES ASSUME NEW i \in Instances, NEW f \in KeyFiles, NEW g \in KeyFiles,
                      Readable(keys'[i][f]), Readable(keys'[i][g])
               PROVE  keys'[i][f] = keys'[i][g]
    BY DEF OneKeySet, Readable
  <2>1. keys'[i][f] = keys[i][f] /\ keys'[i][g] = keys[i][g]
    BY <1>2
  <2> QED
    BY <2>1, <1>i DEF OneKeySet, Readable
<1>6. TracesFit'
  <2> SUFFICES ASSUME NEW s \in Settings, cache'[s] # NoTrace, NEW f \in KeyFiles,
                      Readable(keys'[cache'[s].inst][f])
               PROVE  /\ keys'[cache'[s].inst][f] = cache'[s].mk
                      /\ keys'[cache'[s].inst][f] = cache'[s].rk
    BY DEF TracesFit, Readable
  <2>1. cache'[s] = cache[s] /\ cache[s].inst \in Instances
    BY <1>0, <1>3 DEF TypeInv, CacheOK, Trace
  <2>2. keys'[cache[s].inst][f] = keys[cache[s].inst][f]
    BY <1>2, <2>1
  <2> QED
    BY <2>1, <2>2, <1>i DEF TracesFit, Readable
<1>7. NoWrongScore'
  BY <1>4, <1>i DEF NoWrongScore
<1> QED
  BY <1>5, <1>6, <1>7

LEMMA ScoreInvStep ==
    ASSUME OneAtATime, ScoreInv, [Next]_vars
    PROVE  ScoreInv'
<1>1. CASE UNCHANGED vars
  <2>1. RunInv'
    BY <1>1, RunInvStep DEF OneAtATime, Exclusive, ScoreInv
  <2> QED
    BY <1>1, <2>1 DEF vars, ScoreInv, OneKeySet, TracesFit, NoWrongScore,
       CleanSetup, OwnTraces, RowData, Dir, Row, Enciphered, CanLoad, Loads, EvalKeys, Readable
<1>2. CASE Next
  <2>1. \A i \in Instances : ~KeygenByHand(i)
    BY DEF OneAtATime, KeygenByHand
  <2> QED
    BY <1>1, <1>2, <2>1, StartScoreInv, StepScoreInv, CutShortScoreInv DEF Next, Finished
<1> QED
  BY <1>1, <1>2

LEMMA ScoreInvAlways == ASSUME OneAtATime PROVE Spec => []ScoreInv
<1>1. ScoreInv /\ [Next]_vars => ScoreInv'
  BY ScoreInvStep
<1> QED
  BY <1>1, InitScoreInv, PTL DEF Spec

(* When runs follow one another, on one instance or never with --keep, no   *)
(* wrong score is ever written, wherever earlier runs were cut short.       *)
THEOREM ScoresAreRight == ASSUME OneAtATime PROVE Spec => []NoWrongScore
BY ScoreInvAlways, PTL DEF ScoreInv

(* Under the same assumption a replay reads the input this run has staged. *)
THEOREM InputIsOwn == ASSUME OneAtATime PROVE Spec => []ReplaysOwnInput
<1>1. ScoreInv => ReplaysOwnInput
  <2> SUFFICES ASSUME ScoreInv, NEW p \in Runners, pc[p] = "replay", Recorded(p) # NoTrace
               PROVE  Recorded(p).inst = Dir(p)
    BY DEF ReplaysOwnInput
  <2>1. Setting(p) \in Settings
    BY ActiveJob DEF ScoreInv, RunInv, TypeInv
  <2> QED
    BY <2>1 DEF ScoreInv, OwnTraces, Recorded, Loop, Ending
<1> QED
  BY <1>1, ScoreInvAlways, PTL

(* And a trace within reach of a run holds the keys that lie in its io-dir. *)
THEOREM TraceIsCurrent == ASSUME OneAtATime PROVE Spec => []TraceFitsKeys
<1>1. ScoreInv => TraceFitsKeys
  <2> SUFFICES ASSUME ScoreInv, NEW p \in Runners, pc[p] \in Loop, Recorded(p) # NoTrace,
                      NEW f \in KeyFiles, Readable(keys[Recorded(p).inst][f])
               PROVE  /\ keys[Recorded(p).inst][f] = Recorded(p).mk
                      /\ keys[Recorded(p).inst][f] = Recorded(p).rk
    BY DEF TraceFitsKeys
  <2>1. Setting(p) \in Settings
    BY ActiveJob DEF ScoreInv, RunInv, TypeInv, Loop, Ending
  <2> QED
    BY <2>1 DEF ScoreInv, TracesFit, Recorded
<1> QED
  BY <1>1, ScoreInvAlways, PTL

-----------------------------------------------------------------------------
(* One recording serves a run *)

OneRunner == \A p, q \in Runners : p = q

(* From the end of its first recording on a run has a trace: nobody else is  *)
(* there to remove it.                                                       *)
HasTrace(p) ==
    /\ pc[p] \in {"encrypt", "unlink", "lookup"} /\ at[p] # 1 => Recorded(p) # NoTrace
    /\ pc[p] = "record" => at[p] = 1
    /\ pc[p] \in {"replay", "decrypt"} => Recorded(p) # NoTrace

TraceInv == RunInv /\ \A p \in Runners : HasTrace(p)

LEMMA StepHasTrace ==
    ASSUME TraceInv, NEW p \in Runners, Step(p)
    PROVE  HasTrace(p)'
<1>t. TypeInv /\ ControlOK /\ Progress(p) /\ HasTrace(p)
  BY DEF TraceInv, RunInv, TypeInv
<1>j. /\ pc[p] # "idle" /\ Setting(p) \in Settings /\ Dir(p) \in Instances
      /\ pc \in [Runners -> PC] /\ at \in [Runners -> Nat \ {0}]
      /\ cache \in [Settings -> Trace \cup {NoTrace}]
  BY <1>t, Frame, ActiveJob DEF ControlOK, TypeInv, CacheOK
<1>m. ASSUME NEW label \in PC, Goto(p, label)
      PROVE  pc'[p] = label /\ Setting(p)' = Setting(p)
  BY <1>m, <1>j DEF Goto, Setting
<1>1. CASE WipeIoDir(p) \/ ClearTraces(p) \/ Keygen(p)
  <2>1. pc'[p] \in Setup
    BY <1>1, <1>j DEF WipeIoDir, ClearTraces, Keygen, Goto, AfterKeyFile, Setup, KeyFiles
  <2> QED
    BY <2>1 DEF HasTrace, Setup, KeyFiles
<1>2. CASE DropResults(p)
  <2>1. pc'[p] \in {"encrypt", "summary"} /\ at'[p] = 1
    BY <1>2, <1>j, <1>t DEF DropResults, FirstRow, Goto, Progress, Setup
  <2> QED
    BY <2>1 DEF HasTrace
<1>3. CASE Encrypt(p) \/ UnlinkResult(p)
  <2>1. /\ pc[p] \in {"encrypt", "unlink"} /\ pc'[p] \in {"unlink", "lookup"}
        /\ at' = at /\ cache' = cache /\ Setting(p)' = Setting(p)
    BY <1>3, <1>m DEF Encrypt, UnlinkResult, PC, Loop, Ending
  <2> QED
    BY <2>1, <1>t DEF HasTrace, Recorded
<1>4. CASE LookUp(p)
  <2>1. /\ pc[p] = "lookup" /\ at' = at /\ cache' = cache /\ Setting(p)' = Setting(p)
        /\ pc'[p] = IF Cold(p) THEN "record" ELSE "replay"
    BY <1>4, <1>m DEF LookUp, PC, Loop, Ending
  <2> QED
    BY <2>1, <1>t DEF HasTrace, Recorded, Cold
<1>5. CASE Record(p)
  <2>1. pc'[p] = "replay" /\ Setting(p)' = Setting(p)
    BY <1>5, <1>m DEF Record, PC, Loop, Ending
  <2>2. loaded[p] \in EvalPair
    BY <1>5, <1>t DEF Record, ControlOK
  <2>3. cache'[Setting(p)] \in Trace
    BY <1>5, <1>j, <2>2 DEF Record, Trace, EvalPair
  <2> QED
    BY <2>1, <2>3, PipelineAssumption DEF HasTrace, Recorded
<1>6. CASE Replay(p) \/ ReplayLost(p)
  <2>1. /\ pc[p] = "replay" /\ pc'[p] = "decrypt"
        /\ cache' = cache /\ Setting(p)' = Setting(p)
    BY <1>6, <1>m DEF Replay, ReplayLost, PC, Loop, Ending
  <2> QED
    BY <2>1, <1>t DEF HasTrace, Recorded
<1>7. CASE Decrypt(p)
  <2>1. /\ pc[p] = "decrypt" /\ pc'[p] \in {"encrypt", "summary"}
        /\ cache' = cache /\ Setting(p)' = Setting(p)
    BY <1>7, <1>j DEF Decrypt, Goto, Setting
  <2> QED
    BY <2>1, <1>t DEF HasTrace, Recorded
<1>8. CASE Summarize(p) \/ DecryptThrows(p) \/ Check(p) \/ StageFails(p)
  <2>1. pc'[p] \in {"idle", "check"}
    BY <1>8, <1>j DEF Summarize, DecryptThrows, Check, StageFails, Goto, Exit
  <2> QED
    BY <2>1 DEF HasTrace
<1> QED
  BY <1>1, <1>2, <1>3, <1>4, <1>5, <1>6, <1>7, <1>8 DEF Step

LEMMA TraceInvStep ==
    ASSUME OneRunner, TraceInv, [Next]_vars
    PROVE  TraceInv'
<1>1. RunInv'
  BY RunInvStep DEF OneRunner, Exclusive, TraceInv
<1>t. ControlOK
  BY DEF TraceInv, RunInv, TypeInv
<1>2. SUFFICES ASSUME NEW q \in Runners PROVE HasTrace(q)'
  BY <1>1 DEF TraceInv
<1>3. CASE UNCHANGED vars
  BY <1>3 DEF vars, TraceInv, HasTrace, Recorded, Setting
<1>4. ASSUME NEW p \in Runners, Step(p) PROVE HasTrace(q)'
  BY <1>4, StepHasTrace DEF OneRunner
<1>5. ASSUME NEW p \in Runners, Start(p) PROVE HasTrace(q)'
  <2>1. p = q /\ pc'[p] \in {"wipe", "drop"}
    BY <1>5, <1>t DEF OneRunner, Start, ControlOK
  <2> QED
    BY <2>1 DEF HasTrace
<1>6. ASSUME NEW p \in Runners, CutShort(p) PROVE HasTrace(q)'
  <2>1. p = q /\ pc'[p] = "idle"
    BY <1>6, <1>t DEF OneRunner, CutShort, AbortClean, KillInWipe, KillInClear, KillInKeygen,
       KillInEncrypt, KillInReplay, Fault, Exit, ControlOK
  <2> QED
    BY <2>1 DEF HasTrace
<1>7. ASSUME NEW i \in Instances, KeygenByHand(i) PROVE HasTrace(q)'
  BY <1>7 DEF KeygenByHand, TraceInv, HasTrace, Recorded, Setting
<1> QED
  BY <1>3, <1>4, <1>5, <1>6, <1>7 DEF Next, Finished

(* With one runner only the first row of a run can find the cache cold,     *)
(* with --keep, lost Fog jobs, keys made by hand and traces that cannot be  *)
(* removed; a second runner may clear the traces in between.                *)
THEOREM OneRecordingServes == ASSUME OneRunner PROVE Spec => []OneRecordingPerRun
<1>1. Init => TraceInv
  BY InitRunInv DEF TraceInv, HasTrace, Init
<1>2. TraceInv /\ [Next]_vars => TraceInv'
  BY TraceInvStep
<1>3. TraceInv => OneRecordingPerRun
  BY DEF TraceInv, HasTrace, OneRecordingPerRun
<1> QED
  BY <1>1, <1>2, <1>3, PTL DEF Spec

-----------------------------------------------------------------------------
(* FraudPipeline implements ScoreService *)

(* The abstract state of one client. *)
SameFor(q) ==
    Requested(q)' = Requested(q) /\ Answered(q)' = Answered(q) /\ status'[q] = status[q]

LEMMA AnsweredSeq ==
    ASSUME TypeInv, NEW p \in Runners, pc[p] \in Loop \cup Ending
    PROVE  /\ Len(Answered(p)) = Len(csv[Dir(p)])
           /\ DOMAIN Answered(p) = 1..Len(csv[Dir(p)])
           /\ \A n \in 1..Len(csv[Dir(p)]) : Answered(p)[n] = AnswerOf(Dir(p), csv[Dir(p)][n])
<1>1. csv[Dir(p)] \in Seq(Line)
  BY ActiveJob DEF TypeInv, CsvOK, Loop, Ending
<1>2. Answered(p) = [n \in 1..Len(csv[Dir(p)]) |-> AnswerOf(Dir(p), csv[Dir(p)][n])]
  BY DEF Answered
<1> QED
  BY <1>1, <1>2

(* What the other runners have been promised does not change. *)
LEMMA OthersSame ==
    ASSUME RunInv, NEW p \in Runners, Step(p) \/ CutShort(p), NEW q \in Runners \ {p}
    PROVE  SameFor(q)
<1>1. /\ pc'[q] = pc[q] /\ job'[q] = job[q] /\ status'[q] = status[q] /\ Dir(q)' = Dir(q)
  BY Frame DEF RunInv, Dir
<1>2. pc[q] # "idle" => csv'[Dir(q)] = csv[Dir(q)]
  <2> SUFFICES ASSUME pc[q] # "idle" PROVE csv'[Dir(q)] = csv[Dir(q)]
    OBVIOUS
  <2>1. Dir(q) \in Instances \ {Dir(p)}
    BY Frame, ActiveJob DEF RunInv, SoleUser, TypeInv
  <2> QED
    BY <2>1, Frame DEF RunInv
<1>3. Answered(q)' = Answered(q)
  BY <1>1, <1>2 DEF Answered, Loop, Ending, AnswerOf, LineOk
<1>4. Requested(q)' = Requested(q)
  BY <1>1 DEF Requested
<1> QED
  BY <1>1, <1>3, <1>4 DEF SameFor

Silent(p) ==
    \/ WipeIoDir(p) \/ ClearTraces(p) \/ Keygen(p) \/ DropResults(p)
    \/ Encrypt(p) \/ UnlinkResult(p) \/ LookUp(p) \/ Record(p) \/ Replay(p) \/ ReplayLost(p)
    \/ (Summarize(p) /\ csv[Dir(p)] # <<>>)

(* Setting up and working on a row say nothing to the client. *)
LEMMA SilentSame ==
    ASSUME RunInv, NEW p \in Runners, Silent(p)
    PROVE  SameFor(p)
<1>0. Step(p)
  BY DEF Silent, Step
<1>t. /\ TypeInv /\ pc \in [Runners -> PC] /\ CsvOK
  BY DEF RunInv, TypeInv, ControlOK
<1>p. pc[p] # "idle" /\ Dir(p) \in Instances
  BY <1>0, Frame, ActiveJob DEF RunInv, TypeInv
<1>1. job'[p] = job[p] /\ status'[p] = status[p] /\ Dir(p)' = Dir(p) /\ pc'[p] # "idle"
  BY <1>t DEF Silent, WipeIoDir, ClearTraces, Keygen, AfterKeyFile, KeyFiles, DropResults,
     FirstRow, Encrypt, UnlinkResult, LookUp, Record, Replay, ReplayLost, Summarize, Goto, Dir
<1>2. Requested(p)' = Requested(p)
  BY <1>1, <1>p DEF Requested
<1>3. Answered(p)' = Answered(p)
  <2>1. CASE WipeIoDir(p) \/ ClearTraces(p) \/ Keygen(p)
    <3>1. pc[p] \notin Loop \cup Ending
      BY <2>1 DEF WipeIoDir, ClearTraces, Keygen, KeyFiles, Loop, Ending
    <3>2. pc'[p] \notin Loop \cup Ending
      BY <2>1, <1>t DEF WipeIoDir, ClearTraces, Keygen, AfterKeyFile, KeyFiles, Loop, Ending,
         Goto
    <3> QED
      BY <3>1, <3>2 DEF Answered
  <2>2. CASE DropResults(p)
    <3>1. pc[p] \notin Loop \cup Ending /\ csv'[Dir(p)] = <<>>
      BY <2>2, <1>p, <1>t DEF DropResults, Loop, Ending, CsvOK
    <3>2. Answered(p)' = <<>>
      BY <3>1, <1>1 DEF Answered
    <3> QED
      BY <3>1, <3>2 DEF Answered
  <2>3. CASE Encrypt(p) \/ UnlinkResult(p) \/ LookUp(p) \/ Record(p) \/ Replay(p) \/ ReplayLost(p)
    <3>1. pc[p] \in Loop /\ pc'[p] \in Loop /\ csv' = csv
      BY <2>3, <1>t DEF Encrypt, UnlinkResult, LookUp, Record, Replay, ReplayLost, Goto,
         Loop, Ending
    <3> QED
      BY <3>1, <1>1 DEF Answered, AnswerOf, LineOk
  <2>4. CASE Summarize(p) /\ csv[Dir(p)] # <<>>
    <3>1. pc[p] \in Ending /\ pc'[p] \in Ending /\ csv' = csv
      BY <2>4, <1>t DEF Summarize, Goto, Ending
    <3> QED
      BY <3>1, <1>1 DEF Answered, AnswerOf, LineOk
  <2> QED
    BY <2>1, <2>2, <2>3, <2>4 DEF Silent
<1> QED
  BY <1>1, <1>2, <1>3 DEF SameFor

(* The three abstract variables, for the runner that moves and the others. *)
LEMMA AbstractUpdate ==
    ASSUME NEW p \in Runners, \A q \in Runners \ {p} : SameFor(q),
           status \in [Runners -> {"none", "running", "ok", "disagree", "failed"}],
           status' \in [Runners -> {"none", "running", "ok", "disagree", "failed"}]
    PROVE  /\ [q \in Runners |-> Requested(q)]' =
                [[q \in Runners |-> Requested(q)] EXCEPT ![p] = Requested(p)']
           /\ [q \in Runners |-> Answered(q)]' =
                [[q \in Runners |-> Answered(q)] EXCEPT ![p] = Answered(p)']
           /\ status' = [status EXCEPT ![p] = status'[p]]
BY DEF SameFor

LEMMA NoJobIsNoRequest ==
    ASSUME TypeInv, NEW p \in Runners
    PROVE  Requested(p) = NoJob <=> pc[p] = "idle"
<1>1. CASE pc[p] = "idle"
  BY <1>1 DEF Requested
<1>2. CASE pc[p] # "idle"
  <2>1. [dataset |-> Dir(p), rows |-> job[p].rows] \in [dataset : Instances, rows : RowLists]
    BY <1>2, ActiveJob DEF TypeInv
  <2> QED
    BY <1>2, <2>1, PipelineAssumption DEF Requested
<1> QED
  BY <1>1, <1>2

LEMMA StartAsks ==
    ASSUME RunInv, NEW p \in Runners, Start(p)
    PROVE  Service!Ask(p)
<1>t. TypeInv /\ TypeInv' /\ ControlOK
  BY StartTypes DEF RunInv, TypeInv
<1>1. PICK i \in Instances, s \in Settings, l \in RowLists, keep \in KeepFlags :
         /\ SharedDirs \/ ~InUse(i)
         /\ job' = [job EXCEPT ![p] =
                      [dir |-> i, setting |-> s, rows |-> l, run |-> launched + 1]]
         /\ pc'  = [pc EXCEPT ![p] =
                      IF keep /\ keys[i]["cc"] # Absent THEN "drop" ELSE "wipe"]
  BY DEF Start
<1>2. pc[p] = "idle" /\ pc'[p] \in {"wipe", "drop"} /\ status' = [status EXCEPT ![p] = "running"]
  BY <1>t, <1>1 DEF Start, ControlOK
<1>3. Requested(p) = NoJob /\ Requested(p)' = [dataset |-> i, rows |-> l]
  BY <1>t, <1>1, <1>2 DEF Requested, Dir, ControlOK
<1>4. Answered(p) = <<>> /\ Answered(p)' = <<>>
  BY <1>2 DEF Answered, Loop, Ending
<1>5. ASSUME NEW q \in Runners \ {p} PROVE SameFor(q)
  BY <1>t, <1>1 DEF Start, SameFor, Requested, Answered, Dir, ControlOK, AnswerOf, LineOk
<1>6. /\ [q \in Runners |-> Requested(q)]' =
           [[q \in Runners |-> Requested(q)] EXCEPT ![p] = Requested(p)']
      /\ [q \in Runners |-> Answered(q)]' = [q \in Runners |-> Answered(q)]
  BY <1>4, <1>5 DEF SameFor
<1> QED
  BY <1>2, <1>3, <1>6 DEF Service!Ask

(* Every row decrypted is the next row asked for, and one the CSV has. *)
LEMMA DecryptAnswers ==
    ASSUME Exclusive, RunInv, NEW p \in Runners, Decrypt(p)
    PROVE  Service!AnswerNext(p)
<1>t. TypeInv /\ TypeInv' /\ ControlOK /\ CsvOK
  BY StepTypes DEF RunInv, TypeInv, Step
<1>p. pc[p] = "decrypt" /\ Dir(p) \in Instances /\ job[p].rows \in Seq(Nat) /\ at[p] \in Nat \ {0}
  BY <1>t, ActiveJob DEF Decrypt, ControlOK
<1>a. at[p] <= Len(job[p].rows) /\ Len(csv[Dir(p)]) = at[p] - 1
  BY <1>p DEF RunInv, Progress, LinesSoFar, Loop, Ending
<1> DEFINE line == [row |-> Row(p), tx |-> Decrypted(result[Dir(p)][Row(p)], keys[Dir(p)]["sk"]),
                    run |-> result[Dir(p)][Row(p)].run]
<1>1. /\ csv' = [csv EXCEPT ![Dir(p)] = Append(csv[Dir(p)], line)]
      /\ job' = job /\ status' = status /\ pc'[p] \in {"encrypt", "summary"}
  BY <1>t DEF Decrypt, Goto, ControlOK
<1>2. csv[Dir(p)] \in Seq(Line) /\ csv'[Dir(p)] = Append(csv[Dir(p)], line) /\ Dir(p)' = Dir(p)
  BY <1>t, <1>p, <1>1 DEF CsvOK, Dir
<1>3. Requested(p) = [dataset |-> Dir(p), rows |-> job[p].rows] /\ Requested(p)' = Requested(p)
      /\ Requested(p) # NoJob
  BY <1>t, <1>p, <1>1, <1>2, NoJobIsNoRequest DEF Requested
<1>4. /\ Answered(p)  = [n \in 1..Len(csv[Dir(p)]) |-> AnswerOf(Dir(p), csv[Dir(p)][n])]
      /\ Answered(p)' = [n \in 1..Len(csv'[Dir(p)]) |-> AnswerOf(Dir(p), csv'[Dir(p)][n])]
  BY <1>p, <1>1, <1>2 DEF Answered, AnswerOf, LineOk, Loop, Ending
<1>5. Answered(p)' = Append(Answered(p), AnswerOf(Dir(p), line))
  BY <1>2, <1>4
<1>6. Len(Answered(p)) = at[p] - 1
  BY <1>a, <1>2, <1>4
<1>7. AnswerOf(Dir(p), line) = [row |-> Row(p), right |-> LineOk(Dir(p), line)]
      /\ LineOk(Dir(p), line) \in BOOLEAN
  BY DEF AnswerOf, LineOk
<1>8. Row(p) \in Rows /\ Row(p) = Requested(p).rows[Len(Answered(p)) + 1]
  BY <1>t, <1>p, <1>3, <1>6 DEF ControlOK, RowsInRange, InRow, Row
<1>9. /\ [q \in Runners |-> Requested(q)]' = [q \in Runners |-> Requested(q)]
      /\ [q \in Runners |-> Answered(q)]' =
           [[q \in Runners |-> Answered(q)] EXCEPT ![p] = Answered(p)']
  BY <1>3, OthersSame DEF SameFor, Step
<1>10. \E right \in BOOLEAN :
          [q \in Runners |-> Answered(q)]' = [[q \in Runners |-> Answered(q)] EXCEPT ![p] =
             Append(@, [row |-> Requested(p).rows[Len(Answered(p)) + 1], right |-> right])]
  BY <1>5, <1>7, <1>8, <1>9
<1>11. Len(Answered(p)) < Len(Requested(p).rows)
  BY <1>p, <1>a, <1>3, <1>6
<1> QED
  BY <1>1, <1>3, <1>8, <1>9, <1>10, <1>11 DEF Service!AnswerNext

(* Leaving a run, however it ends, closes the request. *)
LEMMA ExitCloses ==
    ASSUME RunInv, NEW p \in Runners, Step(p) \/ CutShort(p),
           NEW how \in {"ok", "disagree", "failed"}, Exit(p, how)
    PROVE  Service!Close(p, how)
<1>t. TypeInv /\ ControlOK /\ pc[p] # "idle"
  BY Frame DEF RunInv, TypeInv
<1>1. pc'[p] = "idle" /\ status' = [status EXCEPT ![p] = how]
  BY <1>t DEF Exit, ControlOK
<1>2. Requested(p) # NoJob /\ Requested(p)' = NoJob /\ Answered(p)' = <<>>
  BY <1>t, <1>1, NoJobIsNoRequest DEF Requested, Answered, Loop, Ending
<1>3. /\ [q \in Runners |-> Requested(q)]' =
           [[q \in Runners |-> Requested(q)] EXCEPT ![p] = NoJob]
      /\ [q \in Runners |-> Answered(q)]' = [[q \in Runners |-> Answered(q)] EXCEPT ![p] = <<>>]
  BY <1>2, OthersSame DEF SameFor
<1> QED
  BY <1>1, <1>2, <1>3 DEF Service!Close

LEMMA RightMeansOk ==
    ASSUME NEW i, NEW line
    PROVE  AnswerOf(i, line).right <=> LineOk(i, line)
<1>1. CASE LineOk(i, line)
  <2>1. AnswerOf(i, line) = [row |-> line.row, right |-> TRUE]
    BY <1>1, Zenon DEF AnswerOf
  <2> QED
    BY <1>1, <2>1
<1>2. CASE ~LineOk(i, line)
  <2>0. LineOk(i, line) = FALSE
    BY <1>2 DEF LineOk
  <2>1. AnswerOf(i, line) = [row |-> line.row, right |-> FALSE]
    BY <2>0, Zenon DEF AnswerOf
  <2> QED
    BY <1>2, <2>1
<1> QED
  BY <1>1, <1>2

(* The reference check reports what the answers are: every row has one. *)
LEMMA CheckReports ==
    ASSUME Exclusive, RunInv, NEW p \in Runners, Check(p)
    PROVE  Service!ReportDone(p) \/ Service!ReportDisagree(p)
<1>t. TypeInv /\ ControlOK /\ pc[p] = "check" /\ pc[p] \in Loop \cup Ending
  BY DEF RunInv, TypeInv, Check, Ending
<1>j. job[p].rows \in Seq(Nat) /\ csv[Dir(p)] \in Seq(Line)
  BY <1>t, ActiveJob DEF TypeInv, CsvOK
<1>1. Requested(p) = [dataset |-> Dir(p), rows |-> job[p].rows] /\ Requested(p) # NoJob
  BY <1>t, NoJobIsNoRequest DEF Requested
<1>2. Len(csv[Dir(p)]) = Len(job[p].rows) /\ csv[Dir(p)] # <<>>
  BY <1>t DEF RunInv, Progress, LinesSoFar, Ending
<1>3. /\ Len(Answered(p)) = Len(csv[Dir(p)])
      /\ \A n \in 1..Len(csv[Dir(p)]) :
           Answered(p)[n].right <=> LineOk(Dir(p), csv[Dir(p)][n])
  <2>1. /\ Len(Answered(p)) = Len(csv[Dir(p)])
        /\ \A n \in 1..Len(csv[Dir(p)]) : Answered(p)[n] = AnswerOf(Dir(p), csv[Dir(p)][n])
    BY <1>t, AnsweredSeq
  <2> QED
    BY <2>1, RightMeansOk
<1>4. Service!AllRight(p) <=> AllLinesOk(Dir(p))
  BY <1>3 DEF Service!AllRight, AllLinesOk
<1>5. Service!EveryRowAnswered(p)
  BY <1>j, <1>1, <1>2, <1>3 DEF Service!EveryRowAnswered
<1>6. CASE AllLinesOk(Dir(p))
  BY <1>4, <1>5, <1>6, ExitCloses DEF Check, Step, Service!ReportDone
<1>7. CASE ~AllLinesOk(Dir(p))
  BY <1>4, <1>5, <1>7, ExitCloses DEF Check, Step, Service!ReportDisagree
<1> QED
  BY <1>6, <1>7

LEMMA InitRefines == Init => Service!Init
BY DEF Init, Service!Init, Requested, Answered, Loop, Ending

LEMMA StepRefines ==
    ASSUME Exclusive, RunInv, [Next]_vars
    PROVE  [Service!Next]_Service!service
<1> USE DEF Service!Next, Service!service
<1>1. CASE UNCHANGED vars
  <2>1. \A p \in Runners : SameFor(p)
    BY <1>1 DEF vars, SameFor, Requested, Answered, Dir, AnswerOf, LineOk
  <2> QED
    BY <1>1, <2>1 DEF SameFor, vars
<1>2. ASSUME NEW p \in Runners, Start(p) PROVE [Service!Next]_Service!service
  BY <1>2, StartAsks
<1>3. ASSUME NEW p \in Runners, Silent(p) PROVE [Service!Next]_Service!service
  <2>1. \A q \in Runners : SameFor(q)
    BY <1>3, SilentSame, OthersSame DEF Silent, Step
  <2>2. status' = status
    BY <1>3 DEF Silent, WipeIoDir, ClearTraces, Keygen, DropResults, FirstRow, Encrypt,
       UnlinkResult, LookUp, Record, Replay, ReplayLost, Summarize, Goto
  <2> QED
    BY <2>1, <2>2 DEF SameFor
<1>4. ASSUME NEW p \in Runners, Decrypt(p) PROVE [Service!Next]_Service!service
  BY <1>4, DecryptAnswers
<1>5. ASSUME NEW p \in Runners, Check(p) PROVE [Service!Next]_Service!service
  BY <1>5, CheckReports
<1>6. ASSUME NEW p \in Runners,
             \/ DecryptThrows(p) \/ StageFails(p) \/ CutShort(p)
             \/ (Summarize(p) /\ csv[Dir(p)] = <<>>)
      PROVE  [Service!Next]_Service!service
  <2>1. Exit(p, "failed")
    BY <1>6 DEF DecryptThrows, Summarize, StageFails, CutShort, AbortClean, KillInWipe,
       KillInClear, KillInKeygen,
       KillInEncrypt, KillInReplay, Fault
  <2>2. Service!ReportFailure(p)
    BY <1>6, <2>1, ExitCloses DEF Step, Service!ReportFailure
  <2> QED
    BY <2>2
<1>7. ASSUME NEW i \in Instances, KeygenByHand(i) PROVE [Service!Next]_Service!service
  <2>1. \A p \in Runners : SameFor(p)
    BY <1>7 DEF KeygenByHand, SameFor, Requested, Answered, Dir, AnswerOf, LineOk
  <2> QED
    BY <1>7, <2>1 DEF SameFor, KeygenByHand
<1> QED
  BY <1>1, <1>2, <1>3, <1>4, <1>5, <1>6, <1>7 DEF Next, Finished, Step, Silent

(* Whatever files the runs find and wherever they are cut short, the        *)
(* harness implements ScoreService, as long as no two runs share an io-dir. *)
THEOREM HarnessIsService == ASSUME Exclusive PROVE Spec => ImplementsService
<1>1. RunInv /\ [Next]_vars => [Service!Next]_Service!service
  BY StepRefines
<1> QED
  BY <1>1, InitRefines, RunInvAlways, PTL DEF Spec, ImplementsService, Service!Spec
=============================================================================
