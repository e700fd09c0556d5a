--------------------------- MODULE FraudPipeline ---------------------------
(***************************************************************************)
(* The harness (harness/run_submission.py) driving the four stages over    *)
(* the files they share.                                                   *)
(*                                                                         *)
(* An instance is a (dataset, size) pair; each has an io-dir of its own    *)
(* (params.iodir).  A run works on one instance: it makes a key set unless *)
(* --keep finds one, then encrypts, computes and decrypts one row after    *)
(* the other, and finally checks results.csv against the plaintext         *)
(* reference.  The recorded traces, the fraud-inference_... directories,   *)
(* lie in the repository root and are keyed by target and opt level only,  *)
(* so every instance shares them.  A run may be cut short at any point,    *)
(* with a file half written or a directory half removed, and another run   *)
(* starts from what it left.                                               *)
(***************************************************************************)
EXTENDS Integers, Sequences

CONSTANTS
    Runners,      \* processes that execute the harness, one run at a time each
    Instances,    \* (dataset, size) pairs, one io-dir each
    Settings,     \* (target, opt level) pairs, one trace cache entry each
    Rows,         \* row numbers the dataset's CSV has
    Divergent,    \* transactions so far off that the activation diverges on them
    RowLists,     \* row lists a run may be asked for (--rows, --row, the size)
    KeepFlags,    \* the values --keep may take
    SharedDirs,   \* TRUE: two runs may work on one io-dir at the same time
    HandKeygen,   \* TRUE: keygen may also be run by hand, outside a run
    FogSettings,  \* settings whose compute stage is wrapped by `fog submit`
    Stubborn,     \* settings whose trace directory rmtree fails to remove
    MaxRuns,      \* bound: runs (and hand-made key sets) altogether
    MaxFaults,    \* bound: runs cut short
    Absent,       \* content of a file that does not exist
    Torn,         \* content of a file whose write was cut short
    NoTrace,      \* the cache has no valid recording
    NoJob,        \* the job of an idle runner
    Noise         \* what decrypts under the wrong key, or was computed with one

Run    == 1..MaxRuns                        \* runs, in the order they start
Gen    == Run                               \* a key set: the run that made it
Tx     == Instances \X Rows                 \* a transaction of a dataset
Plain  == Tx \cup {Noise}

KeyFiles == {"cc", "pk", "sk", "mk", "rk"}
Cipher   == [tx : Plain, gen : Gen]              \* cipher_input.bin
Answer   == [tx : Plain, gen : Gen, run : Run]   \* cipher_result_<row>.bin
Line     == [row : Rows, tx : Plain, run : Run]  \* a line of results.csv
EvalPair == [mk : Gen, rk : Gen]                 \* keys the compute stage loads
Trace    == [inst : Instances, mk : Gen, rk : Gen]
Job      == [dir : Instances, setting : Settings, rows : RowLists, run : Run]

ASSUME PipelineAssumption ==
    /\ Rows \subseteq Nat
    /\ Divergent \subseteq Tx
    /\ RowLists \subseteq Seq(Nat)
    /\ KeepFlags \subseteq BOOLEAN
    /\ FogSettings \subseteq Settings /\ Stubborn \subseteq Settings
    /\ MaxRuns \in Nat /\ MaxFaults \in Nat
    /\ {SharedDirs, HandKeygen} \subseteq BOOLEAN
    /\ Noise \notin Tx
    /\ {Absent, Torn} \cap (Gen \cup Cipher \cup Answer \cup EvalPair) = {}
    /\ NoTrace \notin Trace
    /\ NoJob \notin Job \cup [dataset : Instances, rows : RowLists]

VARIABLES
    pc,       \* pc[p]: where runner p stands
    job,      \* job[p]: its arguments, and the number of its run
    at,       \* at[p]: index in job[p].rows of the row being processed
    status,   \* status[p]: how its last run ended
    loaded,   \* loaded[p]: evaluation keys in the memory of a recording compute stage
    launched, \* runs started so far
    keys,     \* keys[i][f]: content of key file f in io-dir i
    staged,   \* staged[i]: cipher_input.bin
    result,   \* result[i][r]: cipher_result_<r>.bin
    csv,      \* csv[i]: the lines of results.csv, <<>> when there is no file
    cache,    \* cache[s]: the trace recorded under cache key s
    faults    \* runs cut short so far

vars == <<pc, job, at, loaded, status, launched, keys, staged, result, csv, cache, faults>>

Dir(p)      == job[p].dir
Setting(p)  == job[p].setting
Row(p)      == job[p].rows[at[p]]
Readable(v) == v \notin {Absent, Torn}

(* Every stage that loads a key file fails when it is missing or truncated. *)
Loads(i, F) == \A f \in F : Readable(keys[i][f])

NoKeys    == [f \in KeyFiles |-> Absent]
NoResults == [r \in Rows |-> Absent]

Init ==
    /\ pc       = [p \in Runners |-> "idle"]
    /\ job      = [p \in Runners |-> NoJob]
    /\ at       = [p \in Runners |-> 1]
    /\ loaded   = [p \in Runners |-> Absent]
    /\ status   = [p \in Runners |-> "none"]
    /\ launched = 0
    /\ keys     = [i \in Instances |-> NoKeys]
    /\ staged   = [i \in Instances |-> Absent]
    /\ result   = [i \in Instances |-> NoResults]
    /\ csv      = [i \in Instances |-> <<>>]
    /\ cache    = [s \in Settings |-> NoTrace]
    /\ faults   = 0

Goto(p, label) ==
    /\ pc' = [pc EXCEPT ![p] = label]
    /\ UNCHANGED <<job, status, launched, faults>>

Exit(p, how) ==
    /\ pc'     = [pc EXCEPT ![p] = "idle"]
    /\ job'    = [job EXCEPT ![p] = NoJob]
    /\ at'     = [at EXCEPT ![p] = 1]
    /\ loaded' = [loaded EXCEPT ![p] = Absent]
    /\ status' = [status EXCEPT ![p] = how]
    /\ UNCHANGED launched

-----------------------------------------------------------------------------
(* Setup: io-dir, traces, keys, results.csv *)

InUse(i) == \E p \in Runners : pc[p] # "idle" /\ Dir(p) = i

(* main() reads its arguments; a --keep run that finds cc.bin in the io-dir *)
(* skips the wipe and keygen.                                               *)
Start(p) ==
    /\ pc[p] = "idle"
    /\ launched < MaxRuns
    /\ launched' = launched + 1
    /\ \E i \in Instances, s \in Settings, l \in RowLists, keep \in KeepFlags :
         /\ SharedDirs \/ ~InUse(i)
         /\ job' = [job EXCEPT ![p] =
                      [dir |-> i, setting |-> s, rows |-> l, run |-> launched + 1]]
         /\ pc'  = [pc EXCEPT ![p] =
                      IF keep /\ keys[i]["cc"] # Absent THEN "drop" ELSE "wipe"]
    /\ status' = [status EXCEPT ![p] = "running"]
    /\ UNCHANGED <<at, loaded, keys, staged, result, csv, cache, faults>>

(* shutil.rmtree(io), io.mkdir() *)
WipeIoDir(p) ==
    /\ pc[p] = "wipe"
    /\ keys'   = [keys EXCEPT ![Dir(p)] = NoKeys]
    /\ staged' = [staged EXCEPT ![Dir(p)] = Absent]
    /\ result' = [result EXCEPT ![Dir(p)] = NoResults]
    /\ csv'    = [csv EXCEPT ![Dir(p)] = <<>>]
    /\ Goto(p, "clear")
    /\ UNCHANGED <<at, loaded, cache>>

(* Mutant: the glob does not match how the cache key names the directory. *)
NoneCleared(S) == cache
Cleared(S) == [s \in Settings |-> IF s \in S THEN NoTrace ELSE cache[s]]

(* Every fraud-inference_... directory goes; rmtree's errors are ignored. *)
ClearTraces(p) ==
    /\ pc[p] = "clear"
    /\ cache' = Cleared(Settings \ Stubborn)
    /\ Goto(p, "cc")
    /\ UNCHANGED <<at, loaded, keys, staged, result, csv>>

(* Mutant: the rotation keys are never written. *)
NoRotationKeys ==
    [cc |-> "pk", pk |-> "sk", sk |-> "mk", mk |-> "drop", rk |-> "drop"]

(* The order in which fraud_client_keygen writes its files. *)
AfterKeyFile ==
    [cc |-> "pk", pk |-> "sk", sk |-> "mk", mk |-> "rk", rk |-> "drop"]

(* fraud_client_keygen, one file at a time: pc names the next one. *)
Keygen(p) ==
    /\ pc[p] \in KeyFiles
    /\ keys' = [keys EXCEPT ![Dir(p)][pc[p]] = job[p].run]
    /\ Goto(p, AfterKeyFile[pc[p]])
    /\ UNCHANGED <<at, loaded, staged, result, csv, cache>>

FirstRow(p) == Goto(p, IF job[p].rows = <<>> THEN "summary" ELSE "encrypt")

(* Mutant: results.csv keeps the lines of the last run. *)
KeepResults(p) ==
    /\ pc[p] = "drop"
    /\ FirstRow(p)
    /\ UNCHANGED <<at, loaded, keys, staged, result, csv, cache>>

(* results.csv is removed before the loop over the rows. *)
DropResults(p) ==
    /\ pc[p] = "drop"
    /\ csv' = [csv EXCEPT ![Dir(p)] = <<>>]
    /\ FirstRow(p)
    /\ UNCHANGED <<at, loaded, keys, staged, result, cache>>

-----------------------------------------------------------------------------
(* One row: encrypt, compute, decrypt *)

(* Mutant: the row number is not checked against the CSV. *)
CanEncryptAnyRow(p) == Loads(Dir(p), {"cc", "pk"})
CanEncrypt(p) == Loads(Dir(p), {"cc", "pk"}) /\ Row(p) \in Rows

Enciphered(p) == [tx |-> <<Dir(p), Row(p)>>, gen |-> keys[Dir(p)]["pk"]]

(* Mutant: the fixed name is staged for the first row only. *)
EncryptOnce(p) ==
    /\ pc[p] = "encrypt"
    /\ CanEncrypt(p)
    /\ staged' = IF staged[Dir(p)] = Absent
                 THEN [staged EXCEPT ![Dir(p)] = Enciphered(p)] ELSE staged
    /\ Goto(p, "unlink")
    /\ UNCHANGED <<at, loaded, keys, result, csv, cache>>

(* fraud_client_encrypt stages the row under the fixed name. *)
Encrypt(p) ==
    /\ pc[p] = "encrypt"
    /\ CanEncrypt(p)
    /\ staged' = [staged EXCEPT ![Dir(p)] = Enciphered(p)]
    /\ Goto(p, "unlink")
    /\ UNCHANGED <<at, loaded, keys, result, csv, cache>>

(* Mutant: an older result of this row stays. *)
KeepResult(p) ==
    /\ pc[p] = "unlink"
    /\ Goto(p, "lookup")
    /\ UNCHANGED <<at, loaded, keys, staged, result, csv, cache>>

(* The harness drops an older result of this row. *)
UnlinkResult(p) ==
    /\ pc[p] = "unlink"
    /\ result' = [result EXCEPT ![Dir(p)][Row(p)] = Absent]
    /\ Goto(p, "lookup")
    /\ UNCHANGED <<at, loaded, keys, staged, csv, cache>>

CanLoad(p) == Loads(Dir(p), {"cc", "mk", "rk"}) /\ Readable(staged[Dir(p)])

EvalKeys(p) == [mk |-> keys[Dir(p)]["mk"], rk |-> keys[Dir(p)]["rk"]]

(* Mutant: the cache is never found valid. *)
AlwaysCold(p) == TRUE
Cold(p)       == cache[Setting(p)] = NoTrace

(* fraud_server_sdk loads its inputs and asks is_cache_valid(). *)
LookUp(p) ==
    /\ pc[p] = "lookup"
    /\ CanLoad(p)
    /\ Goto(p, IF Cold(p) THEN "record" ELSE "replay")
    /\ loaded' = IF Cold(p) THEN [loaded EXCEPT ![p] = EvalKeys(p)] ELSE loaded
    /\ UNCHANGED <<at, keys, staged, result, csv, cache>>

(* The hollow recording is valid from stop() on: it holds the evaluation    *)
(* keys loaded above and the path of the staged input, but not the row.     *)
Record(p) ==
    /\ pc[p] = "record"
    /\ cache' = [cache EXCEPT ![Setting(p)] =
                   [inst |-> Dir(p), mk |-> loaded[p].mk, rk |-> loaded[p].rk]]
    /\ loaded' = [loaded EXCEPT ![p] = Absent]
    /\ Goto(p, "replay")
    /\ UNCHANGED <<at, keys, staged, result, csv>>

(* Trace t evaluated on ciphertext c: right only under c's own keys, and for *)
(* a transaction whose pre-activations stay in the range of the fit.         *)
Evaluate(t, c) ==
    IF t.mk = c.gen /\ t.rk = c.gen /\ c.tx \notin Divergent THEN c.tx ELSE Noise

(* What replay() reads: the project on disk, and the input at the path the *)
(* recording was made with.                                                *)
Recorded(p)  == cache[Setting(p)]
CanReplay(p) == Recorded(p) # NoTrace /\ Readable(staged[Recorded(p).inst])

(* replay(), result() and the write of the result ciphertext. *)
Replay(p) ==
    /\ pc[p] = "replay"
    /\ CanReplay(p)
    /\ LET c == staged[Recorded(p).inst] IN
       result' = [result EXCEPT ![Dir(p)][Row(p)] =
                    [tx |-> Evaluate(Recorded(p), c), gen |-> c.gen, run |-> job[p].run]]
    /\ Goto(p, "decrypt")
    /\ UNCHANGED <<at, loaded, keys, staged, csv, cache>>

(* `fog submit` may report success for a compute stage that wrote nothing. *)
ReplayLost(p) ==
    /\ pc[p] = "replay"
    /\ Setting(p) \in FogSettings
    /\ Goto(p, "decrypt")
    /\ UNCHANGED <<at, loaded, keys, staged, result, csv, cache>>

Decrypted(a, sk) == IF a.gen = sk THEN a.tx ELSE Noise

CanDecrypt(p) == Loads(Dir(p), {"cc", "sk"}) /\ Readable(result[Dir(p)][Row(p)])

(* Mutant: the loop ends one row early. *)
MoreRowsButOne(p) == at[p] < Len(job[p].rows) - 1
MoreRows(p) == at[p] < Len(job[p].rows)

(* fraud_client_decrypt appends a line; the loop goes on to the next row. *)
Decrypt(p) ==
    /\ pc[p] = "decrypt"
    /\ CanDecrypt(p)
    /\ LET a == result[Dir(p)][Row(p)] IN
       csv' = [csv EXCEPT ![Dir(p)] = Append(@,
                 [row |-> Row(p), tx |-> Decrypted(a, keys[Dir(p)]["sk"]), run |-> a.run])]
    /\ at' = [at EXCEPT ![p] = @ + 1]
    /\ Goto(p, IF MoreRows(p) THEN "encrypt" ELSE "summary")
    /\ UNCHANGED <<loaded, keys, staged, result, cache>>

(* Logits too large to be decoded: Decrypt() throws and no line is written. *)
DecryptThrows(p) ==
    /\ pc[p] = "decrypt"
    /\ CanDecrypt(p)
    /\ Decrypted(result[Dir(p)][Row(p)], keys[Dir(p)]["sk"]) = Noise
    /\ Exit(p, "failed")
    /\ UNCHANGED <<keys, staged, result, csv, cache, faults>>

-----------------------------------------------------------------------------
(* How a run ends *)

(* A line passes when its logits are those the model gives its row. *)
LineOk(i, line) == line.tx = <<i, line.row>>

AllLinesOk(i) == \A n \in 1..Len(csv[i]) : LineOk(i, csv[i][n])

(* Mutant: a run without a single line passes. *)
EmptyRunPasses(p) ==
    /\ pc[p] = "summary"
    /\ Goto(p, "check")
    /\ UNCHANGED <<at, loaded, keys, staged, result, csv, cache>>

(* The summary counts the lines of results.csv; without the file it fails. *)
Summarize(p) ==
    /\ pc[p] = "summary"
    /\ \/ csv[Dir(p)] = <<>> /\ Exit(p, "failed") /\ UNCHANGED faults
       \/ csv[Dir(p)] # <<>> /\ Goto(p, "check") /\ UNCHANGED <<at, loaded>>
    /\ UNCHANGED <<keys, staged, result, csv, cache>>

(* reference_check() reads the file again; one gone by now has no bad line. *)
Check(p) ==
    /\ pc[p] = "check"
    /\ Exit(p, IF AllLinesOk(Dir(p)) THEN "ok" ELSE "disagree")
    /\ UNCHANGED <<keys, staged, result, csv, cache, faults>>

Stuck(p) ==
    \/ pc[p] = "encrypt" /\ ~CanEncrypt(p)
    \/ pc[p] = "lookup"  /\ ~CanLoad(p)
    \/ pc[p] = "replay"  /\ ~CanReplay(p)
    \/ pc[p] = "decrypt" /\ ~CanDecrypt(p)

(* Mutant: the row is tried again instead. *)
StageRetries(p) ==
    /\ Stuck(p)
    /\ Goto(p, "encrypt")
    /\ UNCHANGED <<at, loaded, keys, staged, result, csv, cache>>

(* A stage that cannot load what it needs exits 1 and run() raises. *)
StageFails(p) ==
    /\ Stuck(p)
    /\ Exit(p, "failed")
    /\ UNCHANGED <<keys, staged, result, csv, cache, faults>>

Fault(p) ==
    /\ faults < MaxFaults
    /\ faults' = faults + 1
    /\ Exit(p, "failed")

(* Cut short between two writes: killed, or no transport server, or a replay *)
(* the backend fails.                                                        *)
AbortClean(p) ==
    /\ pc[p] # "idle"
    /\ Fault(p)
    /\ UNCHANGED <<keys, staged, result, csv, cache>>

(* Killed inside rmtree(io): any part of the directory may be left. *)
KillInWipe(p) ==
    /\ pc[p] = "wipe"
    /\ Fault(p)
    /\ LET i == Dir(p) IN
       \E F \in SUBSET KeyFiles, st \in {staged[i], Absent}, R \in SUBSET Rows,
          cs \in {csv[i], <<>>} :
         /\ keys'   = [keys EXCEPT ![i] =
                         [f \in KeyFiles |-> IF f \in F THEN keys[i][f] ELSE Absent]]
         /\ staged' = [staged EXCEPT ![i] = st]
         /\ result' = [result EXCEPT ![i] =
                         [r \in Rows |-> IF r \in R THEN result[i][r] ELSE Absent]]
         /\ csv'    = [csv EXCEPT ![i] = cs]
    /\ UNCHANGED cache

(* Killed while the traces are removed: any of them may be left. *)
KillInClear(p) ==
    /\ pc[p] = "clear"
    /\ Fault(p)
    /\ \E S \in SUBSET (Settings \ Stubborn) : cache' = Cleared(S)
    /\ UNCHANGED <<keys, staged, result, csv>>

(* Killed while a file is being written: it is left truncated. *)
KillInKeygen(p) ==
    /\ pc[p] \in KeyFiles
    /\ Fault(p)
    /\ keys' = [keys EXCEPT ![Dir(p)][pc[p]] = Torn]
    /\ UNCHANGED <<staged, result, csv, cache>>

KillInEncrypt(p) ==
    /\ pc[p] = "encrypt" /\ CanEncrypt(p)
    /\ Fault(p)
    /\ staged' = [staged EXCEPT ![Dir(p)] = Torn]
    /\ UNCHANGED <<keys, result, csv, cache>>

KillInReplay(p) ==
    /\ pc[p] = "replay" /\ CanReplay(p)
    /\ Fault(p)
    /\ result' = [result EXCEPT ![Dir(p)][Row(p)] = Torn]
    /\ UNCHANGED <<keys, staged, csv, cache>>

KeyOrder == <<"cc", "pk", "sk", "mk", "rk">>

(* fraud_client_keygen run by hand on an io-dir that no run is using; it may *)
(* be interrupted after n of its files, within the next one or before it.    *)
KeygenByHand(i) ==
    /\ HandKeygen
    /\ ~InUse(i)
    /\ launched < MaxRuns
    /\ launched' = launched + 1
    /\ \E n \in 0..Len(KeyOrder), torn \in BOOLEAN :
         LET written == {KeyOrder[m] : m \in 1..n}
             next    == IF torn /\ n < Len(KeyOrder) THEN {KeyOrder[n + 1]} ELSE {}
         IN keys' = [keys EXCEPT ![i] = [f \in KeyFiles |->
                       IF f \in written THEN launched + 1
                       ELSE IF f \in next THEN Torn ELSE keys[i][f]]]
    /\ UNCHANGED <<pc, job, at, loaded, status, staged, result, csv, cache, faults>>

-----------------------------------------------------------------------------
(* The specification *)

Step(p) ==
    \/ WipeIoDir(p) \/ ClearTraces(p) \/ Keygen(p) \/ DropResults(p)
    \/ Encrypt(p) \/ UnlinkResult(p) \/ LookUp(p) \/ Record(p)
    \/ Replay(p) \/ ReplayLost(p) \/ Decrypt(p) \/ DecryptThrows(p)
    \/ Summarize(p) \/ Check(p) \/ StageFails(p)

CutShort(p) ==
    \/ AbortClean(p) \/ KillInWipe(p) \/ KillInClear(p) \/ KillInKeygen(p)
    \/ KillInEncrypt(p) \/ KillInReplay(p)

(* Every run allowed by MaxRuns has ended. *)
Finished ==
    /\ launched = MaxRuns
    /\ \A p \in Runners : pc[p] = "idle"
    /\ UNCHANGED vars

Next ==
    \/ \E p \in Runners : Start(p) \/ Step(p) \/ CutShort(p)
    \/ \E i \in Instances : KeygenByHand(i)
    \/ Finished

(* A run is a sequential program that the operating system schedules. *)
Fairness == \A p \in Runners : WF_vars(Step(p))

Spec     == Init /\ [][Next]_vars
FairSpec == Spec /\ Fairness

-----------------------------------------------------------------------------
(* Properties *)

Loop == {"encrypt", "unlink", "lookup", "record", "replay", "decrypt"}
Ending == {"summary", "check"}
PC   == {"idle", "wipe", "clear", "drop"} \cup KeyFiles \cup Loop \cup Ending

(* Files and variables hold what they are declared to hold; a runner has a  *)
(* job exactly while its run lasts.                                         *)
TypeOK ==
    /\ pc       \in [Runners -> PC]
    /\ job      \in [Runners -> Job \cup {NoJob}]
    /\ \A p \in Runners : job[p] = NoJob <=> pc[p] = "idle"
    /\ at       \in [Runners -> Nat \ {0}]
    /\ loaded   \in [Runners -> EvalPair \cup {Absent}]
    /\ \A p \in Runners : pc[p] = "record" => loaded[p] # Absent
    /\ status   \in [Runners -> {"none", "running", "ok", "disagree", "failed"}]
    /\ launched \in 0..MaxRuns
    /\ keys     \in [Instances -> [KeyFiles -> Gen \cup {Absent, Torn}]]
    /\ staged   \in [Instances -> Cipher \cup {Absent, Torn}]
    /\ result   \in [Instances -> [Rows -> Answer \cup {Absent, Torn}]]
    /\ csv      \in [Instances -> Seq(Line)]
    /\ cache    \in [Settings -> Trace \cup {NoTrace}]
    /\ faults   \in 0..MaxFaults

(* "Done. Every transaction above agreed with the plaintext reference": a   *)
(* run that says so leaves one line per requested row, in order, each with  *)
(* that row's own score, whatever earlier runs left behind.  main() itself  *)
(* never compares results.csv with its row list.                            *)
Verified(p) ==
    LET out == csv[Dir(p)] IN
    /\ job[p].rows # <<>> /\ Len(out) = Len(job[p].rows)
    /\ \A n \in 1..Len(out) : out[n].row = job[p].rows[n] /\ LineOk(Dir(p), out[n])

ReportsDone(p) == status[p] = "running" /\ status'[p] = "ok"

DoneMeansVerified == [][\A p \in Runners : ReportsDone(p) => Verified(p)]_vars


(* "so the result can only come from the backend": from the first row on,   *)
(* every line of results.csv comes from a replay this very run asked for,   *)
(* never from a result file an earlier run left behind.                     *)
AnswersFromThisRun ==
    \A p \in Runners : pc[p] \in Loop \cup Ending =>
        \A n \in 1..Len(csv[Dir(p)]) : csv[Dir(p)][n].run = job[p].run

(* No wrong score is ever written: but for the transactions the model itself *)
(* diverges on, each line of results.csv is the score of its own row even    *)
(* before the reference check looks at it.                                   *)
NoWrongScore ==
    \A i \in Instances : \A n \in 1..Len(csv[i]) :
        <<i, csv[i][n].row>> \notin Divergent => LineOk(i, csv[i][n])

(* "The row's own ciphertext reaches the replay through the staged input":  *)
(* the trace a run is about to replay was recorded on its own io-dir.       *)
ReplaysOwnInput ==
    \A p \in Runners : pc[p] = "replay" /\ Recorded(p) # NoTrace =>
        Recorded(p).inst = Dir(p)

(* A trace that a run may replay holds the evaluation keys that lie in the  *)
(* io-dir it was recorded on: "a trace left over from a previous run would  *)
(* still look valid and would replay against the keys it was recorded with".*)
TraceFitsKeys ==
    \A p \in Runners : pc[p] \in Loop /\ Recorded(p) # NoTrace =>
        \A f \in KeyFiles : Readable(keys[Recorded(p).inst][f]) =>
            keys[Recorded(p).inst][f] \in {Recorded(p).mk} \cap {Recorded(p).rk}

(* "one recording serves them all": only the first row of a run can find    *)
(* the cache cold.                                                          *)
OneRecordingPerRun ==
    \A p \in Runners : pc[p] = "record" => at[p] = 1

(* A run on a fresh io-dir that is not cut short scores all its rows,       *)
(* whatever earlier runs, killed or not, left behind.  It is not so with a  *)
(* row "far outside" the standardized range, which "fails its reference     *)
(* check, or fails to decrypt at all".                                      *)
FreshRunSucceeds ==
    \A p \in Runners :
        (/\ pc[p] = "wipe" /\ faults = MaxFaults /\ job[p].rows # <<>>
         /\ \A n \in 1..Len(job[p].rows) : job[p].rows[n] \in Rows /\ <<Dir(p), job[p].rows[n]>> \notin Divergent)
        ~> (pc[p] = "idle" /\ status[p] = "ok")

(* Every run comes to an end. *)
RunsEnd == \A p \in Runners : pc[p] # "idle" ~> pc[p] = "idle"

(* The harness keeps the promise of ScoreService.  A client's answers are   *)
(* the lines of results.csv from the moment main() has dropped the file an  *)
(* earlier run left; a wrong line is one the reference check refuses.       *)
AnswerOf(i, line) == [row |-> line.row, right |-> LineOk(i, line)]

Answered(p) ==
    IF pc[p] \in Loop \cup Ending
    THEN [n \in 1..Len(csv[Dir(p)]) |-> AnswerOf(Dir(p), csv[Dir(p)][n])]
    ELSE <<>>

Requested(p) ==
    IF pc[p] = "idle" THEN NoJob ELSE [dataset |-> Dir(p), rows |-> job[p].rows]

Service == INSTANCE ScoreService WITH
    Clients    <- Runners,
    Datasets   <- Instances,
    RowNumbers <- Rows,
    Requests   <- RowLists,
    NoRequest  <- NoJob,
    request    <- [p \in Runners |-> Requested(p)],
    answers    <- [p \in Runners |-> Answered(p)],
    outcome    <- status

(* Every run, whatever the files it finds, is a run of the service: answers *)
(* in the order asked for, done only when all of them are right.            *)
ImplementsService == Service!Spec
=============================================================================
