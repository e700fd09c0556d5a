# Verification of the encrypted fraud-detection pipeline

TLA+ specifications of this repository, the TLC runs that check them and the
TLAPS proofs about them. Everything is translated from the source; what lies in
submodules that are not in the tree (the Niobium client and recorder, OpenFHE,
the Fog command) is modelled from how the source uses it and marked external.

## 1. The system

A client scores card transactions with a neural network evaluated on encrypted
data. Four programs share files; a Python harness drives them.

| component | source | state it keeps | operations |
|---|---|---|---|
| run loop | `harness/run_submission.py` | where a run stands; its row list | keep test, wipe, remove traces, keygen, loop over rows, summary, exit code |
| keygen | `src/fraud_client_keygen.cc` | `cc pk sk mk rk .bin` of an io-dir | writes the five files, in that order |
| encrypt | `src/fraud_client_encrypt.cc` | `cipher_input.bin`, per-row copies, truth file | loads cc, pk; checks the row; stages the ciphertext |
| compute | `src/fraud_server_compute_sdk.cc` | evaluation keys in memory; `cipher_result_<row>.bin` | loads; looks the trace up; records if cold; always replays |
| decrypt | `src/fraud_client_decrypt.cc` | `results.csv` | loads cc, sk, result; appends a line |
| recorder and trace cache | external (`niobium::compiler()`) | `fraud-inference_*` in the repository root | valid? / record / replay |
| reference check | `harness/run_submission.py`, `harness/cleartext_impl.py` | - | recomputes each row in the clear, compares logits and verdict |
| instances | `harness/params.py` | - | io-dir from dataset and size; number of rows |
| transport server, Fog | `harness/run_submission.py` 61-120, 366 | a child process | start, poll, stop; one Fog job per row |
| kernel | `src/fraud_model_lib.inc.cc` | slots, level and scale of each ciphertext | packing, matrix products, activation |
| plaintext macro | `include/plaintext_macro.h` | recorder paused or not | pause, encode, resume |
| dataset script | `data/make_workload_dataset.py` | the rows so far | shuffled blocks with one fraud each, top-up, file |
| build and CI | `CMakeLists.txt`, `scripts/build_task.sh`, `.github/` | - | builds the stages |

How they interact: only through files and exit codes. The io-dir
(`io/<dataset>/<size>`) belongs to a dataset and size; the recorded traces are
keyed by target and opt level and shared by everything. A stage that cannot load
what it needs exits 1, `run()` raises and the harness stops. Nothing is locked.

What makes it hard: the trace is *not* keyed by the keys it was recorded with,
so the order in which keys, traces and inputs are made and removed decides
whether a replay means anything; a run may be killed anywhere and `--keep`
starts from what it left; the replay reads a path fixed when the trace was
recorded; two harness processes may run at once; a Fog job may come back with
nothing. Inside the kernel the scale and level of every ciphertext and hundreds
of rotation indices are managed by hand.

What makes each component correct:

- run loop: a run that says *Done* has verified exactly the rows asked for; no
  answer comes from an earlier run; every run ends; a fresh run that is not killed
  scores its rows, unless the activation diverges on one.
- keys and traces: a trace within reach of a run was made with the keys in its
  io-dir and on its own input; one recording per run.
- encrypt / decrypt: the row scored is the row asked for.
- compute: the trace replayed is the one for the effective target and opt level.
- reference check: passes only rows whose score is right, under the rounding,
  tolerance and row numbering of the code.
- transport server: comes up or the run fails; is stopped when the run ends; a
  run's replays never go to one that an earlier run should have stopped.
- recorder and macro: what lies on disk as a trace is complete: weights computed
  and tagged once, every instruction, a probed result.
- dataset: each prefix of blocks has its known number of frauds; no row twice.
- kernel: each plaintext reaches the product it is meant for; the packed products equal `Wx + b`; levels and scales agree at every
  addition; only generated rotation keys are used.

## 2. Modules

| module | models |
|---|---|
| `FraudPipeline` | run loop, the four stages, key files, staged input, results, trace cache; crashes; several runners |
| `ScoreService` | what the harness promises: a request, answers in order, a truthful report |
| `ComputeStage` | the compute stage call by call: option scan, cache key, recorder modes, plaintext macro, circuit threads |
| `ScoreFiles` | readers of the data file, the files of a row, what `results.csv` keeps, the reference check |
| `TransportServer` | choice of backend; start, health poll and stop of a server; other processes on its port |
| `WorkloadDataset` | the construction of the default dataset |
| `CkksEvaluator` | the OpenFHE operations the kernel calls (external): slots, level, scale, size of a ciphertext |
| `KernelLayouts` | weights as diagonals, biases and inputs in the layout of slots; the shape of each layer |
| `PlaintextStore` | how each weight gets from the layout to the operation that uses it: rotation, encoding, bundling, unpacking |
| `FraudKernel` | the inference circuit over these, from the packed transaction to two logits |
| `CleartextModel` | the forward pass of `cleartext_impl.py`, as the abstract specification of the kernel |
| `MCFraudPipeline`, `MCComputeStage`, `MCScoreFiles`, `MCTransportServer`, `MCWorkloadDataset`, `MCFraudKernel`, `MCWeights` | constants for TLC |
| `FraudPipelineProofs`, `ComputeStageProofs`, `ScoreFilesProofs`, `TransportServerProofs`, `WorkloadDatasetProofs`, `KernelLayoutsProofs`, `PlaintextStoreProofs`, `FraudKernelProofs` | theorems and their lemmas |

How they fit. `FraudPipeline` is the whole at the grain of files; it implements
`ScoreService`. Three modules look inside what it takes as one step or one
assumption:

- a compute stage there is a lookup, a recording and a replay of the trace under
  a key; `ComputeStage` shows that a recording is whole and that the key stands
  for the setting (where levels are spelled out);
- a replay with matching keys there gives the transaction's own score;
  `FraudKernel` shows that it does, as an implementation of `CleartextModel`;
- a line of `results.csv` there is right or wrong and a check says which;
  `ScoreFiles` shows what the check, the rounding and the row numbers come to.

`TransportServer` stands beside them: where the replays go. They are not
composed by `INSTANCE` because the state they share is a file name or an exit
code; the assumption each makes of the other is stated in its first comment.

### FraudPipeline

A process is a *runner* `p`: one execution of `run_submission.py` after another.
`pc[p]` is the statement it is about to execute:

    idle -> wipe -> clear -> cc -> pk -> sk -> mk -> rk -> drop
         -> (encrypt -> unlink -> lookup -> [record] -> replay -> decrypt)*
         -> summary -> check -> idle

One action is one write that another process, or a later run, can see: rmtree of
the io-dir, removal of the traces, each of keygen's five files, unlink of
`results.csv`, the staged input, unlink of the old result, the end of a
recording, the result ciphertext, the line of `results.csv`. Reads that belong
to one decision are in the action that decides; `results.csv` is read twice at
the end, to count (`Summarize`, line 379) and to check (`Check`, 393), with other
runs in between. `loaded[p]` is the memory of a
compute stage between its load of the evaluation keys and the end of its
recording.

| variable | in the code |
|---|---|
| `job[p]` | arguments of the run: io-dir, setting (target and opt level), row list, run number |
| `keys[i][f]` | key file `f` of io-dir `i`: the run whose keygen wrote it, `Absent` or `Torn` |
| `staged[i]` | `cipher_input.bin`: which transaction, under which key set |
| `result[i][r]` | `cipher_result_<r>.bin`: what it decrypts to, under which keys, which run made it |
| `csv[i]` | lines of `results.csv` |
| `cache[s]` | the trace under cache key `s`: evaluation keys and io-dir it was recorded with |
| `status[p]` | how the last run ended: Done (`ok`), rows refused (`disagree`), any other exit (`failed`) |

Data are abstract: a ciphertext is the transaction it encrypts and the key set;
evaluating a trace gives the transaction's score when all keys agree and `Noise`
otherwise; a line of `results.csv` is right when it holds the score of its own
row. `Divergent` are the transactions so far outside the training range that the
activation diverges (row 573 of `stream_1k`, `run_submission.py:126-135`): they
come out as `Noise` even under the right keys, and decrypting `Noise` either
gives a wrong line or throws (`DecryptThrows`). A cut-short run (`CutShort`) is a kill before any step, inside rmtree (any
files of the directory are left), inside the removal of traces, or inside the
write of a key file, the staged input or a result (a `Torn` file); it also
stands for a transport server that does not come up and a replay that fails.
Keygen by hand may be interrupted after any of its files or within one.

Left out: the per-row copies and truth files (written, never read by what is
checked), the text of the report, timing, `measurements/results.json`, the
build, and a line of `results.csv` cut in half (the next run removes the file
before it appends).

External facts assumed of the recorder, each from a comment or call of the
compute stage: a recording is valid from `stop()` on (173), the key holds
target and opt level only (113-122), a replay reads keys and input path from the
recorded project on disk (69-72, 127-130), the trace directories lie in the
repository root and match `fraud-inference_*` (harness 321-331).

### ScoreService

A client asks for a list of rows of a dataset; answers arrive one per row in that
order, each right or wrong; the request closes as *done* (all answered, all
right), *disagree* (all answered, some wrong) or *failed* (at any time).
`FraudPipeline` maps `request` to the job, `answers` to the lines of
`results.csv` from the moment an older file is dropped, `outcome` to `status`.

### ComputeStage

One action is one call of the stage, so that a kill can come before each.

| action | in the code (`fraud_server_compute_sdk.cc`) |
|---|---|
| `Invoke` | `main` up to loaded keys and input: a command line, a number of threads |
| `LookUp` | `is_cache_valid()`, and `start()` when it is not |
| `Pause`, `Resume` | `pause()` before the preprocessing; `resume()` and hollow mode after the tags |
| `Encode` | `MAKE_PLAINTEXT` (`plaintext_macro.h`): pause, tag and resume only when the recorder runs |
| `TagVector` | `tag_vec(prep.arg0, "w0")`, ... |
| `BeginOperation`, `EndOperation` | an operation of the recorded circuit; iterations of a parallel loop may overlap |
| `EndMath`, `Probe`, `Stop` | hollow mode off; the probe of the result; `stop()`, which puts the trace under its key |
| `Replay` | `replay()`, `result()`, the result file |
| `Exit` | any failure, or a kill |

`nb_target` and `nb_opt` scan a command line as the code does (joined or
separate value, bare `-O3`, last one wins); `CacheKey` is what they give,
`Effective` what the recorder makes of the same line. `mode`, `hollow` and
`trace` are the recorder's; `traces` are the recorded projects on disk. What is
recorded while another operation is under way may be lost, since "recording is
not thread-safe here".

### ScoreFiles

A run on one io-dir, kept or wiped, with the row list of `--row` or `--rows`:

    idle -> copy -> stage -> truth -> compute -> decrypt -> copy ... -> check* -> idle

`file` is a data file as lines: a transaction, nothing, or a carriage return
alone. Its three readers differ: `read_csv` (encrypt) drops empty lines and fails
on a carriage return, `avail` (harness) and `read_features` (reference) count
every line. `copy`, `truth`, `result` are files per row, `staged` the input under
its fixed name. Logits are integers of which
`Unit` make a millionth: `Printed` rounds half to even, the verdict of decrypt is
that of the unrounded logits, the check sees the printed ones. The write of the
label is not checked: with or without a kill it may leave a file without one.

### TransportServer

`pc` is the statement of the harness: `start`, `poll` (is the process alive?),
`curl` (does anything answer?), `rows`, `stop` and `wait` (the finally clause),
`summary`. `Begin` chooses the backend from target, `NBCC_FHETCH_SERVER`, the Fog
command and `--port`. External are the server processes (`Bind` when the port is
free, `Die` at any time, `Obey` SIGTERM unless `deaf`), other users of a port
(`TakePort`: a foreign process, or the transport server of somebody else's run)
and a kill of the harness, which leaves its server running. A health poll
believes whoever answers; a foreign process may make `curl -f` fail, or not.

Neither `curl` (114) nor a stage (58) has a time limit. `Hang` is the case that
the party it talks to, a listener on the port, the caller's server or the Fog,
accepts and never answers; `waits` names it, and the harness goes on only if that
party ends. Where curl is not installed the call raises (`NoCurl`) before the
caller holds the process, so nobody stops the server. `KillServer` is `kill()`
without a wait: the process holds its port until `Obey`, and answers nobody. The
process killed is taken to be the server: whether `fhetch_server.sh` execs it is
not in the tree.

### WorkloadDataset

`Block` is one turn of the loop: a fraud at any position (at the first in block
0) among fresh legitimate rows; `Write` tops up and writes. Shuffles are left to
the order the sources are numbered in.

### CkksEvaluator, KernelLayouts, FraudKernel and CleartextModel

A ciphertext is a record: its slots, the primes given up (`level`), the power of
the scaling factor its slots are multiplied by (`degree`), its polynomials
(`parts`, 3 between a product and its relinearisation) and `legal`, which an
operation that the library refuses, or that mixes scales or moduli, clears for
good. Real numbers are integers modulo a prime: additions and products are exact
and associative, so that the circuit is either the polynomial it should be or is
not, at nearly every point. An operation on operands of different scales gives
slots that decode to something else, as it does in the library.

| action of `FraudKernel` | in `fraud_model_lib.inc.cc` |
|---|---|
| `Encrypt` | `run_inference__encrypt__arg0`: the 82 features in rows of 128, through all slots |
| `BabySteps` | the parallel loop that rotates the layer's input; in layers 2 and 3 it first is rescaled |
| `Multiply` | a product with a pre-rotated diagonal, added to the giant step's sum |
| `GiantStep` | the sum rotated and added to those before |
| `Fold` | partial sums of a row added by rotation (64; 32, 16, 8, 4, 2); the bias comes in with the last |
| `EndLayer` | the bias where nothing is folded, and the rescale |
| `Activate` | the Chebyshev polynomial, operation by operation (`ChebyRelu`; the names of the code stand beside the lines) |
| `DecryptResult` | the client's loop over a layout, of which the last value of each parity stays |

`step` says what comes next in layer `layer`, `k` is the next diagonal or fold,
`ct` the input of the layer and later its result, `baby`, `part` and `acc` the
intermediate ciphertexts. The source is generated and unrolled; an action stands
for all its instances, with the index as `k`. Shapes and layouts come from
`KernelLayouts`. Left out: the order of the terms
of a sum (exact arithmetic cannot tell), the iterations of the parallel loop as
separate steps (each writes an element of its own), the weights as literals of
the generated code (any weights will do), noise.

`CleartextModel` is the reference in the clear as five steps on a vector,
`x -> z1 -> h1 -> z2 -> h2 -> logits`. Under the mapping of `FraudKernel` the
vector is what the kernel's `ct` decodes to; everything inside a layer is a
stutter, `EndLayer` is a matrix product and `Activate` an activation.

### PlaintextStore

The generated preprocessing rotates 172 diagonals in 17 blocks, encodes 205
plaintexts and returns them in 16 vectors; the circuit unpacks these under
numbers of its own. It is straight-line code and writes each name once, so the
module has no state: it is a chain of definitions in the order of the code,
`RightBy -> rotW1, rotW2 -> encoded -> arg0, arg(b) -> operand`. `FraudKernel`
multiplies by `operand[i]` with the `i` of the code, never by the diagonal it
should be; that the two are the same is a property (`OperandsInPlace`).

## 3. Runs

| run | expects | question |
|---|---|---|
| `single` | pass | one runner, one io-dir, all flags, row lists with no row, one row, a diverging row, a row out of range; a Fog setting whose jobs may deliver nothing; 3 runs, 2 killed |
| `serial` | pass | fresh runs of two datasets in turn, one killed, under fairness: nothing of one gets into the next, every run ends, one that is not killed and has no diverging row succeeds |
| `anything` | pass | two runners at once, `--keep`, keys remade by hand, a trace directory that cannot be removed: the promise of `ScoreService` still holds |
| `compute` | pass | three invocations at four settings, in every spelling the help gives, killed anywhere: is every trace on disk complete, and every result from a trace of its own setting? |
| `scores` | pass | two runs on one io-dir with four data files: what do Done and a refusal say about the scores? do a line's files belong together? |
| `server` | pass | two runs in every surrounding, late, dying, deaf and silent servers, ports taken by others, no curl, a kill: what can keep a run from ending, a server from being stopped, a replay from its own server? |
| `dataset` | pass | every total up to nine and number of frauds: are the prefixes exact and the rows distinct? |
| `kernel` | pass | the circuit with the network's dimensions: every operand in its place, same result as in the clear, layer by layer, within 15 levels and the generated keys |
| `keep_elsewhere` | violation | `--keep` on one dataset after a fresh run on another |
| `parallel_datasets` | violation | two fresh runs of two datasets at once |
| `shared_dir` | violation | two runs of one dataset and size, other opt level |
| `degree_five` | violation | is the activation a polynomial of degree 5? |

Bounds of the pipeline. Two ordinary rows, because every hazard is between a row
and the next or between a requested row and another, and a third that diverges in
one of the datasets; two io-dirs and two settings,
because traces are shared across the former and separate across the latter; three
runs, because the longest chain is *a run leaves something, a second (killed or by
hand) mixes it, a third meets it*; two faults, so that a run may meet the remains
of a run that met remains. Where only `--keep` or two processes matter the others
are fixed. Runners, datasets and settings are symmetric where no constant tells
them apart.

`compute`: three calls, so that a trace may be overwritten or outlive a killed
recording and still be replayed; five operations of which two are iterations of a
loop; three plaintexts, one of them in two vectors as in the code; one thread
(`OMP_NUM_THREADS=1`, which the harness sets). A bare level is in the command
lines (`-O1`) but never beside the same level spelled out: with both
`ReplaysOwnSetting` fails, see section 4.

`scores`: `Unit` is 4 (a millionth must be divisible by two for a tie in
rounding to exist), the tolerance 9 or none, the errors -45, -3, 0, 6 and 10:
nothing, three quarters of a millionth, within the tolerance, just over it, and
enough to turn a clear verdict; one transaction is undecided by a quarter of a
millionth. The files have an empty line at the end, one before a transaction, and
a carriage return. Two runs: one that leaves files, one that meets them.

`server`: three ports (given, found, another's), two health polls for 120 (a
first, which may fail, and a last), two runs, one kill, one other process, foreign
or another run's server. 652,609 states; `single`, `serial` and `anything` have
160,282, 437,364 and 1,105,478.
`dataset`: up to nine rows give every remainder a block length can leave.

The kernel is checked with the code's dimensions (82, 128, 64, 2), baby and giant
steps, rotations, keys and 15 levels. What is smaller is the ciphertext: 512 slots
and layouts of 256, two layouts to a ciphertext as in the code (32768 and 16384)
and two rows of 128 to a layout, so that a wrap around a row, a layout and the
ciphertext are three different things. The weights are arbitrary modulo 32749;
with three transactions a wrong index or sign shows in a logit. The same run
has been made once, with one transaction, at 8192 slots and layouts of 4096
(a quarter of the code's), with the same result.

Deadlock is checked in every run; the stutter `Finished` (`Done` in the kernel)
stands for the state in which all that the bounds allow has ended, `NoAnswer` in
`TransportServer` for a harness that hangs.

Fairness. `FraudPipeline!FairSpec`: weak fairness of each runner's own `Step`,
because a run is a sequential program. `serial`, which uses it, replays
in-process: every blocking call is a child that computes and exits.
`TransportServer!FairSpec`: weak fairness of the harness's statements (at most
120 polls a second apart, a wait of ten seconds), which are disabled while the
harness waits for a party that does not answer, and of `Obey`: a server that was
sent SIGTERM and heeds it exits, and one that was killed is gone. No answer of a
health poll or of a party beyond the network is assumed, so `RunsEnd` does not say
there that a run ends: it says that a run that does not, hangs in the end on one
call for ever. `ServersStop` names the four causes for which a server stays: its
run was killed, had no curl or hangs so, or gave up on it and it is deaf. Nothing
makes a server come up, die, take its port or fall silent, and faults, kills and
new runs have no fairness.

## 4. Findings

The violation runs show where the code does not do what its text says.

1. `keep_elsewhere`. "what lets the replay pick up this row's ciphertext from
   disk" (`fraud_server_compute_sdk.cc:127`): the path is that of the io-dir the
   trace was recorded in. A `--keep` run of another dataset replays the recorder's
   input. The reference check refuses the row.
2. `parallel_datasets`. "so runs don't clobber each other" (`params.py:86`): they
   share the traces. Here too the run exits with *disagree*; `DoneMeansVerified`
   holds (`anything`).
3. `shared_dir`. "Done. Every transaction above agreed" (`run_submission.py:431`):
   the rows asked for are never compared with the lines present; two runs that
   share an io-dir can lose a line and still say Done.
4. `degree_five`. "the degree-5 polynomial is evaluated on ciphertexts"
   (`docs/DESIGN.md:70`; `README.md:209` and `cleartext_impl.py:94` say the same):
   `T3` is multiplied by `T4` (kernel, line 9307), which makes degree 7. The
   reference evaluates the same expression, so the results agree (`kernel`).

Noted while modelling; the models contain the behaviour, but no run is spent on
it:

- A bare `-O3` is part of the cache key (`fraud_server_compute_sdk.cc:66`) though
  the recorder does not know it (usage, 51-52; `docs/NIOBIUM_CLIENT_TRANSPORT.md`,
  116-117): it can meet a trace made at a spelled-out O3 (`NoBareLevel` in the
  proof).
- That the recorded circuit has one thread is a matter of the environment the
  harness sets (`run_submission.py:359`); a stage run by hand with more loses
  instructions (`OneThread` in the proof; `fraud_model_lib.inc.cc:8985`).
- `docs/NIOBIUM_CLIENT_TRANSPORT.md:55-56` has the weights tagged inline by
  `MAKE_PLAINTEXT`; the recorder is paused there and `tag_vec` does it.
- "The verdict is always compared" (`run_submission.py:233`): the one compared is
  that of the printed logits, not decrypt's (`fraud_client_decrypt.cc:61`); they
  differ where the logits are a millionth apart (`NearTie`).
- `read_features` is said to mirror `read_csv`; it counts empty lines, which
  `read_csv` skips (`Plain`).
- With `--port` the server of a killed run answers the health poll of the next
  and gets its replays (`run_submission.py:114`; `LeftServer`). Another run's
  server that takes the free port does so too (`Other`).
- The health poll is counted (111) but a poll has no time limit (114), nor has a
  stage (58): a listener that never answers holds the run, and `terminate()` is
  not reached (`Hang`). Without curl the server is not asked to stop (`NoCurl`).
- One row the activation diverges on (`run_submission.py:126-135`) ends the run at
  that row when decrypt throws, and leaves the rows after it unscored
  (`DecryptThrows`).
- Between the two reads of `results.csv` (379, 393) a run that shares the io-dir
  can remove it: `reference_check` then returns no lines and Done is said of none
  (`Check`; `shared_dir`).
- A server that never gets healthy is asked to stop, not waited for
  (`NoServerLeft`).
- A local run inherits `NBCC_FHETCH_SERVER` and then is not local
  (`run_submission.py:359`; `Destination`).
- The report calls a server the harness started "a real Niobium FPGA, as a job on
  the Fog" (`run_submission.py:390`, 381-382), and with `--keep` may take the
  firmware time from the log of an earlier run's server (405, 416-420).
- The staged input is "written last so its timestamp is the newest thing in the
  io-dir" (`fraud_client_encrypt.cc:67-69`), but the truth file is written after it
  (73-77) and `transport_server.log` while rows are scored (`run_submission.py:339`).
  Whether a replay looks at the time is inside the recorder; no property is about
  it.
- "So a stage can be re-run by hand" (`README.md:62`): keygen by hand leaves the
  trace, and the next `--keep` run writes wrong scores, which are refused.
- `--io-dir=DIR` is not parsed where `--row=N` is (`fraud_bench_common.h:99-101`).

## 5. Proofs

`FraudPipelineProofs` proves, for every value of the constants that meets
`PipelineAssumption`:

| theorem | assumes | shows |
|---|---|---|
| `TypeCorrect` | - | `TypeOK` |
| `AnswersAreFresh` | `Exclusive` | `AnswersFromThisRun` |
| `DoneIsVerified` | `Exclusive` | `DoneMeansVerified` |
| `HarnessIsService` | `Exclusive` | `ImplementsService` |
| `ScoresAreRight` | `OneAtATime` | `NoWrongScore`, of rows that do not diverge |
| `InputIsOwn` | `OneAtATime` | `ReplaysOwnInput` |
| `TraceIsCurrent` | `OneAtATime` | `TraceFitsKeys` |
| `OneRecordingServes` | `OneRunner` | `OneRecordingPerRun` |

`Exclusive`: no two runs share an io-dir (or there is one runner). `OneAtATime`:
one runner, one io-dir or no `--keep`, traces that can be removed, no keygen by
hand. `keep_elsewhere`, `parallel_datasets` and `shared_dir` each drop one of
these and find a violation, so they are needed.

The argument has three layers, each an inductive invariant that contains the one
before.

- `TypeInv`: `TypeOK`, and the row number was checked once the row is staged
  (without it the result file written is not known to be one of the CSV's).
- `RunInv`: a busy runner is alone in its io-dir; at index `at` the file holds
  exactly `at - 1` lines, those of this run and in order (`Progress`); a result
  that decrypt can read was made by this run (`FreshResult`: nothing lies there
  between unlink and replay).
- `ScoreInv`: all key files of an io-dir that can be read are of one key set
  unless the run that is writing them is still at it (`OneKeySet`, `CleanSetup`);
  any trace holds the keys of the io-dir it was recorded on (`TracesFit`); in the
  loop the trace is this io-dir's (`OwnTraces`); what is staged and computed is
  the row of the loop (`RowData`).

`OneRecordingServes` has an invariant of its own, `TraceInv`: once a run has
recorded there is a trace it finds (`HasTrace`), and with one runner nobody is
there to remove it. It needs neither fresh keys nor traces that can be removed.

The refinement is proved action by action: setting up and working on a row map
to stutters (`SilentSame`), `Start` to `Ask`, `Decrypt` to `AnswerNext`, the
summary to one of the three reports (`Progress` gives the count), any other end
to `ReportFailure`.

`FraudKernelProofs` proves, for all weights, transactions, moduli, scaling
factors and ciphertext sizes that meet `EvaluatorAssumption`, `KernelAssumption`
and `ParametersAssumption` (15 levels, a key for each amount in the generated
list):

| theorem | shows |
|---|---|
| `LevelsAndScales` | `KernelInv`: level and scale of every register at every step |
| `KernelTypeCorrect` | `TypeOK` |
| `StepsAreLegal` | `NoIllegalStep` |
| `ResultIsReady` | `ReadyToDecrypt` |
| `OperandsAreInPlace` | `OperandsInPlace` |
| `ValuesHold` | `KernelInv` and `ValueInv`: what every register stands for at every step |
| `SlotsAreFilled` | `EverySlotFilled` |
| `KernelImplementsCleartext` | `ImplementsCleartext`: the circuit is a run of `CleartextModel` |
| `StoreServesCircuit` (`PlaintextStoreProofs`) | the operand under each of the 206 numbers is the diagonal, bias or constant it stands for |

`NoIllegalStep` is not inductive: that an addition is legal depends on the levels
and scales of its operands. `KernelInv` gives them. The products of layer 1, 2, 3
start at level 0, 7, 14 (`Start`); there the rotated inputs have one power of the
scaling factor and all sums two; a layer ends a level lower with one power; the
activation spends five more and leaves the rescale to the next layer
(`LayerInput`). The counter says which of `part` and `acc` hold something. One
lemma per library operation says what it does to level and scale (`RotateSound`
to `EncryptedSound`); `ReluSound` follows the activation through its
ciphertexts with them; `DiagonalTyped` shows that no diagonal reads outside its
matrix; `ShapeFacts` that every rotation has its key.

`StoreServesCircuit` follows a number backwards along the chain: which vector and
place it is unpacked from, which plaintext was put there (`OperandOrigin`), which
row that one encodes (`EncodedAsExpected`), and that the two copies of a block are
a rotation (`RightByRotates`, `RotW1`, `RotW2`). The indices are literals, so the
proof is by ranges of them, for any weights and any sizes of layout and
ciphertext. The 172 generated blocks are written here as the regular formulas they
follow; a slip in a single literal of the generated code would not show.

The values. `EverySlotFilled` and the refinement are consequences of what the
registers hold between the steps, `ValueInv`. In terms of `Row(c, l, s, m, w)`,
the part of the product of slot `s`'s row with the input `c` whose columns lie,
seen from `s` and around a cycle of `m`, among the next `w`:

- `ct` repeats with the width of the layer's input, and `baby[r]` is `ct` rotated
  by `r` (`Rotated`);
- after `n` diagonals `acc` and `part` together hold, in each slot, the next `n`
  columns around the layer's period (`Summed`): `RowGrows` says that one more
  diagonal is one more column of every row. What `part` holds is still to be
  rotated by the giant step, which is why its diagonals were rotated back
  beforehand;
- a fold adds the same sums from half a cycle further on, and so halves the cycle
  (`RowFolds`; 128, 64 in layer 2, 64 down to 2 in layer 3); when the cycle is as
  long as the columns summed, these are all the columns, once each (`RowFull`);
  the bias comes in with the last fold (`Folded`).

These sums are those of `CleartextModel`, up to the order of the terms and the
zeros of the padding (`SumOfSums`, `SumEqual`, `SumZero`, `SumWithTerm`). Values
are integers modulo `P`, so sums may be split and reordered; the activation is
the same polynomial in the clear and in a slot (`ReluValue`), whatever its
coefficients. In the refinement `EndLayer` is a matrix product, `Activate` an
activation and every other step leaves what `ct` decodes to as it is.

Induction. TLAPS cannot instantiate the induction theorems of its library, which
take an operator, so the proofs bring a principle about sets: that the naturals
are well founded (library) gives a least element of any set of naturals
(`LeastNumber`), and that a set that holds 0 and with `n` also `n + 1` holds all
of them (`SetInduction`). A recursive function is what it says by an induction
of its own, that a function with its equation exists (`PartialExists`,
`ReadingExists`).

`ComputeStageProofs` proves, for all circuits, command lines and bundles that
meet `StageAssumption`:

| theorem | assumes | shows |
|---|---|---|
| `StageTypeCorrect` | `OneThread` | `TypeOK` |
| `TracesAreComplete` | `OneThread` | `TraceIsComplete` |
| `SettingIsOwn` | `OneThread`, `NoBareLevel` | `ReplaysOwnSetting` |

The invariant says what the recording holds at each call: nothing while the
recorder is paused and encoding, the tags of the first `prep` vectors while
tagging, the instructions that are `done` while evaluating; and that at most one
operation is under way, so none is lost. A trace gets to disk only from `stop`,
where all of these are complete, so a kill anywhere else leaves `traces` alone.
The setting is a function of the cache key only if no level is given bare.

`ScoreFilesProofs` proves, for all data files, requests, labels, references and
client errors that meet `ScoreAssumption`:

| theorem | shows |
|---|---|
| `FilesAreTogether` | `FilesBelongTogether` |
| `ScoresTypeCorrect` | `TypeOK` |
| `ReadersAlwaysAgree` | `ReadersAgree` |
| `DoneConfirmsVerdicts` | `VerdictsConfirmed` |
| `DoneCatchesDrift` | `DriftCaught` |
| `RefusalsHaveCause` | `RefusedForCause` |

`ScoreInv` says what has been written of the row at each stage (`RowData`) and that
the lines of `results.csv` are those of the row list in order (`InOrder`: the row
in hand has no line yet, so writing its files touches no finished line). Of
`read_csv` this needs only that a row is one transaction while it is worked on.

The other five rest on `RunInv`, which follows a score to the outcome: the row in
work was accepted by encrypt (`Accepted`); each line of `results.csv` has the
transaction `read_csv` finds under its row and the verdict of its unprinted logits
(`Scored`); each check is the comparison of the printed logits with the reference
of the line the harness counts (`Confirmed`); and the outcome is said only when
every line has been checked (`Concluded`). Four lemmas turn this into what Done
and a refusal mean: `RowsKept` (what `read_csv` keeps are lines of the file that
are not empty, by induction over the lines), `RowsInPlace` (in a plain file they
keep their places, so both readers agree), and `PrintingKeepsVerdict` and
`PrintingKeepsDeviation`, from `PrintedIsNear`: printing moves a logit by half a
unit at most. The bounds in the properties are the ones these lemmas give.

`WorkloadDatasetProofs` proves, for every total, every number of frauds in it and
every choice of positions:

| theorem | shows |
|---|---|
| `PrefixesAlwaysExact` | `PrefixesAreExact` |
| `WorkloadAlwaysWhole` | `WorkloadIsWhole` |

`DatasetInv` adds to these how far the loop is: `b` blocks written are `b * block`
rows and `b * (block - 1)` legitimate ones (`Progress`), sources used up lie
below the counters, so that a fresh one was never written (`Used`), and each
block has one fraud (`Spread`). `LegitimateLeft` shows that a slice of the
legitimate rows is never cut short, `ChunkRows` what a block looks like with
its fraud inserted, and `BlockLength` that what the blocks leave over is the
remainder of the division.

`TransportServerProofs` proves, for any number of runs, ports, polls, kills and
other processes:

| theorem | shows |
|---|---|
| `ServerTypeCorrect` | `TypeOK` |
| `ServersAreStopped` | `NoServerLeft` |
| `ReplaysGoHome` | `OwnServerReplays` |

by `ServerInv`: where in the code a server is held and what it may be doing there
(`Stations`), that a server that listens on a port is alive or was killed a moment
ago (`HoldersLive`), and the two properties themselves; `OwnServerReplays` needs
`NoServerLeft` of the earlier runs and that a run that was able to stop its
server has waited for it.

Every safety property that a passing run checks is stated by a theorem. Only
model-checked: everything under fairness (`RunsEnd`, `FreshRunSucceeds`,
`ServersStop`), which TLAPS does not reach. Where a theorem has an assumption
(`Exclusive`, `OneAtATime`, `OneThread`, `NoBareLevel`) the runs have it too,
or a run or section 4 shows what happens without.

## 6. Plan

Done, in order: `FraudPipeline` with `ScoreService`; `FraudKernel` with
`CkksEvaluator` and `CleartextModel`; `PlaintextStore`; `ComputeStage`;
`ScoreFiles`; `TransportServer`; `WorkloadDataset`; the proofs of section 5.

Left, where it would pay: a module in which `FraudPipeline`'s lookup and recording
are those of `ComputeStage`, and its check of a line that of `ScoreFiles`, with
the mapping proved; for the properties under fairness, the invariants a proof of
them would use (which step is enabled where).

## 7. Not modelled

- Build files and CI: no state at run time.
- Argument parsing beyond the options that choose what a run does; the
  out-of-range note (`read_bounds`, `check_bounds`), which is printed and decides
  nothing; log and report text; timing and `measurements/results.json`, which
  nothing in the repository reads.
- The shim directory and the library paths a server is started with.
- How the recorder stores a trace, what a Fog job does and what OpenFHE does
  inside an operation: not in the tree.
- Noise and the precision it leaves, and the weight literals of the kernel
  against those of the reference: data, compared by running the program.
- The network's quality.
