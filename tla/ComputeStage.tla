---------------------------- MODULE ComputeStage ----------------------------
(***************************************************************************)
(* fraud_server_sdk call by call: the option scan that makes the cache     *)
(* key, the recording with its modes, the plaintext macro, the replay.     *)
(*                                                                         *)
(* Invocations follow one another, each may be killed before any step, and *)
(* the recorded traces outlive them.  The recorder, niobium::compiler(),   *)
(* is external: it records what is evaluated while it is running and not   *)
(* paused, skips the mathematics while it is hollow, and a trace is valid  *)
(* under its key once stop() has returned.                                 *)
(*                                                                         *)
(* FraudPipeline takes an invocation to be a lookup, a recording and a     *)
(* replay; this module shows what these come to.                           *)
(***************************************************************************)
EXTENDS Naturals, Sequences, FiniteSets

CONSTANTS
  CommandLines,    \* the command lines the stage is called with
  TargetIs,        \* "--target=FOG" |-> "FOG", ...
  LevelIs,         \* "--opt-level=O3" |-> "O3", "-O3" |-> "O3", ...
  BareLevel,       \* of these, the ones like "-O3"
  Encoded,         \* plaintexts encoded by the preprocessing: 1 .. Encoded
  Prep,            \* prep.arg0, prep.arg1, ...: what it returns of them
  Operations,      \* operations of the circuit: 1 .. Operations
  Loop,            \* of them, the iterations of a parallel loop
  ThreadCounts,    \* values of OMP_NUM_THREADS
  MaxCalls,        \* bound: invocations
  None

ASSUME StageAssumption ==
  /\ Encoded \in Nat \ {0} /\ Operations \in Nat \ {0}
  /\ Prep \in Seq(Seq(1 .. Encoded))
  /\ Loop \subseteq 1 .. Operations
  /\ ThreadCounts \subseteq Nat \ {0}
  /\ MaxCalls \in Nat
  /\ CommandLines \subseteq Seq(STRING)

-----------------------------------------------------------------------------
\* Command lines

\* Where a value stands: an argument that joins it, or one that precedes it.
Hits(args, joined, flag) ==
  {i \in 1 .. Len(args) :
     args[i] \in DOMAIN joined \/ (args[i] = flag /\ i < Len(args))}

\* The last one wins.
LastOf(hits) == CHOOSE i \in hits : \A j \in hits : j <= i
Last(args, joined, flag) ==
  LET hits == Hits(args, joined, flag)
      i == LastOf(hits)
  IN  IF hits = {} THEN None
      ELSE IF args[i] \in DOMAIN joined THEN joined[args[i]] ELSE args[i + 1]

nb_target(args) == Last(args, TargetIs, "--target")
nb_opt(args) == Last(args, LevelIs, "--opt-level")

\* Mutant: the opt level is no part of the key.
KeyOfTarget(args) == [target |-> nb_target(args), opt |-> None]

CacheKey(args) == [target |-> nb_target(args), opt |-> nb_opt(args)]

\* What init() makes of the same line: it does not know a bare -O3.
Or(value, default) == IF value = None THEN default ELSE value
Spelled == [arg \in DOMAIN LevelIs \ BareLevel |-> LevelIs[arg]]
Effective(args) ==
  [target |-> Or(nb_target(args), "local"),
   opt |-> Or(Last(args, Spelled, "--opt-level"), "O0")]

-----------------------------------------------------------------------------
VARIABLES
  pc,          \* the next call of the stage
  line,        \* its command line
  threads,     \* OMP_NUM_THREADS
  calls,       \* invocations so far
  mode,        \* the recorder: "off", "running" or "paused"
  hollow,      \* and its hollow mode
  trace,       \* the recording it is making
  prep,        \* number of plaintexts encoded, then of vectors tagged
  busy,        \* operations a thread is evaluating
  done,        \* operations evaluated
  traces,      \* the recorded projects on disk
  result       \* setting of the trace the result was replayed from

vars == <<pc, line, threads, calls, mode, hollow, trace, prep, busy, done,
          traces, result>>
setup == <<line, threads, calls>>

\* A tag is what was written, under which name, and whether it was computed.
Named(v, i, how) == [name |-> <<v, i>>, value |-> Prep[v][i], how |-> how]
How == IF hollow THEN "skipped" ELSE "computed"
Positions == UNION {{v} \X DOMAIN Prep[v] : v \in DOMAIN Prep}
NewTrace == [setting |-> Effective(line), tags |-> {}, instructions |-> {},
             probed |-> FALSE]

Init ==
  /\ pc = "exit" /\ line = << >> /\ threads = 1 /\ calls = 0
  /\ mode = "off" /\ hollow = FALSE /\ trace = None
  /\ prep = 0 /\ busy = {} /\ done = {}
  /\ traces = << >>
  /\ result = None

Step(from, to) == pc = from /\ pc' = to

\* main() up to the keys and the input; a load that fails ends it (Exit).
Invoke ==
  /\ Step("exit", "lookup")
  /\ calls < MaxCalls /\ calls' = calls + 1
  /\ line' \in CommandLines /\ threads' \in ThreadCounts
  /\ mode' = "off" /\ hollow' = FALSE /\ trace' = None
  /\ prep' = 0 /\ busy' = {} /\ done' = {} /\ result' = None
  /\ UNCHANGED traces

\* is_cache_valid(), and start() when it is not
LookUp ==
  /\ IF CacheKey(line) \in DOMAIN traces
     THEN Step("lookup", "replay") /\ UNCHANGED <<mode, trace>>
     ELSE Step("lookup", "pause") /\ mode' = "running" /\ trace' = NewTrace
  /\ UNCHANGED <<setup, hollow, prep, busy, done, traces, result>>

Pause ==
  /\ Step("pause", "encode")
  /\ mode' = "paused"
  /\ UNCHANGED <<setup, hollow, trace, prep, busy, done, traces, result>>

\* Named after the variable, as no vector is.
Inline(p) == [name |-> <<0, p>>, value |-> p, how |-> How]

\* Mutant: MAKE_PLAINTEXT does not ask whether the recorder is running.
EncodeAndResume ==
  /\ pc = "encode" /\ prep < Encoded
  /\ prep' = prep + 1
  /\ mode' = "running"
  /\ trace' = [trace EXCEPT !.tags = @ \union {Inline(prep + 1)}]
  /\ UNCHANGED <<pc, setup, hollow, busy, done, traces, result>>

\* MAKE_PLAINTEXT: a running recorder is paused for the encoding, given the
\* plaintext and resumed; a paused one is left alone.
Encode ==
  /\ pc = "encode" /\ prep < Encoded
  /\ prep' = prep + 1
  /\ trace' = IF mode = "running"
              THEN [trace EXCEPT !.tags = @ \union {Inline(prep + 1)}]
              ELSE trace
  /\ UNCHANGED <<pc, setup, mode, hollow, busy, done, traces, result>>

Prepared ==
  /\ prep = Encoded
  /\ Step("encode", "tag")
  /\ prep' = 0
  /\ UNCHANGED <<setup, mode, hollow, trace, busy, done, traces, result>>

\* tag_vec(prep.arg0, "w0"), ...
TagVector ==
  /\ pc = "tag" /\ prep < Len(Prep)
  /\ prep' = prep + 1
  /\ trace' = [trace EXCEPT !.tags = @ \union
       {Named(prep + 1, i, How) : i \in DOMAIN Prep[prep + 1]}]
  /\ UNCHANGED <<pc, setup, mode, hollow, busy, done, traces, result>>

\* resume(), enable_hollow_mode(true)
Resume ==
  /\ prep = Len(Prep)
  /\ Step("tag", "evaluate")
  /\ mode' = "running" /\ hollow' = TRUE
  /\ UNCHANGED <<setup, trace, prep, busy, done, traces, result>>

\* Mutant: every iteration has a thread of its own.
ReadyAtOnce(o) ==
  /\ o \notin done \union busy
  /\ \A b \in 1 .. o - 1 : b \in done \/ (o \in Loop /\ b \in Loop)

\* An operation may start when those before it are done; the iterations of a
\* parallel loop only wait for what lies before the loop.
Ready(o) ==
  /\ o \notin done \union busy
  /\ \A b \in 1 .. o - 1 : b \in done \/ (o \in Loop /\ b \in Loop)
  /\ Cardinality(busy) < (IF o \in Loop THEN threads ELSE 1)

BeginOperation ==
  /\ pc = "evaluate"
  /\ \E o \in 1 .. Operations : Ready(o) /\ busy' = busy \union {o}
  /\ UNCHANGED <<pc, setup, mode, hollow, trace, prep, done, traces, result>>

\* "recording is not thread-safe here": an instruction recorded while another
\* operation is under way may be lost.
EndOperation ==
  /\ pc = "evaluate"
  /\ \E o \in busy :
       /\ busy' = busy \ {o}
       /\ done' = done \union {o}
       /\ \/ /\ mode = "running"
             /\ trace' = [trace EXCEPT !.instructions = @ \union {o}]
          \/ /\ mode # "running" \/ busy # {o}
             /\ UNCHANGED trace
  /\ UNCHANGED <<pc, setup, mode, hollow, prep, traces, result>>

\* enable_hollow_mode(false), then the scale of the result is set
EndMath ==
  /\ done = 1 .. Operations
  /\ Step("evaluate", "probe")
  /\ hollow' = FALSE
  /\ UNCHANGED <<setup, mode, trace, prep, busy, done, traces, result>>

Probe ==
  /\ Step("probe", "stop")
  /\ trace' = [trace EXCEPT !.probed = ~hollow]
  /\ UNCHANGED <<setup, mode, hollow, prep, busy, done, traces, result>>

Stop ==
  /\ Step("stop", "replay")
  /\ mode' = "off"
  /\ LET key == CacheKey(line)
     IN  traces' = [k \in DOMAIN traces \union {key} |->
                      IF k = key THEN trace ELSE traces[k]]
  /\ UNCHANGED <<setup, hollow, trace, prep, busy, done, result>>

\* replay(), result() and the result file
Replay ==
  /\ Step("replay", "exit")
  /\ result' = traces[CacheKey(line)].setting
  /\ UNCHANGED <<setup, mode, hollow, trace, prep, busy, done, traces>>

\* A load or a replay that fails, an exception, a kill: no result is written.
Exit ==
  /\ pc # "exit" /\ pc' = "exit"
  /\ UNCHANGED <<setup, mode, hollow, trace, prep, busy, done, traces, result>>

Finished == pc = "exit" /\ calls = MaxCalls /\ UNCHANGED vars

Next ==
  \/ Invoke \/ LookUp \/ Pause \/ Encode \/ Prepared \/ TagVector \/ Resume
  \/ BeginOperation \/ EndOperation \/ EndMath \/ Probe \/ Stop \/ Replay
  \/ Exit \/ Finished

Spec == Init /\ [][Next]_vars

-----------------------------------------------------------------------------
\* Properties

Labels == {"exit", "lookup", "pause", "encode", "tag", "evaluate", "probe",
           "stop", "replay"}
Tag == [name : Positions \union ({0} \X (1 .. Encoded)),
        value : 1 .. Encoded, how : {"computed", "skipped"}]
Trace == [setting : {Effective(args) : args \in CommandLines},
          tags : SUBSET Tag, instructions : SUBSET (1 .. Operations),
          probed : BOOLEAN]

\* Every variable has its type, and no more operations are under way than
\* there are threads.
TypeOK ==
  /\ pc \in Labels /\ calls \in 0 .. MaxCalls
  /\ line \in CommandLines \union {<< >>} /\ threads \in Nat \ {0}
  /\ mode \in {"off", "running", "paused"} /\ hollow \in BOOLEAN
  /\ prep \in Nat
  /\ busy \subseteq 1 .. Operations /\ done \subseteq 1 .. Operations
  /\ Cardinality(busy) <= threads
  /\ trace \in Trace \union {None}
  /\ \A k \in DOMAIN traces : traces[k] \in Trace

\* What lies on disk under a key can stand for the circuit: it holds every
\* element of every vector of weights, under its name, computed and once, no
\* encoding or tag of the macro, every instruction, and a probed result.  It
\* takes the pause around the preprocessing, the macro's test of the recorder,
\* the two switches of hollow mode and a single thread, and survives a kill at
\* any call.
TraceIsComplete ==
  \A k \in DOMAIN traces :
    /\ traces[k].tags = {Named(p[1], p[2], "computed") : p \in Positions}
    /\ traces[k].instructions = 1 .. Operations
    /\ traces[k].probed

\* A result comes from a trace recorded at the target and opt level of the run
\* it is for ("without them a run at one setting would replay the trace made at
\* another"), as long as no level is given bare by some and spelled out by others.
ReplaysOwnSetting == result # None => result = Effective(line)
=============================================================================
