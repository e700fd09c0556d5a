------------------------- MODULE ComputeStageProofs -------------------------
(***************************************************************************)
(* What an invocation of the compute stage leaves on disk, for every       *)
(* network, every number of operations and every set of command lines.     *)
(***************************************************************************)
EXTENDS ComputeStage, FiniteSetTheorems, WellFoundedInduction, TLAPS

(* The harness sets OMP_NUM_THREADS to 1. *)
OneThread == ThreadCounts = {1}

(* Levels are spelled out, as the harness does. *)
NoBareLevel ==
  \A args \in CommandLines : \A i \in 1 .. Len(args) : args[i] \notin BareLevel

-----------------------------------------------------------------------------
(* The inductive invariant *)

(* The tags of the vectors up to v. *)
TagsUpTo(n) == {Named(p[1], p[2], "computed") : p \in {q \in Positions : q[1] <= n}}
AllTags == {Named(p[1], p[2], "computed") : p \in Positions}

(* The trace being made holds these tags and instructions. *)
Holds(tags, instructions) ==
  /\ trace \in Trace
  /\ trace.setting = Effective(line)
  /\ trace.tags = tags /\ trace.instructions = instructions

Idle == busy = {} /\ done = {}

(* Where the recorder and its trace stand at each call. *)
StageAt ==
  /\ pc = "lookup" => Idle /\ prep = 0 /\ ~hollow
  /\ pc = "pause" => /\ Idle /\ prep = 0 /\ ~hollow
                     /\ Holds({}, {})
  /\ pc = "encode" => /\ Idle /\ mode = "paused" /\ ~hollow
                      /\ prep \in 0 .. Encoded
                      /\ Holds({}, {})
  /\ pc = "tag" => /\ Idle /\ mode = "paused" /\ ~hollow
                   /\ prep \in 0 .. Len(Prep)
                   /\ Holds(TagsUpTo(prep), {})
  /\ pc = "evaluate" => /\ mode = "running" /\ hollow
                        /\ Holds(AllTags, done)
  /\ pc = "probe" => ~hollow /\ Holds(AllTags, 1 .. Operations)
  /\ pc = "stop" => Holds(AllTags, 1 .. Operations) /\ trace.probed
  /\ pc = "replay" => CacheKey(line) \in DOMAIN traces

(* One thread evaluates one operation at a time. *)
OneAtATime ==
  /\ done \subseteq 1 .. Operations /\ busy \subseteq 1 .. Operations
  /\ busy = {} \/ \E o \in 1 .. Operations : busy = {o}

(* A trace on disk is complete and was made by a command line with its key. *)
StoredTrace(t, key) ==
  /\ t \in Trace
  /\ t.tags = AllTags /\ t.instructions = 1 .. Operations /\ t.probed
  /\ \E args \in CommandLines : CacheKey(args) = key /\ t.setting = Effective(args)

Scalars ==
  /\ pc \in Labels /\ calls \in 0 .. MaxCalls /\ threads = 1
  /\ line \in CommandLines \union {<< >>}
  /\ pc # "exit" => line \in CommandLines
  /\ mode \in {"off", "running", "paused"} /\ hollow \in BOOLEAN /\ prep \in Nat
  /\ trace \in Trace \union {None}

StageInv ==
  /\ Scalars
  /\ OneAtATime
  /\ StageAt
  /\ \A key \in DOMAIN traces : StoredTrace(traces[key], key)

-----------------------------------------------------------------------------
(* Tags *)

LEMMA SeqFacts ==
  ASSUME NEW S, NEW s \in Seq(S)
  PROVE  /\ Len(s) \in Nat /\ DOMAIN s = 1 .. Len(s)
         /\ \A i \in DOMAIN s : s[i] \in S
OBVIOUS

LEMMA PrepFacts ==
  /\ Len(Prep) \in Nat /\ DOMAIN Prep = 1 .. Len(Prep)
  /\ \A v \in DOMAIN Prep :
       /\ Len(Prep[v]) \in Nat /\ DOMAIN Prep[v] = 1 .. Len(Prep[v])
       /\ \A i \in DOMAIN Prep[v] : Prep[v][i] \in 1 .. Encoded
<1>1. Prep \in Seq(Seq(1 .. Encoded))
  BY StageAssumption
<1>2. \A v \in DOMAIN Prep : Prep[v] \in Seq(1 .. Encoded)
  BY <1>1
<1>3. ASSUME NEW v \in DOMAIN Prep
      PROVE  /\ Len(Prep[v]) \in Nat /\ DOMAIN Prep[v] = 1 .. Len(Prep[v])
             /\ \A i \in DOMAIN Prep[v] : Prep[v][i] \in 1 .. Encoded
  <2>1. Prep[v] \in Seq(1 .. Encoded)
    BY <1>2
  <2> QED BY <2>1, SeqFacts, Zenon
<1>4. Len(Prep) \in Nat /\ DOMAIN Prep = 1 .. Len(Prep)
  BY <1>1
<1> QED BY <1>3, <1>4

LEMMA NamedTyped ==
  ASSUME NEW p \in Positions
  PROVE  Named(p[1], p[2], "computed") \in Tag
<1>1. PICK v \in DOMAIN Prep : p \in {v} \X DOMAIN Prep[v]
  BY DEF Positions
<1>2. PICK i \in DOMAIN Prep[v] : p = <<v, i>>
  BY <1>1
<1>3. Prep[v][i] \in 1 .. Encoded
  BY PrepFacts
<1>4. p \in Positions \union ({0} \X (1 .. Encoded))
  OBVIOUS
<1>5. Named(p[1], p[2], "computed") = [name |-> p, value |-> Prep[v][i], how |-> "computed"]
  BY <1>2 DEF Named
<1> QED BY <1>3, <1>4, <1>5 DEF Tag

LEMMA PositionsOfVector ==
  ASSUME NEW v \in DOMAIN Prep
  PROVE  \A q : q \in Positions /\ q[1] = v <=> \E i \in DOMAIN Prep[v] : q = <<v, i>>
<1>1. ASSUME NEW q, q \in Positions, q[1] = v
      PROVE  \E i \in DOMAIN Prep[v] : q = <<v, i>>
  <2>1. PICK w \in DOMAIN Prep : q \in {w} \X DOMAIN Prep[w]
    BY <1>1 DEF Positions
  <2>2. PICK i \in DOMAIN Prep[w] : q = <<w, i>>
    BY <2>1
  <2> QED BY <1>1, <2>2
<1>2. ASSUME NEW i \in DOMAIN Prep[v]
      PROVE  <<v, i>> \in Positions
  <2>1. <<v, i>> \in {v} \X DOMAIN Prep[v]
    OBVIOUS
  <2> QED BY <2>1 DEF Positions
<1> QED BY <1>1, <1>2

LEMMA PositionsTyped ==
  \A q \in Positions : q[1] \in 1 .. Len(Prep)
<1>1. SUFFICES ASSUME NEW q \in Positions PROVE q[1] \in 1 .. Len(Prep)
  OBVIOUS
<1>2. PICK w \in DOMAIN Prep : q \in {w} \X DOMAIN Prep[w]
  BY DEF Positions
<1> QED BY <1>2, PrepFacts

LEMMA NoTags == TagsUpTo(0) = {}
BY PositionsTyped, PrepFacts DEF TagsUpTo

LEMMA TagsComplete == TagsUpTo(Len(Prep)) = AllTags
BY PositionsTyped, PrepFacts DEF TagsUpTo, AllTags

(* tag_vec adds the elements of one more vector. *)
LEMMA NextTags ==
  ASSUME NEW n \in 0 .. Len(Prep) - 1
  PROVE  TagsUpTo(n + 1)
           = TagsUpTo(n) \union {Named(n + 1, i, "computed") : i \in DOMAIN Prep[n + 1]}
<1>0. n \in Nat /\ n + 1 \in DOMAIN Prep
  BY PrepFacts
<1>1. \A q \in Positions : q[1] <= n + 1 <=> q[1] <= n \/ q[1] = n + 1
  BY PositionsTyped, <1>0, PrepFacts
<1>2. ASSUME NEW t \in TagsUpTo(n + 1)
      PROVE  t \in TagsUpTo(n) \union {Named(n + 1, i, "computed") : i \in DOMAIN Prep[n + 1]}
  <2>1. PICK q \in Positions : q[1] <= n + 1 /\ t = Named(q[1], q[2], "computed")
    BY DEF TagsUpTo
  <2>2. CASE q[1] <= n
    BY <2>1, <2>2 DEF TagsUpTo
  <2>3. CASE q[1] = n + 1
    <3>1. PICK i \in DOMAIN Prep[n + 1] : q = <<n + 1, i>>
      BY <1>0, <2>3, PositionsOfVector
    <3> QED BY <2>1, <3>1
  <2> QED BY <1>1, <2>1, <2>2, <2>3
<1>3. TagsUpTo(n) \subseteq TagsUpTo(n + 1)
  BY <1>1 DEF TagsUpTo
<1>4. ASSUME NEW i \in DOMAIN Prep[n + 1]
      PROVE  Named(n + 1, i, "computed") \in TagsUpTo(n + 1)
  <2>1. <<n + 1, i>> \in Positions
    BY <1>0, PositionsOfVector
  <2>2. n + 1 <= n + 1
    BY <1>0
  <2> QED BY <2>1, <2>2 DEF TagsUpTo
<1> QED BY <1>2, <1>3, <1>4

LEMMA TagsTyped == AllTags \subseteq Tag /\ \A n : TagsUpTo(n) \subseteq Tag
BY NamedTyped DEF AllTags, TagsUpTo

-----------------------------------------------------------------------------
(* Every call preserves it *)

LEMMA InvokePreserves ==
  ASSUME StageInv, OneThread, Invoke
  PROVE  StageInv'
<1>1. /\ pc' = "lookup" /\ calls' \in 0 .. MaxCalls /\ threads' = 1
      /\ line' \in CommandLines
      /\ mode' = "off" /\ hollow' = FALSE /\ trace' = None
      /\ prep' = 0 /\ busy' = {} /\ done' = {} /\ traces' = traces
  BY StageAssumption DEF Invoke, Step, StageInv, Scalars, OneThread
<1>2. Scalars'
  BY <1>1 DEF Scalars, Labels
<1>3. OneAtATime'
  BY <1>1 DEF OneAtATime
<1>4. StageAt'
  BY <1>1 DEF StageAt, Idle
<1> QED BY <1>1, <1>2, <1>3, <1>4 DEF StageInv, StoredTrace

LEMMA LookUpPreserves ==
  ASSUME StageInv, LookUp
  PROVE  StageInv'
<1>1. /\ pc = "lookup" /\ line \in CommandLines
      /\ UNCHANGED <<line, threads, calls, hollow, prep, busy, done, traces, result>>
  BY DEF LookUp, Step, StageInv, Scalars, setup
<1>2. Idle /\ prep = 0 /\ ~hollow
  BY <1>1 DEF StageInv, StageAt
<1>3. OneAtATime'
  BY <1>1 DEF StageInv, OneAtATime
<1>4. CASE CacheKey(line) \in DOMAIN traces
  <2>1. pc' = "replay" /\ mode' = mode /\ trace' = trace
    BY <1>4 DEF LookUp, Step
  <2>2. Scalars'
    BY <1>1, <2>1 DEF StageInv, Scalars, Labels
  <2>3. StageAt'
    BY <1>1, <1>4, <2>1 DEF StageAt, CacheKey
  <2> QED BY <1>1, <1>3, <2>2, <2>3 DEF StageInv, StoredTrace
<1>5. CASE CacheKey(line) \notin DOMAIN traces
  <2>1. pc' = "pause" /\ mode' = "running" /\ trace' = NewTrace
    BY <1>5 DEF LookUp, Step
  <2>2. NewTrace \in Trace
    BY <1>1 DEF NewTrace, Trace
  <2>3. Scalars'
    BY <1>1, <2>1, <2>2 DEF StageInv, Scalars, Labels
  <2>4. trace' \in Trace /\ trace'.setting = Effective(line)
        /\ trace'.tags = {} /\ trace'.instructions = {}
    BY <2>1, <2>2 DEF NewTrace
  <2>5. Effective(line)' = Effective(line)
    BY <1>1 DEF Effective
  <2>6. Holds({}, {})'
    BY <2>4, <2>5 DEF Holds
  <2>7. StageAt'
    BY <1>1, <1>2, <2>1, <2>6 DEF StageAt, Idle
  <2> QED BY <1>1, <1>3, <2>3, <2>7 DEF StageInv, StoredTrace
<1> QED BY <1>4, <1>5

(* Between lookup and stop only the trace in memory changes. *)
LEMMA PausePreserves ==
  ASSUME StageInv, Pause
  PROVE  StageInv'
<1>1. /\ pc = "pause" /\ pc' = "encode" /\ mode' = "paused"
      /\ UNCHANGED <<line, threads, calls, hollow, trace, prep, busy, done, traces>>
  BY DEF Pause, Step, setup
<1>2. Idle /\ prep = 0 /\ ~hollow /\ Holds({}, {})
  BY <1>1 DEF StageInv, StageAt
<1>3. Scalars' /\ OneAtATime'
  BY <1>1 DEF StageInv, Scalars, OneAtATime, Labels
<1>4. Holds({}, {})'
  BY <1>1, <1>2 DEF Holds
<1>5. StageAt'
  BY <1>1, <1>2, <1>4, StageAssumption DEF StageAt, Idle
<1> QED BY <1>1, <1>3, <1>5 DEF StageInv, StoredTrace

LEMMA EncodePreserves ==
  ASSUME StageInv, Encode
  PROVE  StageInv'
<1>1. /\ pc = "encode" /\ pc' = pc /\ prep < Encoded /\ prep' = prep + 1
      /\ UNCHANGED <<line, threads, calls, mode, hollow, busy, done, traces>>
  BY DEF Encode, setup
<1>2. Idle /\ mode = "paused" /\ ~hollow /\ prep \in 0 .. Encoded /\ Holds({}, {})
  BY <1>1 DEF StageInv, StageAt
<1>3. trace' = trace
  BY <1>2 DEF Encode
<1>4. prep' \in 0 .. Encoded
  BY <1>1, <1>2, StageAssumption
<1>5. Scalars' /\ OneAtATime'
  BY <1>1, <1>3, <1>4 DEF StageInv, Scalars, OneAtATime, Labels
<1>6. Holds({}, {})'
  BY <1>1, <1>2, <1>3 DEF Holds
<1>7. StageAt'
  BY <1>1, <1>2, <1>4, <1>6 DEF StageAt, Idle
<1> QED BY <1>1, <1>5, <1>7 DEF StageInv, StoredTrace

LEMMA PreparedPreserves ==
  ASSUME StageInv, Prepared
  PROVE  StageInv'
<1>1. /\ pc = "encode" /\ pc' = "tag" /\ prep' = 0
      /\ UNCHANGED <<line, threads, calls, mode, hollow, trace, busy, done, traces>>
  BY DEF Prepared, Step, setup
<1>2. Idle /\ mode = "paused" /\ ~hollow /\ Holds({}, {})
  BY <1>1 DEF StageInv, StageAt
<1>3. Scalars' /\ OneAtATime'
  BY <1>1 DEF StageInv, Scalars, OneAtATime, Labels
<1>4. Holds(TagsUpTo(prep), {})'
  <2>1. TagsUpTo(prep)' = TagsUpTo(0)
    BY <1>1 DEF TagsUpTo
  <2> QED BY <1>1, <1>2, <2>1, NoTags DEF Holds
<1>5. 0 \in 0 .. Len(Prep)
  BY PrepFacts
<1>6. StageAt'
  BY <1>1, <1>2, <1>4, <1>5 DEF StageAt, Idle
<1> QED BY <1>1, <1>3, <1>6 DEF StageInv, StoredTrace

LEMMA TagVectorPreserves ==
  ASSUME StageInv, TagVector
  PROVE  StageInv'
<1>1. /\ pc = "tag" /\ pc' = pc /\ prep < Len(Prep) /\ prep' = prep + 1
      /\ UNCHANGED <<line, threads, calls, mode, hollow, busy, done, traces>>
  BY DEF TagVector, setup
<1>2. /\ Idle /\ mode = "paused" /\ ~hollow /\ prep \in 0 .. Len(Prep)
      /\ Holds(TagsUpTo(prep), {})
  BY <1>1 DEF StageInv, StageAt
<1>3. /\ prep \in 0 .. Len(Prep) - 1 /\ prep' \in 0 .. Len(Prep)
      /\ prep + 1 \in DOMAIN Prep /\ prep' \in Nat
  BY <1>1, <1>2, PrepFacts
<1>4. How = "computed"
  BY <1>2 DEF How
<1>5. trace' = [trace EXCEPT !.tags = trace.tags \union
                  {Named(prep + 1, i, "computed") : i \in DOMAIN Prep[prep + 1]}]
  BY <1>4 DEF TagVector
<1>6. trace.tags \union {Named(prep + 1, i, "computed") : i \in DOMAIN Prep[prep + 1]}
        = TagsUpTo(prep + 1)
  BY <1>2, <1>3, NextTags DEF Holds
<1>7. trace' = [trace EXCEPT !.tags = TagsUpTo(prep + 1)]
  BY <1>5, <1>6
<1>8. /\ trace' \in Trace /\ trace'.setting = Effective(line)
      /\ trace'.tags = TagsUpTo(prep + 1) /\ trace'.instructions = {}
  BY <1>2, <1>7, TagsTyped DEF Holds, Trace
<1>9. Scalars' /\ OneAtATime'
  BY <1>1, <1>3, <1>8 DEF StageInv, Scalars, OneAtATime, Labels
<1>10. Holds(TagsUpTo(prep), {})'
  <2>1. TagsUpTo(prep)' = TagsUpTo(prep + 1)
    BY <1>1 DEF TagsUpTo
  <2> QED BY <1>1, <1>8, <2>1 DEF Holds
<1>11. StageAt'
  BY <1>1, <1>2, <1>3, <1>10 DEF StageAt, Idle
<1> QED BY <1>1, <1>9, <1>11 DEF StageInv, StoredTrace

LEMMA ResumePreserves ==
  ASSUME StageInv, Resume
  PROVE  StageInv'
<1>1. /\ pc = "tag" /\ pc' = "evaluate" /\ prep = Len(Prep)
      /\ mode' = "running" /\ hollow' = TRUE
      /\ UNCHANGED <<line, threads, calls, trace, prep, busy, done, traces>>
  BY DEF Resume, Step, setup
<1>2. Idle /\ Holds(TagsUpTo(prep), {})
  BY <1>1 DEF StageInv, StageAt
<1>3. Scalars' /\ OneAtATime'
  BY <1>1 DEF StageInv, Scalars, OneAtATime, Labels
<1>4. Holds(AllTags, done)'
  BY <1>1, <1>2, TagsComplete DEF Holds, Idle
<1>5. StageAt'
  BY <1>1, <1>4 DEF StageAt
<1> QED BY <1>1, <1>3, <1>5 DEF StageInv, StoredTrace

LEMMA BeginOperationPreserves ==
  ASSUME StageInv, BeginOperation
  PROVE  StageInv'
<1>1. /\ pc = "evaluate"
      /\ UNCHANGED <<pc, line, threads, calls, mode, hollow, trace, prep, done, traces>>
  BY DEF BeginOperation, setup
<1>2. PICK o \in 1 .. Operations : Ready(o) /\ busy' = busy \union {o}
  BY DEF BeginOperation
<1>3. threads = 1
  BY DEF StageInv, Scalars
<1>4. Cardinality(busy) < 1
  BY <1>2, <1>3 DEF Ready
<1>5. busy = {}
  <2>1. \A b : Cardinality({b}) = 1
    BY FS_Singleton
  <2>2. ASSUME NEW b, busy = {b} PROVE FALSE
    <3>1. Cardinality(busy) = 1
      BY <2>1, <2>2, Zenon
    <3> QED BY <1>4, <3>1
  <2> QED BY <2>2 DEF StageInv, OneAtATime
<1>6. OneAtATime'
  BY <1>1, <1>2, <1>5 DEF StageInv, OneAtATime
<1>7. Scalars'
  BY <1>1 DEF StageInv, Scalars
<1>8. mode = "running" /\ hollow /\ Holds(AllTags, done)
  BY <1>1 DEF StageInv, StageAt
<1>9. Holds(AllTags, done)'
  BY <1>1, <1>8 DEF Holds
<1>10. StageAt'
  BY <1>1, <1>8, <1>9 DEF StageAt
<1> QED BY <1>1, <1>6, <1>7, <1>10 DEF StageInv, StoredTrace

LEMMA EndOperationPreserves ==
  ASSUME StageInv, EndOperation
  PROVE  StageInv'
<1>1. /\ pc = "evaluate"
      /\ UNCHANGED <<pc, line, threads, calls, mode, hollow, prep, traces>>
  BY DEF EndOperation, setup
<1>2. mode = "running" /\ hollow /\ Holds(AllTags, done)
  BY <1>1 DEF StageInv, StageAt
<1>3. PICK o \in busy :
        /\ busy' = busy \ {o}
        /\ done' = done \union {o}
        /\ \/ /\ mode = "running"
              /\ trace' = [trace EXCEPT !.instructions = @ \union {o}]
           \/ /\ mode # "running" \/ busy # {o}
              /\ UNCHANGED trace
  BY DEF EndOperation
<1>4. busy = {o} /\ o \in 1 .. Operations
  BY <1>3 DEF StageInv, OneAtATime
<1>5. trace' = [trace EXCEPT !.instructions = trace.instructions \union {o}]
  BY <1>2, <1>3, <1>4
<1>6. /\ trace' \in Trace /\ trace'.setting = Effective(line)
      /\ trace'.tags = AllTags /\ trace'.instructions = done \union {o}
  BY <1>2, <1>4, <1>5 DEF Holds, Trace
<1>7. OneAtATime'
  BY <1>3, <1>4 DEF StageInv, OneAtATime
<1>8. Scalars'
  BY <1>1, <1>6 DEF StageInv, Scalars
<1>9. Holds(AllTags, done)'
  BY <1>1, <1>3, <1>6 DEF Holds
<1>10. StageAt'
  BY <1>1, <1>2, <1>9 DEF StageAt
<1> QED BY <1>1, <1>7, <1>8, <1>10 DEF StageInv, StoredTrace

LEMMA EndMathPreserves ==
  ASSUME StageInv, EndMath
  PROVE  StageInv'
<1>1. /\ pc = "evaluate" /\ pc' = "probe" /\ done = 1 .. Operations /\ hollow' = FALSE
      /\ UNCHANGED <<line, threads, calls, mode, trace, prep, busy, done, traces>>
  BY DEF EndMath, Step, setup
<1>2. Holds(AllTags, done)
  BY <1>1 DEF StageInv, StageAt
<1>3. Scalars' /\ OneAtATime'
  BY <1>1 DEF StageInv, Scalars, OneAtATime, Labels
<1>4. Holds(AllTags, 1 .. Operations)'
  BY <1>1, <1>2 DEF Holds
<1>5. StageAt'
  BY <1>1, <1>4 DEF StageAt
<1> QED BY <1>1, <1>3, <1>5 DEF StageInv, StoredTrace

LEMMA ProbePreserves ==
  ASSUME StageInv, Probe
  PROVE  StageInv'
<1>1. /\ pc = "probe" /\ pc' = "stop"
      /\ trace' = [trace EXCEPT !.probed = ~hollow]
      /\ UNCHANGED <<line, threads, calls, mode, hollow, prep, busy, done, traces>>
  BY DEF Probe, Step, setup
<1>2. ~hollow /\ Holds(AllTags, 1 .. Operations)
  BY <1>1 DEF StageInv, StageAt
<1>3. trace' = [trace EXCEPT !.probed = TRUE]
  BY <1>1, <1>2
<1>4. /\ trace' \in Trace /\ trace'.setting = Effective(line) /\ trace'.probed
      /\ trace'.tags = AllTags /\ trace'.instructions = 1 .. Operations
  BY <1>2, <1>3 DEF Holds, Trace
<1>5. Scalars' /\ OneAtATime'
  BY <1>1, <1>4 DEF StageInv, Scalars, OneAtATime, Labels
<1>6. Holds(AllTags, 1 .. Operations)'
  BY <1>1, <1>4 DEF Holds
<1>7. StageAt'
  BY <1>1, <1>4, <1>6 DEF StageAt
<1> QED BY <1>1, <1>5, <1>7 DEF StageInv, StoredTrace

LEMMA StopPreserves ==
  ASSUME StageInv, Stop
  PROVE  StageInv'
<1>1. /\ pc = "stop" /\ pc' = "replay" /\ mode' = "off"
      /\ traces' = [k \in DOMAIN traces \union {CacheKey(line)} |->
                      IF k = CacheKey(line) THEN trace ELSE traces[k]]
      /\ UNCHANGED <<line, threads, calls, hollow, trace, prep, busy, done>>
  BY DEF Stop, Step, setup
<1>2. Holds(AllTags, 1 .. Operations) /\ trace.probed /\ line \in CommandLines
  BY <1>1 DEF StageInv, StageAt, Scalars
<1>3. Scalars' /\ OneAtATime'
  BY <1>1 DEF StageInv, Scalars, OneAtATime, Labels
<1>4. /\ DOMAIN traces' = {CacheKey(line)} \union DOMAIN traces
      /\ traces'[CacheKey(line)] = trace
      /\ \A j \in DOMAIN traces : j # CacheKey(line) => traces'[j] = traces[j]
  BY <1>1
<1>5. StageAt'
  BY <1>1, <1>4 DEF StageAt, CacheKey
<1>6. StoredTrace(trace, CacheKey(line))
  BY <1>2 DEF Holds, StoredTrace
<1>7. \A key \in DOMAIN traces' : StoredTrace(traces'[key], key)
  BY <1>4, <1>6 DEF StageInv
<1> QED BY <1>3, <1>5, <1>7 DEF StageInv

LEMMA ReplayPreserves ==
  ASSUME StageInv, Replay
  PROVE  StageInv'
<1>1. /\ pc' = "exit"
      /\ UNCHANGED <<line, threads, calls, mode, hollow, trace, prep, busy, done, traces>>
  BY DEF Replay, Step, setup
<1>2. Scalars' /\ OneAtATime'
  BY <1>1 DEF StageInv, Scalars, OneAtATime, Labels
<1>3. StageAt'
  BY <1>1 DEF StageAt
<1> QED BY <1>1, <1>2, <1>3 DEF StageInv, StoredTrace

LEMMA ExitPreserves ==
  ASSUME StageInv, Exit
  PROVE  StageInv'
<1>1. /\ pc' = "exit"
      /\ UNCHANGED <<line, threads, calls, mode, hollow, trace, prep, busy, done, traces>>
  BY DEF Exit, setup
<1>2. Scalars' /\ OneAtATime'
  BY <1>1 DEF StageInv, Scalars, OneAtATime, Labels
<1>3. StageAt'
  BY <1>1 DEF StageAt
<1> QED BY <1>1, <1>2, <1>3 DEF StageInv, StoredTrace

LEMMA StutterPreserves ==
  ASSUME StageInv, UNCHANGED vars
  PROVE  StageInv'
<1>1. UNCHANGED <<pc, line, threads, calls, mode, hollow, trace, prep, busy, done, traces>>
  BY DEF vars
<1>2. Scalars' /\ OneAtATime'
  BY <1>1 DEF StageInv, Scalars, OneAtATime
<1>3. StageAt'
  <2>1. \A tags, instructions :
          (trace \in Trace /\ trace.setting = Effective(line)
             /\ trace.tags = tags /\ trace.instructions = instructions)
          <=> Holds(tags, instructions)
    BY DEF Holds
  <2>2. Holds({}, {})' <=> Holds({}, {})
    BY <1>1 DEF Holds
  <2>3. Holds(TagsUpTo(prep), {})' <=> Holds(TagsUpTo(prep), {})
    BY <1>1 DEF Holds, TagsUpTo
  <2>4. Holds(AllTags, done)' <=> Holds(AllTags, done)
    BY <1>1 DEF Holds
  <2>5. Holds(AllTags, 1 .. Operations)' <=> Holds(AllTags, 1 .. Operations)
    BY <1>1 DEF Holds
  <2> QED BY <1>1, <2>2, <2>3, <2>4, <2>5 DEF StageInv, StageAt, Idle, CacheKey
<1> QED BY <1>1, <1>2, <1>3 DEF StageInv, StoredTrace

-----------------------------------------------------------------------------
(* What follows *)

LEMMA StageInvariant == OneThread => (Spec => []StageInv)
<1> SUFFICES ASSUME OneThread PROVE Spec => []StageInv
  OBVIOUS
<1>1. Init => StageInv
  <2> SUFFICES ASSUME Init PROVE StageInv
    OBVIOUS
  <2>1. DOMAIN traces = {}
    BY DEF Init
  <2>2. 0 \in 0 .. MaxCalls
    BY StageAssumption
  <2> QED BY <2>1, <2>2 DEF Init, StageInv, Scalars, OneAtATime, StageAt, Labels
<1>2. StageInv /\ [Next]_vars => StageInv'
  BY InvokePreserves, LookUpPreserves, PausePreserves, EncodePreserves,
     PreparedPreserves, TagVectorPreserves, ResumePreserves,
     BeginOperationPreserves, EndOperationPreserves, EndMathPreserves,
     ProbePreserves, StopPreserves, ReplayPreserves, ExitPreserves,
     StutterPreserves DEF Next, Finished
<1> QED BY <1>1, <1>2, PTL DEF Spec

(* Every variable of the stage has its type, and no two operations of a    *)
(* recording overlap.                                                      *)
THEOREM StageTypeCorrect == OneThread => (Spec => []TypeOK)
<1> SUFFICES ASSUME OneThread PROVE Spec => []TypeOK
  OBVIOUS
<1>1. StageInv => TypeOK
  <2> SUFFICES ASSUME StageInv PROVE TypeOK
    OBVIOUS
  <2>1. Cardinality(busy) <= threads
    <3>1. Cardinality(busy) = 0 \/ Cardinality(busy) = 1
      BY FS_EmptySet, FS_Singleton DEF StageInv, OneAtATime
    <3> QED BY <3>1 DEF StageInv, Scalars
  <2>2. \A key \in DOMAIN traces : traces[key] \in Trace
    BY DEF StageInv, StoredTrace
  <2> QED BY <2>1, <2>2 DEF StageInv, Scalars, OneAtATime, TypeOK
<1> QED BY <1>1, StageInvariant, PTL

(* For every circuit, every packing of its plaintexts and kills at any     *)
(* call: what is on disk under a key is a complete, computed trace.        *)
THEOREM TracesAreComplete == OneThread => (Spec => []TraceIsComplete)
<1> SUFFICES ASSUME OneThread PROVE Spec => []TraceIsComplete
  OBVIOUS
<1>1. StageInv => TraceIsComplete
  BY DEF StageInv, StoredTrace, TraceIsComplete, AllTags
<1> QED BY <1>1, StageInvariant, PTL

-----------------------------------------------------------------------------
(* The key tells the setting *)

LEMMA LastElement ==
  ASSUME NEW n \in Nat, NEW S \in SUBSET (1 .. n), S # {}
  PROVE  \E i \in S : \A j \in S : j <= i
<1> DEFINE R == {ss \in Nat \X Nat : ss[1] < ss[2]}
           T == {n - i : i \in S}
<1>1. IsWellFoundedOn(R, Nat)
  BY NatLessThanWellFounded DEF OpToRel
<1>2. T \subseteq Nat /\ T # {}
  <2>1. \A i \in S : n - i \in Nat
    OBVIOUS
  <2>2. PICK i : i \in S
    OBVIOUS
  <2>3. n - i \in T
    BY <2>2
  <2> QED BY <2>1, <2>3
<1> HIDE DEF R
<1>3. \E t \in T : \A u \in T : ~ (<<u, t>> \in R)
  BY <1>1, <1>2, WFMin
<1>4. PICK i \in S : \A j \in S : ~ (<<n - j, n - i>> \in R)
  BY <1>3
<1>5. ASSUME NEW j \in S PROVE j <= i
  <2>1. i \in 1 .. n /\ j \in 1 .. n /\ n - j \in Nat /\ n - i \in Nat
    OBVIOUS
  <2>2. ~ (n - j < n - i)
    BY <1>4, <2>1 DEF R
  <2> QED BY <2>1, <2>2
<1> QED BY <1>5

(* Where no level is bare, init() finds the argument the option scan finds. *)
LEMMA SameScan ==
  ASSUME NoBareLevel, NEW args \in CommandLines
  PROVE  Last(args, Spelled, "--opt-level") = nb_opt(args)
<1>1. \A i \in 1 .. Len(args) : args[i] \in DOMAIN Spelled <=> args[i] \in DOMAIN LevelIs
  BY DEF NoBareLevel, Spelled
<1>2. \A i \in 1 .. Len(args) : args[i] \in DOMAIN LevelIs => Spelled[args[i]] = LevelIs[args[i]]
  BY DEF NoBareLevel, Spelled
<1> DEFINE hits == Hits(args, LevelIs, "--opt-level")
           last == LastOf(hits)
<1>3. Hits(args, Spelled, "--opt-level") = hits
  BY <1>1 DEF Hits
<1>4. Len(args) \in Nat /\ hits \in SUBSET (1 .. Len(args))
  BY StageAssumption DEF Hits
<1> HIDE DEF hits
<1>5. hits # {} => last \in 1 .. Len(args)
  BY <1>4, LastElement DEF LastOf
<1>6. Last(args, Spelled, "--opt-level")
        = IF hits = {} THEN None
          ELSE IF args[last] \in DOMAIN Spelled THEN Spelled[args[last]] ELSE args[last + 1]
  BY <1>3 DEF Last
<1>7. nb_opt(args)
        = IF hits = {} THEN None
          ELSE IF args[last] \in DOMAIN LevelIs THEN LevelIs[args[last]] ELSE args[last + 1]
  BY DEF nb_opt, Last, hits
<1> HIDE DEF last
<1> QED BY <1>1, <1>2, <1>5, <1>6, <1>7

LEMMA KeyTellsSetting ==
  ASSUME NoBareLevel, NEW a \in CommandLines, NEW b \in CommandLines,
         CacheKey(a) = CacheKey(b)
  PROVE  Effective(a) = Effective(b)
<1>1. nb_target(a) = nb_target(b) /\ nb_opt(a) = nb_opt(b)
  BY DEF CacheKey
<1> QED BY <1>1, SameScan DEF Effective

(* Where levels are spelled out, a result is always replayed from a trace  *)
(* recorded at the target and level of the invocation it answers.          *)
THEOREM SettingIsOwn == OneThread /\ NoBareLevel => (Spec => []ReplaysOwnSetting)
<1> SUFFICES ASSUME OneThread, NoBareLevel PROVE Spec => []ReplaysOwnSetting
  OBVIOUS
<1>1. Init => ReplaysOwnSetting
  BY DEF Init, ReplaysOwnSetting
<1>2. StageInv /\ ReplaysOwnSetting /\ [Next]_vars => ReplaysOwnSetting'
  <2> SUFFICES ASSUME StageInv, ReplaysOwnSetting, [Next]_vars
               PROVE  ReplaysOwnSetting'
    OBVIOUS
  <2>1. CASE Invoke
    BY <2>1 DEF Invoke, ReplaysOwnSetting
  <2>2. CASE Replay
    <3>1. /\ pc = "replay" /\ line' = line
          /\ result' = traces[CacheKey(line)].setting
      BY <2>2 DEF Replay, Step, setup
    <3>2. line \in CommandLines /\ CacheKey(line) \in DOMAIN traces
      BY <3>1 DEF StageInv, Scalars, StageAt, Labels
    <3>3. PICK args \in CommandLines :
            CacheKey(args) = CacheKey(line) /\ result' = Effective(args)
      BY <3>1, <3>2 DEF StageInv, StoredTrace
    <3>4. result' = Effective(line)
      BY <3>2, <3>3, KeyTellsSetting
    <3>5. Effective(line)' = Effective(line)
      BY <3>1 DEF Effective
    <3> QED BY <3>4, <3>5 DEF ReplaysOwnSetting
  <2>3. CASE ~Invoke /\ ~Replay
    <3>1. line' = line /\ result' = result
      BY <2>3 DEF Next, LookUp, Pause, Encode, Prepared, TagVector, Resume,
                  BeginOperation, EndOperation, EndMath, Probe, Stop, Exit,
                  Finished, setup, vars
    <3> QED BY <3>1 DEF ReplaysOwnSetting, Effective
  <2> QED BY <2>1, <2>2, <2>3
<1> QED BY <1>1, <1>2, StageInvariant, PTL DEF Spec
=============================================================================
