--------------------------- MODULE TransportServer ---------------------------
(***************************************************************************)
(* Where the replays of a run go: to the simulator in-process, to a server *)
(* the caller provides, to a Fog job, or to a transport server that the    *)
(* harness starts, waits for and stops.                                    *)
(*                                                                         *)
(* Runs of run_submission.py follow one another.  The server processes,    *)
(* other users of the ports and the Fog are external.                      *)
(***************************************************************************)
EXTENDS Naturals, FiniteSets

CONSTANTS
  Jobs,        \* arguments and surroundings of a run, see Job
  Ports,
  GivenPort,   \* the port of --port
  MaxPolls,    \* health polls (120 in the code)
  MaxRuns,     \* bound: runs
  MaxKills,    \* bound: runs killed
  MaxOthers,   \* bound: ports taken by others, who keep them
  Foreign,     \* such a process, which is no transport server
  Other,       \* one that is, of somebody else's run
  None

Job == [local : BOOLEAN,     \* --target local
        server : BOOLEAN,    \* NBCC_FHETCH_SERVER is set
        fog : BOOLEAN,       \* niobium-client/scripts/fog exists
        given : BOOLEAN,     \* --port
     curl : BOOLEAN]      \* curl is installed

ASSUME ServerAssumption ==
  /\ Jobs \subseteq Job
  /\ GivenPort \in Ports
  /\ MaxPolls \in Nat \ {0} /\ MaxRuns \in Nat /\ MaxKills \in Nat
  /\ MaxOthers \in Nat
  /\ {Foreign, Other, None} \intersect Nat = {}
  /\ None \notin {Foreign, Other}

VARIABLES
  pc,        \* the next statement of the harness
  n,         \* its run
  job, port, polls,
  srv,       \* the server its finally clause will stop
  server,    \* server processes: "none", "starting", "up", "asked" (to stop),
             \* "killed" (not yet gone), "gone"
  deaf,      \* which of them do not heed SIGTERM
  at,        \* the port each was given
  holder,    \* who listens on each port
  waits,     \* the party whose answer curl or a stage awaits and never gets
  went,      \* where the replays of this run went
  ended      \* how each run ended

vars == <<pc, n, job, port, polls, srv, server, deaf, at, holder, waits, went, ended>>
processes == <<server, deaf, at, holder, waits>>
run == <<n, job, port>>

Runs == 1 .. MaxRuns
Alive == {r \in Runs : server[r] \in {"starting", "up", "asked"}}
Running == pc # "idle"

\* A listener that was killed holds its port a moment longer.
Answering ==
  {p \in Ports : holder[p] # None
                   /\ \A r \in Runs : holder[p] = r => server[r] # "killed"}

Init ==
  /\ pc = "idle" /\ n = 0 /\ job = None /\ port = None /\ polls = 0
  /\ srv = None
  /\ server = [r \in Runs |-> "none"] /\ deaf = [r \in Runs |-> FALSE]
  /\ at = [r \in Runs |-> None]
  /\ holder = [p \in Ports |-> None] /\ waits = None
  /\ went = {}
  /\ ended = [r \in Runs |-> None]

-----------------------------------------------------------------------------
\* The choice of the backend

fog_jobs(j) == ~j.local /\ ~j.server /\ j.fog
own_server(j) == ~j.local /\ ~j.server /\ ~fog_jobs(j)

\* free_port() lets go of the port it found.
Begin ==
  /\ pc = "idle" /\ n < MaxRuns /\ n' = n + 1
  /\ job' \in Jobs
  /\ IF job'.given THEN port' = GivenPort
     ELSE port' \in {p \in Ports : holder[p] = None}
  /\ pc' = IF own_server(job') THEN "start" ELSE "rows"
  /\ polls' = 0 /\ srv' = None /\ went' = {}
  /\ UNCHANGED <<processes, ended>>

-----------------------------------------------------------------------------
\* start_transport_server()

Start ==
  /\ pc = "start" /\ pc' = "poll"
  /\ server' = [server EXCEPT ![n] = "starting"]
  /\ at' = [at EXCEPT ![n] = port]
  /\ \E d \in BOOLEAN : deaf' = [deaf EXCEPT ![n] = d]
  /\ UNCHANGED <<run, polls, srv, holder, waits, went, ended>>

\* An exception leaves the run; its finally clause holds no server to stop.
Fail(how) ==
  /\ pc' = "idle"
  /\ ended' = [ended EXCEPT ![n] = how]

EarlyExit ==
  /\ pc = "poll" /\ n \notin Alive
  /\ Fail("failed")
  /\ UNCHANGED <<run, polls, srv, processes, went>>

StillThere ==
  /\ pc = "poll" /\ n \in Alive
  /\ pc' = "curl"
  /\ UNCHANGED <<run, polls, srv, processes, went, ended>>

\* Without curl the call raises, and nobody stops the server.
NoCurl ==
  /\ pc = "curl" /\ ~job.curl
  /\ Fail("no curl")
  /\ UNCHANGED <<run, polls, srv, processes, went>>

Polled == pc = "curl" /\ job.curl /\ waits = None

\* Whoever answers on the port is taken for the server.
Healthy ==
  /\ Polled /\ port \in Answering
  /\ pc' = "rows" /\ srv' = n
  /\ UNCHANGED <<run, polls, processes, went, ended>>

Unhealthy == Polled /\ (port \in Answering => holder[port] = Foreign)

\* Mutant: one poll more.
PollOnceMore ==
  /\ Unhealthy /\ polls + 1 <= MaxPolls
  /\ pc' = "poll" /\ polls' = polls + 1
  /\ UNCHANGED <<run, srv, processes, went, ended>>

NotYet ==
  /\ Unhealthy /\ polls + 1 < MaxPolls
  /\ pc' = "poll" /\ polls' = polls + 1
  /\ UNCHANGED <<run, srv, processes, went, ended>>

\* SIGTERM: a server that has not exited yet is asked to.
Asked(r) == [server EXCEPT ![r] = IF r \in Alive THEN "asked" ELSE @]

\* Mutant: the exception comes first.
LeaveUnasked ==
  /\ Unhealthy /\ polls + 1 = MaxPolls
  /\ Fail("never healthy")
  /\ UNCHANGED <<run, polls, srv, processes, went>>

NeverHealthy ==
  /\ Unhealthy /\ polls + 1 = MaxPolls
  /\ server' = Asked(n)
  /\ Fail("never healthy")
  /\ UNCHANGED <<run, polls, srv, deaf, at, holder, waits, went>>

-----------------------------------------------------------------------------
\* The rows, and the finally clause

\* A local target replays in-process unless the variable it inherits says
\* otherwise; a Fog job exports its own server.
Destination ==
  IF job.server THEN <<"caller", None>>
  ELSE IF job.local THEN <<"in-process", None>>
  ELSE IF fog_jobs(job) THEN <<"fog", None>> ELSE <<"server", holder[port]>>

Backends ==
  ({"caller", "in-process", "fog"} \X {None}) \union ({"server"} \X (Runs \union {Other}))

Replay ==
  /\ pc = "rows" /\ waits = None /\ Destination \in Backends
  /\ Destination[1] = "server" => port \in Answering
  /\ went' = went \union {Destination}
  /\ UNCHANGED <<pc, run, polls, srv, processes, ended>>

AfterRows(outcome) ==
  /\ pc' = IF srv = None THEN outcome ELSE "stop"
  /\ ended' = [ended EXCEPT ![n] = outcome]

AllRows ==
  /\ pc = "rows" /\ waits = None
  /\ AfterRows("summary")
  /\ UNCHANGED <<run, polls, srv, processes, went>>

\* Nobody listens, or any other failure of a stage.
RowFails ==
  /\ pc = "rows" /\ waits = None
  /\ IF srv = None THEN Fail("failed")
     ELSE pc' = "stop" /\ ended' = [ended EXCEPT ![n] = "failed"]
  /\ UNCHANGED <<run, polls, srv, processes, went>>

\* Neither curl nor a stage has a time limit: one whose partner takes the
\* connection and says nothing stays.
Partners == ({"caller", "fog"} \X {None}) \union ({"server"} \X (Runs \union {Foreign, Other}))

Hang ==
  /\ Polled \/ (pc = "rows" /\ waits = None)
  /\ Destination \in Partners /\ waits' = Destination
  /\ UNCHANGED <<pc, run, polls, srv, server, deaf, at, holder, went, ended>>

Terminate ==
  /\ pc = "stop" /\ pc' = "wait"
  /\ server' = Asked(srv)
  /\ UNCHANGED <<run, polls, srv, deaf, at, holder, waits, went, ended>>

AfterWait == pc' = IF ended[n] = "failed" THEN "idle" ELSE "summary"

Waited ==
  /\ pc = "wait" /\ srv \notin Alive
  /\ AfterWait
  /\ UNCHANGED <<run, polls, srv, processes, went, ended>>

\* Mutant: the wait has no limit.
WaitForEver == Waited

\* Mutant: no kill after the time-out.
GiveUp ==
  /\ pc = "wait" /\ srv \in Alive
  /\ AfterWait
  /\ UNCHANGED <<run, polls, srv, processes, went, ended>>

\* Ten seconds are over; nobody waits for the process to be gone.
KillServer ==
  /\ pc = "wait" /\ srv \in Alive
  /\ server' = [server EXCEPT ![srv] = "killed"]
  /\ AfterWait
  /\ UNCHANGED <<run, polls, srv, deaf, at, holder, waits, went, ended>>

Summary ==
  /\ pc = "summary" /\ pc' = "idle"
  /\ UNCHANGED <<run, polls, srv, processes, went, ended>>

Harness ==
  \/ Start \/ EarlyExit \/ StillThere \/ NoCurl \/ Healthy \/ NotYet \/ NeverHealthy
  \/ AllRows \/ RowFails \/ Terminate \/ Waited \/ KillServer \/ Summary

-----------------------------------------------------------------------------
\* The others

\* A server that finds its port free listens on it.
Bind(r) ==
  /\ server[r] = "starting" /\ holder[at[r]] = None
  /\ server' = [server EXCEPT ![r] = "up"]
  /\ holder' = [holder EXCEPT ![at[r]] = r]
  /\ UNCHANGED <<pc, run, polls, srv, deaf, at, waits, went, ended>>

\* A process that ends lets go of its port and of whoever waited for it.
Ends(r) ==
  /\ server' = [server EXCEPT ![r] = "gone"]
  /\ holder' = [p \in Ports |-> IF holder[p] = r THEN None ELSE holder[p]]
  /\ waits' = IF waits = <<"server", r>> THEN None ELSE waits
  /\ UNCHANGED <<pc, run, polls, srv, deaf, at, went, ended>>

Die(r) == (r \in Alive \/ server[r] = "killed") /\ Ends(r)

Obey(r) == (server[r] = "killed" \/ (server[r] = "asked" /\ ~deaf[r])) /\ Ends(r)

TakePort ==
  /\ Cardinality({p \in Ports : holder[p] \in {Foreign, Other}}) < MaxOthers
  /\ \E p \in Ports, who \in {Foreign, Other} :
       holder[p] = None /\ holder' = [holder EXCEPT ![p] = who]
  /\ UNCHANGED <<pc, run, polls, srv, server, deaf, at, waits, went, ended>>

\* The harness is killed; its server is not.
Kill ==
  /\ Running
  /\ Cardinality({r \in Runs : ended[r] = "killed"}) < MaxKills
  /\ Fail("killed") /\ waits' = None
  /\ UNCHANGED <<run, polls, srv, server, deaf, at, holder, went>>

\* The harness may wait for ever.
NoAnswer == waits # None /\ UNCHANGED vars

Finished == pc = "idle" /\ n = MaxRuns /\ UNCHANGED vars

Next ==
  \/ Begin \/ Harness \/ Replay \/ Hang \/ TakePort \/ Kill \/ NoAnswer \/ Finished
  \/ \E r \in Runs : Bind(r) \/ Die(r)

Spec == Init /\ [][Next]_vars

\* Polls and waits are bounded and a call that is answered returns; nothing is
\* said of one that is not (Hang).  A server told to stop does, unless it is
\* deaf; a killed one is gone in the end.
FairSpec ==
  /\ Spec
  /\ WF_vars(Harness)
  /\ \A r \in Runs : WF_vars(Obey(r))

-----------------------------------------------------------------------------
\* Properties

Outcomes == {"summary", "failed", "no curl", "never healthy", "killed"}

\* Every variable has its type; the health polls stay within their number.
TypeOK ==
  /\ pc \in {"idle", "start", "poll", "curl", "rows", "stop", "wait", "summary"}
  /\ n \in 0 .. MaxRuns /\ polls \in 0 .. MaxPolls - 1
  /\ job \in Job \union {None} /\ port \in Ports \union {None}
  /\ srv \in {None, n}
  /\ server \in [Runs -> {"none", "starting", "up", "asked", "killed", "gone"}]
  /\ deaf \in [Runs -> BOOLEAN] /\ at \in [Runs -> Ports \union {None}]
  /\ holder \in [Ports -> Runs \union {None, Foreign, Other}]
  /\ waits \in Partners \union {None}
  /\ went \subseteq Backends
  /\ ended \in [Runs -> Outcomes \union {None}]

\* No server outlives its run, except that of a run that was killed or had no
\* curl to ask it with, and one that never got healthy and was asked to stop.
NoServerLeft ==
  \A r \in Alive :
    (r = n /\ Running) \/ ended[r] \in {"killed", "no curl"}
      \/ (ended[r] = "never healthy" /\ server[r] = "asked")

\* Polls, waits and kills are bounded, so only one thing keeps a run from ending:
\* a party that takes the connection of curl or a stage and never answers.
RunsEnd == <>[]Running => <>[](waits # None)

\* Every server is gone in the end, unless its run was killed, had no curl or
\* hangs itself, or the server never got healthy and is deaf.
Stays(r) ==
  \/ ended[r] \in {"killed", "no curl"}
  \/ ended[r] = "never healthy" /\ deaf[r]
  \/ r = n /\ waits # None
ServersStop ==
  \A r \in Runs : <>[](server[r] \in {"none", "gone"}) \/ <>[]Stays(r)

\* "Start the niobium-client fhetch server (execs the SDK replay backend via the
\* shim)": a run's replays go to the server it has started, or, as its port was
\* free for others before the server took it and anybody's answer will do, to
\* that of somebody else; never to one of an earlier run of its own series,
\* unless that run was killed or could not wait.
LeftServer(r) == ended[r] \in {"killed", "no curl", "never healthy"}
OwnServerReplays ==
  (\A r \in 1 .. n - 1 : ~LeftServer(r)) =>
    \A d \in went : d[1] = "server" => d[2] \in {n, Other}
=============================================================================
