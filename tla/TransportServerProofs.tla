------------------------ MODULE TransportServerProofs ------------------------
(***************************************************************************)
(* The transport server of a run, for any number of runs, polls and ports, *)
(* any surroundings and any number of kills.                               *)
(***************************************************************************)
EXTENDS TransportServer, TLAPS

(* How far the harness has come says what its server can be doing. *)
Stations ==
  /\ Running => n \in Runs /\ port \in Ports
  /\ \A r \in Runs : r > n => server[r] = "none"
  /\ pc = "start" => server[n] = "none"
  /\ pc = "rows" /\ srv = None => n \notin Alive
  /\ pc \in {"stop", "wait"} => srv = n
  /\ pc = "summary" => n \notin Alive

(* Only a server that is alive, or was killed a moment ago, listens. *)
HoldersLive ==
  \A p \in Ports : holder[p] \in Runs =>
    holder[p] \in Alive \/ server[holder[p]] = "killed"

ServerInv ==
  TypeOK /\ Stations /\ HoldersLive /\ NoServerLeft /\ OwnServerReplays

LEMMA RunsFacts ==
  /\ MaxRuns \in Nat /\ Runs = 1 .. MaxRuns
  /\ None \notin Runs /\ Foreign \notin Runs /\ Other \notin Runs
  /\ Foreign # None /\ Other # None
BY ServerAssumption DEF Runs

LEMMA EarlierRuns ==
  ASSUME NEW k \in Runs, NEW r \in 1 .. k - 1
  PROVE  r \in Runs /\ r # k
BY RunsFacts

(* What has been replayed stays right while no outcome of an earlier run   *)
(* changes.                                                                *)
LEMMA ReplaysStay ==
  ASSUME TypeOK, OwnServerReplays, n' = n, went' = went,
         \A r \in 1 .. n - 1 : ended'[r] = ended[r]
  PROVE  OwnServerReplays'
BY DEF OwnServerReplays, LeftServer, TypeOK

-----------------------------------------------------------------------------
(* The harness *)

LEMMA BeginPreserves ==
  ASSUME ServerInv, Begin
  PROVE  ServerInv'
<1> USE DEF ServerInv
<1>1. /\ pc = "idle" /\ n < MaxRuns /\ n' = n + 1 /\ n \in 0 .. MaxRuns
      /\ pc' \in {"start", "rows"} /\ job' \in Jobs
      /\ polls' = 0 /\ srv' = None /\ went' = {}
      /\ UNCHANGED <<server, deaf, at, holder, waits, ended>>
  BY DEF Begin, processes, TypeOK
<1>2. port' \in Ports
  BY ServerAssumption DEF Begin
<1>3. n' \in Runs /\ n' \in 0 .. MaxRuns
  BY <1>1, RunsFacts
<1>4. TypeOK'
  BY <1>1, <1>2, <1>3, ServerAssumption DEF TypeOK
<1>5. server[n'] = "none" /\ n' \notin Alive
  BY <1>1, <1>3 DEF Stations, Alive
<1>6. Alive' = Alive
  BY <1>1 DEF Alive
<1>7. \A r \in Runs : r > n' => server[r] = "none"
  BY <1>1, RunsFacts DEF Stations
<1>8. Stations'
  BY <1>1, <1>2, <1>3, <1>5, <1>6, <1>7 DEF Stations
<1>9. HoldersLive'
  BY <1>1, <1>6 DEF HoldersLive
<1>10. NoServerLeft'
  BY <1>1, <1>6 DEF NoServerLeft, Running
<1>11. OwnServerReplays'
  BY <1>1 DEF OwnServerReplays
<1> QED BY <1>4, <1>8, <1>9, <1>10, <1>11

LEMMA StartPreserves ==
  ASSUME ServerInv, Start
  PROVE  ServerInv'
<1> USE DEF ServerInv
<1>1. /\ pc = "start" /\ pc' = "poll"
      /\ server' = [server EXCEPT ![n] = "starting"]
      /\ at' = [at EXCEPT ![n] = port]
      /\ UNCHANGED <<n, job, port, polls, srv, holder, waits, went, ended>>
  BY DEF Start, run
<1>2. deaf' \in [Runs -> BOOLEAN]
  <2>1. PICK d \in BOOLEAN : deaf' = [deaf EXCEPT ![n] = d]
    BY DEF Start
  <2> QED BY <2>1 DEF TypeOK
<1>3. n \in Runs /\ port \in Ports
  BY <1>1 DEF Stations, Running
<1>4. TypeOK'
  BY <1>1, <1>2, <1>3 DEF TypeOK
<1>5. Alive' = Alive \union {n}
  BY <1>1, <1>3 DEF Alive, TypeOK
<1>6. Stations'
  BY <1>1, <1>3, RunsFacts DEF Stations, Running, TypeOK
<1>7. HoldersLive'
  BY <1>1, <1>5 DEF HoldersLive
<1>8. NoServerLeft'
  BY <1>1, <1>3, <1>5 DEF NoServerLeft, Running, TypeOK, Alive
<1>9. OwnServerReplays'
  BY <1>1, ReplaysStay
<1> QED BY <1>4, <1>6, <1>7, <1>8, <1>9

(* A run that ends this way leaves no server, or could not stop it.        *)
LEMMA FailPreserves ==
  ASSUME ServerInv, NEW how \in {"failed", "killed", "no curl"}, Running, Fail(how),
         n \notin Alive \/ how \in {"killed", "no curl"}, waits' \in {waits, None},
         UNCHANGED <<run, polls, srv, server, deaf, at, holder, went>>
  PROVE  ServerInv'
<1> USE DEF ServerInv
<1>1. /\ pc' = "idle" /\ ended' = [ended EXCEPT ![n] = how]
      /\ UNCHANGED <<n, job, port, polls, srv, server, deaf, at, holder, went>>
  BY DEF Fail, run
<1>2. n \in Runs
  BY DEF Stations
<1>3. TypeOK'
  BY <1>1 DEF TypeOK, Outcomes
<1>4. Alive' = Alive
  BY <1>1 DEF Alive
<1>5. Stations'
  BY <1>1 DEF Stations, Running
<1>6. HoldersLive'
  BY <1>1, <1>4 DEF HoldersLive
<1>7. NoServerLeft'
  BY <1>1, <1>2, <1>4 DEF NoServerLeft, Running, TypeOK, Alive
<1>8. OwnServerReplays'
  <2>1. ended \in [Runs -> Outcomes \union {None}]
    BY DEF TypeOK
  <2>2. \A r \in 1 .. n - 1 : r \in Runs /\ r # n
    BY <1>2, EarlierRuns
  <2>3. \A r \in 1 .. n - 1 : ended'[r] = ended[r]
    <3> HIDE DEF ServerInv
    <3> QED BY <1>1, <2>1, <2>2
  <2> QED BY <1>1, <2>3, ReplaysStay
<1> QED BY <1>3, <1>5, <1>6, <1>7, <1>8

LEMMA EarlyExitPreserves ==
  ASSUME ServerInv, EarlyExit
  PROVE  ServerInv'
<1>1. /\ Running /\ n \notin Alive /\ Fail("failed")
      /\ UNCHANGED <<run, polls, srv, server, deaf, at, holder, waits, went>>
  BY DEF EarlyExit, Running, processes
<1> QED BY <1>1, FailPreserves

LEMMA NoCurlPreserves ==
  ASSUME ServerInv, NoCurl
  PROVE  ServerInv'
<1>1. /\ Running /\ Fail("no curl")
      /\ UNCHANGED <<run, polls, srv, server, deaf, at, holder, waits, went>>
  BY DEF NoCurl, Running, processes
<1> QED BY <1>1, FailPreserves

LEMMA KillPreserves ==
  ASSUME ServerInv, Kill
  PROVE  ServerInv'
<1>1. /\ Running /\ Fail("killed") /\ waits' = None
      /\ UNCHANGED <<run, polls, srv, server, deaf, at, holder, went>>
  BY DEF Kill
<1> QED BY <1>1, FailPreserves

(* Steps that only move the harness on. *)
LEMMA MovePreserves ==
  ASSUME ServerInv, Running, TypeOK', n' = n, port' = port,
         pc' \in {"poll", "curl", "rows", "stop", "wait", "summary"},
         pc' = "rows" => srv' = n,
         pc' \in {"stop", "wait"} => srv' = n,
         pc' = "summary" => n \notin Alive,
         server' = server, holder' = holder, went' = went,
         \A r \in Runs \ {n} : ended'[r] = ended[r]
  PROVE  ServerInv'
<1> USE DEF ServerInv
<1>1. Alive' = Alive
  BY DEF Alive
<1>2. n \in Runs
  BY DEF Stations
<1>3. None # n
  BY <1>2, RunsFacts
<1>4. Stations'
  BY <1>1, <1>3 DEF Stations, Running
<1>5. HoldersLive'
  BY <1>1 DEF HoldersLive
<1>6. NoServerLeft'
  <2> SUFFICES ASSUME NEW r \in Alive, r # n
               PROVE  ended'[r] \in {"killed", "no curl"}
                        \/ (ended'[r] = "never healthy" /\ server'[r] = "asked")
    BY <1>1 DEF NoServerLeft, Running
  <2> QED BY DEF NoServerLeft, Alive
<1>7. OwnServerReplays'
  <2>1. \A r \in 1 .. n - 1 : r \in Runs \ {n}
    BY <1>2, RunsFacts
  <2> QED BY <2>1, ReplaysStay
<1> QED BY <1>4, <1>5, <1>6, <1>7

LEMMA StillTherePreserves ==
  ASSUME ServerInv, StillThere
  PROVE  ServerInv'
<1>1. /\ pc = "poll" /\ pc' = "curl"
      /\ UNCHANGED <<n, job, port, polls, srv, server, deaf, at, holder, waits, went, ended>>
  BY DEF StillThere, run, processes
<1>2. TypeOK'
  BY <1>1 DEF ServerInv, TypeOK
<1> QED BY <1>1, <1>2, MovePreserves DEF Running

LEMMA HealthyPreserves ==
  ASSUME ServerInv, Healthy
  PROVE  ServerInv'
<1>1. /\ pc = "curl" /\ pc' = "rows" /\ srv' = n
      /\ UNCHANGED <<n, job, port, polls, server, deaf, at, holder, waits, went, ended>>
  BY DEF Healthy, Polled, run, processes
<1>2. TypeOK'
  BY <1>1 DEF ServerInv, TypeOK
<1> QED BY <1>1, <1>2, MovePreserves DEF Running

LEMMA NotYetPreserves ==
  ASSUME ServerInv, NotYet
  PROVE  ServerInv'
<1>1. /\ pc = "curl" /\ pc' = "poll" /\ polls' = polls + 1 /\ polls + 1 < MaxPolls
      /\ UNCHANGED <<n, job, port, srv, server, deaf, at, holder, waits, went, ended>>
  BY DEF NotYet, Unhealthy, Polled, run, processes
<1>2. polls' \in 0 .. MaxPolls - 1
  BY <1>1, ServerAssumption DEF ServerInv, TypeOK
<1>3. TypeOK'
  BY <1>1, <1>2 DEF ServerInv, TypeOK
<1> QED BY <1>1, <1>3, MovePreserves DEF Running

(* After the rows the server, if there is one, is stopped. *)
LEMMA AfterRowsPreserves ==
  ASSUME ServerInv, pc = "rows", NEW outcome \in {"summary", "failed"},
         ended' = [ended EXCEPT ![n] = outcome],
         IF srv = None THEN pc' = "summary" ELSE pc' = "stop",
         UNCHANGED <<n, job, port, polls, srv, server, deaf, at, holder, waits, went>>
  PROVE  ServerInv'
<1>1. TypeOK'
  BY DEF ServerInv, TypeOK, Outcomes
<1>2. srv # None => srv = n
  BY DEF ServerInv, TypeOK
<1>3. srv = None => n \notin Alive
  BY DEF ServerInv, Stations
<1>4. \A r \in Runs \ {n} : ended'[r] = ended[r]
  BY DEF ServerInv, TypeOK
<1> QED BY <1>1, <1>2, <1>3, <1>4, MovePreserves DEF Running

LEMMA AllRowsPreserves ==
  ASSUME ServerInv, AllRows
  PROVE  ServerInv'
<1>1. /\ pc = "rows" /\ ended' = [ended EXCEPT ![n] = "summary"]
      /\ IF srv = None THEN pc' = "summary" ELSE pc' = "stop"
      /\ UNCHANGED <<n, job, port, polls, srv, server, deaf, at, holder, waits, went>>
  BY DEF AllRows, AfterRows, run, processes
<1> QED BY <1>1, AfterRowsPreserves

LEMMA RowFailsPreserves ==
  ASSUME ServerInv, RowFails
  PROVE  ServerInv'
<1>1. pc = "rows" /\ UNCHANGED <<run, polls, srv, processes, went>>
  BY DEF RowFails
<1>2. CASE srv = None
  <2>1. Running /\ n \notin Alive /\ Fail("failed")
    BY <1>1, <1>2 DEF RowFails, Running, ServerInv, Stations
  <2> QED BY <1>1, <2>1, FailPreserves DEF processes
<1>3. CASE srv # None
  <2>1. pc' = "stop" /\ ended' = [ended EXCEPT ![n] = "failed"]
    BY <1>3 DEF RowFails
  <2> QED BY <1>1, <1>3, <2>1, AfterRowsPreserves DEF run, processes
<1> QED BY <1>2, <1>3

(* A run without a living server may end. *)
LEMMA LeavePreserves ==
  ASSUME ServerInv, Running, n \notin Alive, pc' = "idle",
         UNCHANGED <<n, job, port, polls, srv, server, deaf, at, holder, waits, went, ended>>
  PROVE  ServerInv'
<1> USE DEF ServerInv
<1>1. Alive' = Alive
  BY DEF Alive
<1>2. TypeOK'
  BY DEF TypeOK
<1>3. Stations'
  BY DEF Stations, Running
<1>4. HoldersLive'
  BY <1>1 DEF HoldersLive
<1>5. NoServerLeft'
  BY <1>1 DEF NoServerLeft
<1>6. OwnServerReplays'
  BY ReplaysStay
<1> QED BY <1>2, <1>3, <1>4, <1>5, <1>6

LEMMA WaitedPreserves ==
  ASSUME ServerInv, Waited
  PROVE  ServerInv'
<1>1. /\ pc = "wait" /\ pc' \in {"idle", "summary"} /\ n \notin Alive
      /\ UNCHANGED <<n, job, port, polls, srv, server, deaf, at, holder, waits, went, ended>>
  BY DEF Waited, AfterWait, run, processes, ServerInv, Stations
<1>2. TypeOK'
  BY <1>1 DEF ServerInv, TypeOK
<1>3. CASE pc' = "idle"
  BY <1>1, <1>3, LeavePreserves DEF Running
<1>4. CASE pc' = "summary"
  BY <1>1, <1>2, <1>4, MovePreserves DEF Running
<1> QED BY <1>1, <1>3, <1>4

LEMMA SummaryPreserves ==
  ASSUME ServerInv, Summary
  PROVE  ServerInv'
<1>1. /\ pc = "summary" /\ pc' = "idle" /\ n \notin Alive
      /\ UNCHANGED <<n, job, port, polls, srv, server, deaf, at, holder, waits, went, ended>>
  BY DEF Summary, run, processes, ServerInv, Stations
<1> QED BY <1>1, LeavePreserves DEF Running

LEMMA ReplayPreserves ==
  ASSUME ServerInv, Replay
  PROVE  ServerInv'
<1> USE DEF ServerInv
<1>1. /\ pc = "rows" /\ Destination \in Backends
      /\ went' = went \union {Destination}
      /\ UNCHANGED <<pc, n, job, port, polls, srv, server, deaf, at, holder, waits, ended>>
  BY DEF Replay, run, processes
<1>2. n \in Runs /\ port \in Ports
  BY <1>1 DEF Stations, Running
<1>3. TypeOK'
  BY <1>1 DEF TypeOK
<1>4. Alive' = Alive
  BY <1>1 DEF Alive
<1>5. Stations' /\ HoldersLive' /\ NoServerLeft'
  BY <1>1, <1>4 DEF Stations, HoldersLive, NoServerLeft, Running
<1>6. OwnServerReplays'
  <2> SUFFICES ASSUME \A r \in 1 .. n - 1 : ~LeftServer(r),
                      NEW d \in went \union {Destination}, d[1] = "server"
               PROVE  d[2] \in {n, Other}
    BY <1>1 DEF OwnServerReplays, LeftServer
  <2>1. CASE d \in went
    BY <2>1 DEF OwnServerReplays
  <2>2. CASE d = Destination
    <3>1. d = <<"server", holder[port]>>
      BY <2>2 DEF Destination
    <3>2. holder[port] \in Runs \union {Other}
      BY <1>1, <2>2, <3>1 DEF Backends
    <3> SUFFICES ASSUME holder[port] \in Runs PROVE holder[port] = n
      BY <3>1, <3>2
    <3>3. holder[port] \in Alive
      BY <1>1, <1>2, <2>2, <3>1 DEF Answering, HoldersLive, Replay
    <3>4. holder[port] <= n
      BY <1>2, <3>3, RunsFacts DEF Stations, Alive
    <3>5. holder[port] # n => LeftServer(holder[port])
      BY <3>3 DEF NoServerLeft, LeftServer
    <3>6. holder[port] # n => holder[port] \in 1 .. n - 1
      BY <1>2, <3>4, RunsFacts
    <3> QED BY <3>5, <3>6
  <2> QED BY <2>1, <2>2
<1> QED BY <1>3, <1>5, <1>6

-----------------------------------------------------------------------------
(* Servers that change *)

LEMMA AskedAlive ==
  ASSUME TypeOK, NEW r \in Runs, server' = Asked(r)
  PROVE  /\ server' \in [Runs -> {"none", "starting", "up", "asked", "killed", "gone"}]
         /\ Alive' = Alive
         /\ r \in Alive => server'[r] = "asked"
         /\ \A s \in Runs \ {r} : server'[s] = server[s]
         /\ \A s \in Runs : server[s] = "none" => server'[s] = "none"
         /\ \A s \in Runs : server[s] = "asked" => server'[s] = "asked"
         /\ \A s \in Runs : server[s] = "killed" => server'[s] = "killed"
<1>1. server' = [s \in Runs |-> IF s = r /\ r \in Alive THEN "asked" ELSE server[s]]
  BY DEF Asked, TypeOK
<1>2. \A s \in Alive : s \in Runs /\ server[s] \in {"starting", "up", "asked"}
  BY DEF Alive
<1> QED BY <1>1, <1>2 DEF Alive, TypeOK

LEMMA NeverHealthyPreserves ==
  ASSUME ServerInv, NeverHealthy
  PROVE  ServerInv'
<1> USE DEF ServerInv
<1>1. /\ pc = "curl" /\ pc' = "idle"
      /\ server' = Asked(n) /\ ended' = [ended EXCEPT ![n] = "never healthy"]
      /\ UNCHANGED <<n, job, port, polls, srv, deaf, at, holder, waits, went>>
  BY DEF NeverHealthy, Unhealthy, Polled, Fail, run
<1>2. n \in Runs
  BY <1>1 DEF Stations, Running
<1>3. TypeOK'
  BY <1>1, <1>2, AskedAlive DEF TypeOK, Outcomes
<1>4. Alive' = Alive
  BY <1>1, <1>2, AskedAlive
<1>5. Stations'
  BY <1>1, <1>2, AskedAlive DEF Stations, Running
<1>6. HoldersLive'
  BY <1>1, <1>2, <1>4, AskedAlive DEF HoldersLive
<1>7. NoServerLeft'
  <2> SUFFICES ASSUME NEW r \in Alive
               PROVE  ended'[r] \in {"killed", "no curl"}
                        \/ (ended'[r] = "never healthy" /\ server'[r] = "asked")
    BY <1>4 DEF NoServerLeft
  <2>1. CASE r = n
    BY <1>1, <1>2, <2>1, AskedAlive DEF TypeOK
  <2>2. CASE r # n
    BY <1>1, <1>2, <2>2, AskedAlive DEF NoServerLeft, TypeOK, Alive
  <2> QED BY <2>1, <2>2
<1>8. OwnServerReplays'
  <2>1. ended \in [Runs -> Outcomes \union {None}]
    BY DEF TypeOK
  <2>2. \A r \in 1 .. n - 1 : r \in Runs /\ r # n
    BY <1>2, RunsFacts
  <2>3. \A r \in 1 .. n - 1 : ended'[r] = ended[r]
    <3> HIDE DEF ServerInv
    <3> QED BY <1>1, <2>1, <2>2
  <2> QED BY <1>1, <2>3, ReplaysStay
<1> QED BY <1>3, <1>5, <1>6, <1>7, <1>8

LEMMA TerminatePreserves ==
  ASSUME ServerInv, Terminate
  PROVE  ServerInv'
<1> USE DEF ServerInv
<1>1. /\ pc = "stop" /\ pc' = "wait" /\ srv = n
      /\ server' = Asked(n)
      /\ UNCHANGED <<n, job, port, polls, srv, deaf, at, holder, waits, went, ended>>
  BY DEF Terminate, run, Stations
<1>2. n \in Runs /\ port \in Ports
  BY <1>1 DEF Stations, Running
<1>3. TypeOK'
  BY <1>1, <1>2, AskedAlive DEF TypeOK
<1>4. Alive' = Alive
  BY <1>1, <1>2, AskedAlive
<1>5. Stations'
  BY <1>1, <1>2, AskedAlive DEF Stations, Running
<1>6. HoldersLive'
  BY <1>1, <1>2, <1>4, AskedAlive DEF HoldersLive
<1>7. NoServerLeft'
  BY <1>1, <1>2, <1>4, AskedAlive DEF NoServerLeft, Running, Alive
<1>8. OwnServerReplays'
  BY <1>1, ReplaysStay
<1> QED BY <1>3, <1>5, <1>6, <1>7, <1>8

(* A server that is alive no longer; the harness may move on.              *)
LEMMA LosesPreserves ==
  ASSUME ServerInv, NEW r \in Runs, server[r] # "none", NEW how \in {"killed", "gone"},
         server' = [server EXCEPT ![r] = how], TypeOK', HoldersLive',
         n' = n, port' = port, srv' = srv, went' = went, ended' = ended,
         pc' = pc \/ (Running /\ r = n /\ pc' \in {"idle", "summary"})
  PROVE  ServerInv'
<1> USE DEF ServerInv
<1>1. Alive' = Alive \ {r}
  BY DEF Alive, TypeOK
<1>2. Stations'
  BY <1>1 DEF Stations, Running, TypeOK
<1>3. NoServerLeft'
  <2> SUFFICES ASSUME NEW s \in Alive, s # r
               PROVE  \/ s = n /\ Running'
                      \/ ended'[s] \in {"killed", "no curl"}
                      \/ ended'[s] = "never healthy" /\ server'[s] = "asked"
    BY <1>1 DEF NoServerLeft
  <2> QED BY DEF NoServerLeft, Running, TypeOK, Alive
<1>4. OwnServerReplays'
  BY ReplaysStay
<1> QED BY <1>2, <1>3, <1>4

LEMMA KillServerPreserves ==
  ASSUME ServerInv, KillServer
  PROVE  ServerInv'
<1> USE DEF ServerInv
<1>1. /\ pc = "wait" /\ srv = n /\ n \in Alive
      /\ server' = [server EXCEPT ![n] = "killed"]
      /\ pc' \in {"idle", "summary"}
      /\ UNCHANGED <<n, job, port, polls, srv, deaf, at, holder, waits, went, ended>>
  BY DEF KillServer, AfterWait, run, Stations
<1>2. n \in Runs /\ server[n] # "none"
  BY <1>1 DEF Alive
<1>3. TypeOK'
  BY <1>1, <1>2 DEF TypeOK
<1>4. HoldersLive'
  BY <1>1, <1>2 DEF HoldersLive, Alive, TypeOK
<1> HIDE DEF ServerInv
<1> QED BY <1>1, <1>2, <1>3, <1>4, LosesPreserves DEF Running

(* A server that ends lets go of its port. *)
LEMMA DiePreserves ==
  ASSUME ServerInv, NEW r \in Runs, Die(r)
  PROVE  ServerInv'
<1> USE DEF ServerInv
<1>1. /\ server[r] # "none"
      /\ server' = [server EXCEPT ![r] = "gone"]
      /\ holder' = [p \in Ports |-> IF holder[p] = r THEN None ELSE holder[p]]
      /\ waits' \in {waits, None}
      /\ UNCHANGED <<pc, n, job, port, polls, srv, deaf, at, went, ended>>
  BY DEF Die, Ends, run, Alive
<1>2. TypeOK'
  BY <1>1 DEF TypeOK
<1>3. HoldersLive'
  BY <1>1, RunsFacts DEF HoldersLive, Alive, TypeOK
<1> HIDE DEF ServerInv
<1> QED BY <1>1, <1>2, <1>3, LosesPreserves

LEMMA BindPreserves ==
  ASSUME ServerInv, NEW r \in Runs, Bind(r)
  PROVE  ServerInv'
<1> USE DEF ServerInv
<1>1. /\ server[r] = "starting"
      /\ server' = [server EXCEPT ![r] = "up"]
      /\ holder' = [holder EXCEPT ![at[r]] = r]
      /\ UNCHANGED <<pc, n, job, port, polls, srv, deaf, at, waits, went, ended>>
  BY DEF Bind, run
<1>2. TypeOK'
  BY <1>1 DEF TypeOK
<1>3. Alive' = Alive /\ r \in Alive
  BY <1>1 DEF Alive, TypeOK
<1>4. Stations'
  BY <1>1, <1>3 DEF Stations, Running, TypeOK
<1>5. HoldersLive'
  BY <1>1, <1>3 DEF HoldersLive, TypeOK
<1>6. NoServerLeft'
  BY <1>1, <1>3 DEF NoServerLeft, Running, TypeOK, Alive
<1>7. OwnServerReplays'
  BY <1>1, ReplaysStay
<1> QED BY <1>2, <1>4, <1>5, <1>6, <1>7

LEMMA TakePortPreserves ==
  ASSUME ServerInv, TakePort
  PROVE  ServerInv'
<1> USE DEF ServerInv
<1>1. UNCHANGED <<pc, n, job, port, polls, srv, server, deaf, at, waits, went, ended>>
  BY DEF TakePort, run
<1>2. PICK p \in Ports, who \in {Foreign, Other} : holder' = [holder EXCEPT ![p] = who]
  BY DEF TakePort
<1>3. TypeOK'
  BY <1>1, <1>2 DEF TypeOK
<1>4. Alive' = Alive
  BY <1>1 DEF Alive
<1>5. Stations' /\ NoServerLeft'
  BY <1>1, <1>4 DEF Stations, NoServerLeft, Running
<1>6. HoldersLive'
  <2>1. \A q \in Ports : holder'[q] \in Runs => holder'[q] = holder[q]
    <3> HIDE DEF ServerInv
    <3>1. holder \in [Ports -> Runs \union {None, Foreign, Other}]
      BY DEF ServerInv, TypeOK
    <3> QED BY <1>2, <3>1, RunsFacts
  <2> QED BY <1>1, <1>4, <2>1 DEF HoldersLive
<1>7. OwnServerReplays'
  BY <1>1, ReplaysStay
<1> QED BY <1>3, <1>5, <1>6, <1>7

(* Whom the harness waits for decides nothing about the servers. *)
LEMMA HangPreserves ==
  ASSUME ServerInv, Hang
  PROVE  ServerInv'
<1> USE DEF ServerInv
<1>1. waits' \in Partners
      /\ UNCHANGED <<pc, n, job, port, polls, srv, server, deaf, at, holder, went, ended>>
  BY DEF Hang, run
<1>2. Alive' = Alive
  BY <1>1 DEF Alive
<1>3. TypeOK'
  BY <1>1 DEF TypeOK
<1>4. Stations' /\ HoldersLive' /\ NoServerLeft'
  BY <1>1, <1>2 DEF Stations, HoldersLive, NoServerLeft, Running
<1>5. OwnServerReplays'
  BY <1>1, ReplaysStay
<1> QED BY <1>3, <1>4, <1>5

LEMMA StutterPreserves ==
  ASSUME ServerInv, UNCHANGED vars
  PROVE  ServerInv'
<1> USE DEF ServerInv
<1>1. UNCHANGED <<pc, n, job, port, polls, srv, server, deaf, at, holder, waits, went, ended>>
  BY DEF vars
<1>2. Alive' = Alive
  BY <1>1 DEF Alive
<1>3. TypeOK'
  BY <1>1 DEF TypeOK
<1>4. Stations' /\ HoldersLive' /\ NoServerLeft'
  BY <1>1, <1>2 DEF Stations, HoldersLive, NoServerLeft, Running
<1>5. OwnServerReplays'
  BY <1>1, ReplaysStay
<1> QED BY <1>3, <1>4, <1>5

-----------------------------------------------------------------------------
(* What follows *)

LEMMA ServerInvariant == Spec => []ServerInv
<1>1. Init => ServerInv
  <2> SUFFICES ASSUME Init PROVE ServerInv
    OBVIOUS
  <2>1. TypeOK
    BY ServerAssumption DEF Init, TypeOK
  <2>2. Alive = {}
    BY DEF Init, Alive
  <2>3. Stations
    BY DEF Init, Stations, Running
  <2>4. HoldersLive
    BY RunsFacts DEF Init, HoldersLive
  <2> QED BY <2>1, <2>2, <2>3, <2>4 DEF Init, ServerInv, NoServerLeft, OwnServerReplays
<1>2. ServerInv /\ [Next]_vars => ServerInv'
  BY BeginPreserves, StartPreserves, EarlyExitPreserves, StillTherePreserves,
     NoCurlPreserves, HealthyPreserves, NotYetPreserves, NeverHealthyPreserves, AllRowsPreserves,
     RowFailsPreserves, TerminatePreserves, WaitedPreserves, KillServerPreserves,
     SummaryPreserves, ReplayPreserves, HangPreserves, TakePortPreserves, KillPreserves,
     BindPreserves, DiePreserves, StutterPreserves DEF Next, Harness, NoAnswer, Finished
<1> QED BY <1>1, <1>2, PTL DEF Spec

(* Every variable of the harness and its servers has its type, and health  *)
(* polls stay within their number.                                         *)
THEOREM ServerTypeCorrect == Spec => []TypeOK
<1>1. ServerInv => TypeOK
  BY DEF ServerInv
<1> QED BY <1>1, ServerInvariant, PTL

(* Only a run that was killed, had no curl or never found its server       *)
(* healthy can end with the server alive; the last has asked it to stop.   *)
THEOREM ServersAreStopped == Spec => []NoServerLeft
<1>1. ServerInv => NoServerLeft
  BY DEF ServerInv
<1> QED BY <1>1, ServerInvariant, PTL

(* Where no earlier run left its server behind, a run's replays go to the  *)
(* server it has started itself, or to somebody else's that has its port.  *)
THEOREM ReplaysGoHome == Spec => []OwnServerReplays
<1>1. ServerInv => OwnServerReplays
  BY DEF ServerInv
<1> QED BY <1>1, ServerInvariant, PTL
=============================================================================
