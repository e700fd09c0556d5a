------------------------- MODULE MCTransportServer -------------------------
(***************************************************************************)
(* Runs for TLC: every surrounding there is, with --port and without curl  *)
(* where a server is started.                                              *)
(***************************************************************************)
EXTENDS TransportServer

MCJobs == {j \in Job : j.given \/ ~j.curl => own_server(j)}
=============================================================================
