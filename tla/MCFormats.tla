------------------------------ MODULE MCFormats ------------------------------
(***************************************************************************)
(* Relay, Exchange, Subjects and Options for TLC.  They share some         *)
(* operators and no state: a behaviour is one of one of them.              *)
(***************************************************************************)
EXTENDS Relay, Exchange, Subjects, Options

\* Contents are records, so that TLC can compare them with those of *RawData.
ThreeContents == {[val |-> 1], [val |-> 2], [val |-> 3]}
\* Each format fails to write one of them and to read another, and they differ in that.
NotWritten == [f \in {"json", "pb"} |-> {[val |-> IF f = "json" THEN 2 ELSE 3]}]
NotRead    == [f \in {"json", "pb"} |-> {[val |-> IF f = "json" THEN 3 ELSE 2]}]
OneKey == {"key"}
OldOrNew == {"old", "new"}
TwoWords == {"a", "b"}
TwoPrefixes == {"a", "p"}
TwoRunners == {"r1", "r2"}

NoMessage ==
  /\ pub = "none" /\ at = "none" /\ parent = {} /\ msg = "none" /\ got = "none"
NoCall ==
  /\ rpc = "none" /\ stage = "none" /\ req = NoReq /\ resp = NoResp
  /\ result \in RPCErr("none") /\ spans = {}
NoRoute ==
  /\ served = {} /\ wanted = "none" /\ step = "none" /\ reached = {} /\ found = {}
NoConn ==
  /\ options = <<>> /\ runner = "none" /\ given = <<>> /\ closed = {} /\ conn = "none"

Init ==
  \/ RelayInit /\ NoCall /\ NoRoute /\ NoConn
  \/ CallInit /\ NoMessage /\ NoRoute /\ NoConn
  \/ RouteInit /\ NoMessage /\ NoCall /\ NoConn
  \/ OptionsInit /\ NoMessage /\ NoCall /\ NoRoute
Next ==
  \/ RelayNext /\ UNCHANGED <<callVars, routeVars, optVars>>
  \/ CallNext /\ UNCHANGED <<relayVars, routeVars, optVars>>
  \/ RouteNext /\ UNCHANGED <<relayVars, callVars, optVars>>
  \/ OptionsNext /\ UNCHANGED <<relayVars, callVars, routeVars>>

Spec == Init /\ [][Next]_<<relayVars, callVars, routeVars, optVars>>
=============================================================================
