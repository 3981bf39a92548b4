------------------------------- MODULE Options -------------------------------
(***************************************************************************)
(* The constructors of connections, NewServerConn and NewDurConn: options  *)
(* are applied one after the other, and the connection is refused with the *)
(* first error.  A connection owns its runner, the default one or one that *)
(* an option has given it, and closes it in Close.                         *)
(***************************************************************************)
EXTENDS Naturals, Sequences

CONSTANTS
  Runners,     \* that the application may give
  MaxOptions   \* given to a constructor

DefaultRunner == "default"

ASSUME OptionsAssumption ==
  Runners \cap {"nil", "accepted", "refused"} = {} /\ MaxOptions \in Nat

\* SCOptRunner and DCOptRunner, which refuse nil.
RunnerOption == [set : {"runner"}, to : Runners \cup {"nil"}]

\* Any other option sets a field, or refuses its argument.
OtherOption == [set : {"other"}, to : {"accepted", "refused"}]

Option == RunnerOption \cup OtherOption

VARIABLES
  options,  \* those not applied yet
  runner,   \* the field of the connection
  given,    \* runners it has been given, in order
  closed,   \* runners that are closed
  conn      \* being made, made, refused, or closed again

optVars == <<options, runner, given, closed, conn>>

CloseReplaced_Kept(r) == UNCHANGED closed
CloseReplaced(r) == closed' = closed \cup {r}

\* The next option is applied; with an error the deferred Close of the runner.
Apply ==
  /\ conn = "making" /\ options # <<>>
  /\ LET o == Head(options)
     IN \/ /\ o.to \in {"nil", "refused"}
           /\ conn' = "refused"
           /\ closed' = closed \cup {runner}
           /\ UNCHANGED <<runner, given>>
        \/ /\ o.to = "accepted"
           /\ UNCHANGED <<runner, given, closed, conn>>
        \/ /\ o.to \in Runners
           /\ CloseReplaced(runner)
           /\ runner' = o.to /\ given' = Append(given, o.to)
           /\ UNCHANGED conn
  /\ options' = Tail(options)

\* The connection is returned; only now a DurConn starts to connect.
Made ==
  /\ conn = "making" /\ options = <<>>
  /\ conn' = "made"
  /\ UNCHANGED <<options, runner, given, closed>>

\* Close.
CloseConn ==
  /\ conn = "made"
  /\ conn' = "closed"
  /\ closed' = closed \cup {runner}
  /\ UNCHANGED <<options, runner, given>>

Constructed == conn \in {"refused", "closed"} /\ UNCHANGED optVars

OptionsInit ==
  /\ options \in UNION {[1..n -> Option] : n \in 0..MaxOptions}
  /\ runner = DefaultRunner /\ given = <<DefaultRunner>> /\ closed = {}
  /\ conn = "making"

OptionsNext == Apply \/ Made \/ CloseConn \/ Constructed

OptionsSpec == OptionsInit /\ [][OptionsNext]_optVars

-----------------------------------------------------------------------------
\* No runner a connection was given is leaked, whether the connection replaces it,
\* is refused, or is closed; and the one it has is open until then, unless it was
\* given that one twice.
RunnersOwned ==
  LET Given(r) == {i \in DOMAIN given : given[i] = r}
  IN  /\ \A i \in DOMAIN given : given[i] \in closed \cup {runner}
      /\ conn \in {"refused", "closed"} => runner \in closed
      /\ conn \in {"making", "made"} /\ runner \in closed =>
           \E i, j \in Given(runner) : i # j
=============================================================================
