---------------------------- MODULE ServerStartup ----------------------------
(***************************************************************************)
(* The life of jj-cc-server (server/src/main.rs) and of the tests that     *)
(* start one each (testutils): the harness passes --port=0 and reads the   *)
(* server's stdout for the address, against a timer; the test connects to  *)
(* it and drops the guard at its end.  Tests run in parallel, servers may  *)
(* be slow, crash or be interrupted, and ports that are freed are handed   *)
(* out again.                                                              *)
(***************************************************************************)
EXTENDS Integers, Sequences

CONSTANTS
    Test,       \* tests; server t is the child process of test t
    Port,       \* ephemeral ports of the machine
    MaxLines    \* bound: lines on stdout other than the address

VARIABLES
    sqlite,     \* the tests that ask for the sqlite store
    server,     \* server[t]: how far the server has come
    port,       \* port[t]: where it listens
    health,     \* health[t]: whether the health service says SERVING
    out,        \* out[t]: lines in the pipe: a port announced, or Noise
    lines,      \* lines[t]: other lines written
    crashed,    \* servers that died of themselves
    harness,    \* harness[t]: the state of test t
    timer,      \* timer[t]: the harness's two seconds are over
    url,        \* url[t]: the port the harness returned
    rpc         \* rpc[t]: the test's health check: server, progress, answer

child == <<server, port, health, out, lines, crashed>>
test == <<harness, timer, url, rpc>>
vars == <<sqlite, child, test>>

NoPort == 0
Noise == 0

\* Port 0 is never what a listener gets, but how it asks for any.
ASSUME PortAssumption == NoPort \notin Port
ASSUME LinesAssumption == MaxLines \in Nat

NoRpc == [to |-> "none", stage |-> "none", serving |-> FALSE]

Listening(t) == port[t] # NoPort
Running(t) == server[t] \notin {"none", "gone"}
InFlight(t) == {s \in Test : rpc[s].to = t /\ rpc[s].stage = "handled"}

Init ==
    /\ sqlite \in SUBSET Test
    /\ server = [t \in Test |-> "none"] /\ port = [t \in Test |-> NoPort]
    /\ health = [t \in Test |-> FALSE] /\ out = [t \in Test |-> <<>>]
    /\ lines = [t \in Test |-> 0] /\ crashed = {}
    /\ harness = [t \in Test |-> "idle"] /\ timer = [t \in Test |-> FALSE]
    /\ url = [t \in Test |-> NoPort] /\ rpc = [t \in Test |-> NoRpc]

-----------------------------------------------------------------------------
(* main: the server process.                                               *)

Becomes(t, s) == server' = [server EXCEPT ![t] = s]

\* Exit or death: the listener is closed, and so is every connection.
Gone(t) ==
    /\ Becomes(t, "gone") /\ port' = [port EXCEPT ![t] = NoPort]
    /\ rpc' = [s \in Test |->
                  IF rpc[s].to = t /\ rpc[s].stage \in {"queued", "handled"}
                  THEN [rpc[s] EXCEPT !.stage = "broken"] ELSE rpc[s]]
    /\ UNCHANGED <<health, out, lines>>

\* Falling through to the memory store.
ParseAnything(t) ==
    /\ server[t] = "starting"
    /\ Becomes(t, "parsed")
    /\ UNCHANGED <<port, health, out, lines, crashed, test>>

\* Only the memory store exists.
Parse(t) ==
    /\ server[t] = "starting"
    /\ \/ t \in sqlite /\ Gone(t)
       \/ /\ t \notin sqlite /\ Becomes(t, "parsed")
          /\ UNCHANGED <<port, health, out, lines, rpc>>
    /\ UNCHANGED <<crashed, harness, timer, url>>

\* Forgetting to set it.
ReportNothing(t) ==
    /\ server[t] = "parsed"
    /\ Becomes(t, "healthy")
    /\ UNCHANGED <<port, health, out, lines, crashed, test>>

\* The health service's status is set before there is a listener.
ReportHealth(t) ==
    /\ server[t] = "parsed"
    /\ health' = [health EXCEPT ![t] = TRUE]
    /\ Becomes(t, "healthy")
    /\ UNCHANGED <<port, out, lines, crashed, test>>

Free == Port \ {port[s] : s \in Test}

\* A port fixed in advance.
BindFixed(t) ==
    /\ server[t] = "healthy"
    /\ LET p == CHOOSE q \in Port : TRUE IN
          \/ p \in Free /\ Becomes(t, "bound") /\ port' = [port EXCEPT ![t] = p]
                /\ UNCHANGED <<health, out, lines, rpc>>
          \/ p \notin Free /\ Gone(t)
    /\ UNCHANGED <<crashed, harness, timer, url>>

\* A listener that lets others listen on its port.
BindShared(t) ==
    /\ server[t] = "healthy"
    /\ \E p \in Port : port' = [port EXCEPT ![t] = p]
    /\ Becomes(t, "bound")
    /\ UNCHANGED <<health, out, lines, crashed, test>>

\* Port 0: the system picks one that is free.
Bind(t) ==
    /\ server[t] = "healthy"
    /\ \E p \in Free : port' = [port EXCEPT ![t] = p]
    /\ Becomes(t, "bound")
    /\ UNCHANGED <<health, out, lines, crashed, test>>

\* The one line the harness waits for.
Announce(t) ==
    /\ server[t] = "bound"
    /\ out' = [out EXCEPT ![t] = Append(@, port[t])]
    /\ Becomes(t, "announced")
    /\ UNCHANGED <<port, health, lines, crashed, test>>

Serve(t) ==
    /\ server[t] = "announced" /\ Becomes(t, "serving")
    /\ UNCHANGED <<port, health, out, lines, crashed, test>>

\* Other events that RUST_LOG lets through.
Log(t) ==
    /\ Running(t) /\ lines[t] < MaxLines
    /\ lines' = [lines EXCEPT ![t] = @ + 1]
    /\ out' = [out EXCEPT ![t] = Append(@, Noise)]
    /\ UNCHANGED <<server, port, health, crashed, test>>

\* Ctrl-C: the listener is closed, what is being handled is finished.
Interrupt(t) ==
    /\ server[t] = "serving"
    /\ Becomes(t, "draining") /\ port' = [port EXCEPT ![t] = NoPort]
    /\ rpc' = [s \in Test |-> IF rpc[s].to = t /\ rpc[s].stage = "queued"
                              THEN [rpc[s] EXCEPT !.stage = "broken"] ELSE rpc[s]]
    /\ UNCHANGED <<health, out, lines, crashed, harness, timer, url>>

\* tonic answers what is being handled before serve_with_incoming_shutdown
\* returns.
Stop(t) ==
    /\ server[t] = "draining" /\ InFlight(t) = {} /\ Gone(t)
    /\ UNCHANGED <<crashed, harness, timer, url>>

Crash(t) ==
    /\ Running(t) /\ Gone(t) /\ crashed' = crashed \cup {t}
    /\ UNCHANGED <<harness, timer, url>>

\* A connection that waits in the listener's backlog is accepted and handled.
Handle(t) ==
    /\ server[t] = "serving"
    /\ \E s \in Test :
          /\ rpc[s].to = t /\ rpc[s].stage = "queued"
          /\ rpc' = [rpc EXCEPT ![s].stage = "handled"]
    /\ UNCHANGED <<child, harness, timer, url>>

Answer(t) ==
    /\ server[t] \in {"serving", "draining"}
    /\ \E s \in InFlight(t) :
          rpc' = [rpc EXCEPT ![s].stage = "answered", ![s].serving = health[t]]
    /\ UNCHANGED <<child, harness, timer, url>>

-----------------------------------------------------------------------------
(* spawn_server_with_args, ServerGuard and the test that uses them.        *)

Turns(t, h) == harness' = [harness EXCEPT ![t] = h]

Spawn(t) ==
    /\ harness[t] = "idle" /\ Turns(t, "reading") /\ Becomes(t, "starting")
    /\ UNCHANGED <<port, health, out, lines, crashed, timer, url, rpc>>

\* The branches of the select loop; a ready one may be passed over.
ReadLine(t) ==
    /\ harness[t] = "reading" /\ out[t] # <<>>
    /\ out' = [out EXCEPT ![t] = Tail(@)]
    /\ \/ Head(out[t]) = Noise /\ UNCHANGED <<harness, url>>
       \/ /\ Head(out[t]) # Noise /\ Turns(t, "ready")
          /\ url' = [url EXCEPT ![t] = Head(out[t])]
    /\ UNCHANGED <<server, port, health, lines, crashed, timer, rpc>>

EndOfOutput(t) ==
    /\ harness[t] = "reading" /\ out[t] = <<>> /\ server[t] = "gone"
    /\ Turns(t, "panicked")
    /\ UNCHANGED <<child, timer, url, rpc>>

TimerFires(t) ==
    /\ harness[t] = "reading" /\ ~timer[t]
    /\ timer' = [timer EXCEPT ![t] = TRUE]
    /\ UNCHANGED <<child, harness, url, rpc>>

\* Heeding the timer only when there is something to read as well.
TimeoutOnLine(t) ==
    /\ harness[t] = "reading" /\ timer[t] /\ out[t] # <<>>
    /\ Turns(t, "panicked")
    /\ UNCHANGED <<child, timer, url, rpc>>

Timeout(t) ==
    /\ harness[t] = "reading" /\ timer[t]
    /\ Turns(t, "panicked")
    /\ UNCHANGED <<child, timer, url, rpc>>

\* The test asks for the server's health, at the port it was given.
Connect(t) ==
    /\ harness[t] = "ready" /\ rpc[t] = NoRpc
    /\ \/ \E s \in Test :
             /\ Listening(s) /\ port[s] = url[t]
             /\ rpc' = [rpc EXCEPT ![t] = [NoRpc EXCEPT !.to = s, !.stage = "queued"]]
       \/ /\ \A s \in Test : port[s] # url[t]
          /\ rpc' = [rpc EXCEPT ![t].stage = "refused"]
    /\ UNCHANGED <<child, harness, timer, url>>

\* ServerGuard::drop, when the test returns or panics: the child is killed.
DropGuard(t) ==
    /\ harness[t] = "ready" /\ Turns(t, "done")
    /\ IF Running(t) THEN Gone(t) ELSE UNCHANGED <<server, port, health, out, lines, rpc>>
    /\ UNCHANGED <<crashed, timer, url>>

-----------------------------------------------------------------------------

HarnessStep(t) ==
    (ReadLine(t) \/ EndOfOutput(t) \/ TimerFires(t) \/ Timeout(t))
    /\ UNCHANGED sqlite

TestStep(t) ==
    \/ Parse(t) \/ ReportHealth(t) \/ Bind(t) \/ Announce(t) \/ Serve(t)
    \/ Log(t) \/ Interrupt(t) \/ Stop(t) \/ Crash(t) \/ Handle(t) \/ Answer(t)
    \/ Spawn(t) \/ HarnessStep(t) \/ Connect(t) \/ DropGuard(t)

Next == (\E t \in Test : TestStep(t)) /\ UNCHANGED sqlite

\* The harness runs and its timer fires; of the server nothing is expected.
Spec == Init /\ [][Next]_vars /\ \A t \in Test : WF_vars(HarnessStep(t))

-----------------------------------------------------------------------------
(* Properties.                                                             *)

Stage ==
    {"none", "starting", "parsed", "healthy", "bound", "announced", "serving",
     "draining", "gone"}
RpcStage == {"none", "queued", "handled", "answered", "broken", "refused"}
Rpc == [to : Test \cup {"none"}, stage : RpcStage, serving : BOOLEAN]

\* The variables hold values of their types.
TypeOK ==
    /\ sqlite \subseteq Test /\ crashed \subseteq Test
    /\ server \in [Test -> Stage]
    /\ port \in [Test -> Port \cup {NoPort}] /\ url \in [Test -> Port \cup {NoPort}]
    /\ health \in [Test -> BOOLEAN] /\ timer \in [Test -> BOOLEAN]
    /\ out \in [Test -> Seq(Port \cup {Noise})] /\ lines \in [Test -> 0..MaxLines]
    /\ harness \in [Test -> {"idle", "reading", "ready", "panicked", "done"}]
    /\ rpc \in [Test -> Rpc]

\* Whoever holds a url can connect to it as long as that server runs and has
\* not been interrupted, even before it accepts connections; and it is never
\* another test's server that listens there meanwhile.
UrlReachesOwnServer == \A t \in Test :
    harness[t] = "ready" /\ Running(t) /\ server[t] # "draining" =>
        \A s \in Test : port[s] = url[t] <=> s = t

\* A test that asks for the sqlite store is never handed a server with another
\* store in its place (test_sqlite_store.rs expects the panic).
NoServerForSqlite == \A t \in Test : harness[t] = "ready" => t \notin sqlite

\* However many tests run at once, a harness gives up only because there is no
\* such store, its server died, or two seconds were not enough.
PanicHasReason == \A t \in Test :
    harness[t] = "panicked" => t \in sqlite \/ t \in crashed \/ timer[t]

\* A health check that is answered says SERVING (test_server_startup.rs).
AnswersServing == \A t \in Test : rpc[t].stage = "answered" => rpc[t].serving

\* What is in the pipe, and which servers have written the line.
Piped(t) == {out[t][i] : i \in DOMAIN out[t]}
Announced(t) == server[t] \in {"announced", "serving", "draining", "gone"}

\* A server has a port from binding until it is interrupted or gone, and the
\* port is its own.
PortInv == \A t \in Test :
    /\ Listening(t) <=> server[t] \in {"bound", "announced", "serving"}
    /\ \A s \in Test : Listening(t) /\ port[s] = port[t] => s = t

\* The one line that is not noise comes from a server that has passed all of
\* main's steps, and names its port for as long as there is one.
LineInv == \A t \in Test :
    /\ harness[t] = "idle" => server[t] = "none"
    /\ \A p \in Piped(t) \ {Noise} :
          Announced(t) /\ t \notin sqlite /\ (Listening(t) => port[t] = p)
    /\ harness[t] = "ready" =>
          /\ Announced(t) /\ t \notin sqlite
          /\ url[t] # NoPort /\ (Listening(t) => port[t] = url[t])
    /\ t \in sqlite => server[t] \in {"none", "starting", "gone"}

\* While the harness reads, the line is in the pipe once it has been written,
\* or the server has died without it.
PipeInv == \A t \in Test :
    harness[t] = "reading" /\ Announced(t) =>
        \/ Piped(t) \ {Noise} # {}
        \/ server[t] = "gone" /\ (t \in sqlite \/ t \in crashed)

\* A server that handles requests serves or drains, and is healthy.
ServeInv == \A t \in Test :
    /\ server[t] \in {"healthy", "bound", "announced", "serving", "draining"} => health[t]
    /\ \A s \in Test : rpc[s].stage = "handled" /\ rpc[s].to = t =>
          server[t] \in {"serving", "draining"}

\* The inductive invariant.
StartupInv ==
    /\ TypeOK /\ PortInv /\ LineInv /\ PipeInv /\ ServeInv
    /\ PanicHasReason /\ AnswersServing

\* A server that hangs does not hang the test: the harness returns or panics.
HarnessEnds == \A t \in Test : harness[t] = "reading" ~> harness[t] # "reading"

=============================================================================
