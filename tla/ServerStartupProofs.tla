------------------------ MODULE ServerStartupProofs ------------------------
(***************************************************************************)
(* Proofs about ServerStartup, for any tests and ports and any number of   *)
(* lines of output.                                                        *)
(***************************************************************************)
EXTENDS ServerStartup, SequenceTheorems, TLAPS

-----------------------------------------------------------------------------
(* Lemmas.                                                                 *)

LEMMA BecomesFacts ==
    ASSUME TypeOK, NEW t \in Test, NEW s \in Stage, Becomes(t, s)
    PROVE  /\ server' \in [Test -> Stage] /\ server'[t] = s
           /\ \A q \in Test \ {t} : server'[q] = server[q]
  BY DEF TypeOK, Becomes, Stage

\* What the end of a server leaves behind.
LEMMA GoneFacts ==
    ASSUME TypeOK, NEW t \in Test, Gone(t)
    PROVE  /\ server' \in [Test -> Stage] /\ server'[t] = "gone"
           /\ port' \in [Test -> Port \cup {NoPort}] /\ port'[t] = NoPort
           /\ \A q \in Test \ {t} : server'[q] = server[q] /\ port'[q] = port[q]
           /\ \A s \in Test :
                 IF rpc[s].to = t /\ rpc[s].stage \in {"queued", "handled"}
                 THEN rpc'[s].stage = "broken" ELSE rpc'[s] = rpc[s]
           /\ UNCHANGED <<health, out, lines>>
<1>1. server' \in [Test -> Stage] /\ server'[t] = "gone"
      /\ \A q \in Test \ {t} : server'[q] = server[q]
  BY BecomesFacts DEF Gone, Stage
<1>2. /\ port' \in [Test -> Port \cup {NoPort}] /\ port'[t] = NoPort
      /\ \A q \in Test \ {t} : port'[q] = port[q]
  BY DEF Gone, TypeOK
<1>3. \A s \in Test : rpc[s] \in Rpc
  BY DEF TypeOK
<1>4. ASSUME NEW s \in Test
      PROVE  IF rpc[s].to = t /\ rpc[s].stage \in {"queued", "handled"}
             THEN rpc'[s].stage = "broken" ELSE rpc'[s] = rpc[s]
  BY <1>3 DEF Gone, Rpc
<1> QED
  BY <1>1, <1>2, <1>4 DEF Gone

\* A request stays one when it gets on.
LEMMA RpcTyped ==
    ASSUME NEW r \in Rpc, NEW stage \in RpcStage
    PROVE  /\ [r EXCEPT !.stage = stage] \in Rpc
           /\ \A b \in BOOLEAN : [r EXCEPT !.stage = stage, !.serving = b] \in Rpc
BY DEF Rpc

LEMMA GoneRpcType ==
    ASSUME TypeOK, NEW t \in Test, Gone(t)
    PROVE  rpc' \in [Test -> Rpc]
<1>1. \A s \in Test : rpc[s] \in Rpc
  BY DEF TypeOK
<1>2. \A s \in Test : [rpc[s] EXCEPT !.stage = "broken"] \in Rpc
  BY <1>1, RpcTyped DEF RpcStage
<1> QED
  BY <1>1, <1>2 DEF Gone

LEMMA TypeStep ==
    ASSUME StartupInv, NEW t \in Test, TestStep(t), UNCHANGED sqlite
    PROVE  TypeOK'
<1> USE DEF StartupInv
<1>1. CASE Parse(t)
  BY <1>1, GoneFacts, GoneRpcType, BecomesFacts DEF Parse, TypeOK, Stage, Rpc
<1>2. CASE ReportHealth(t)
  BY <1>2, BecomesFacts DEF ReportHealth, TypeOK, Stage, test
<1>3. CASE Bind(t)
  BY <1>3, BecomesFacts DEF Bind, TypeOK, Stage, test, Free
<1>4. CASE Announce(t)
  BY <1>4, BecomesFacts DEF Announce, TypeOK, Stage, test, Noise, NoPort
<1>5. CASE Serve(t)
  BY <1>5, BecomesFacts DEF Serve, TypeOK, Stage, test
<1>6. CASE Log(t)
  BY <1>6, LinesAssumption DEF Log, TypeOK, test
<1>7. CASE Interrupt(t)
  <2>1. \A s \in Test : rpc'[s] \in {rpc[s], [rpc[s] EXCEPT !.stage = "broken"]}
    BY <1>7 DEF Interrupt
  <2>2. \A s \in Test : rpc[s] \in Rpc /\ [rpc[s] EXCEPT !.stage = "broken"] \in Rpc
    BY RpcTyped DEF TypeOK, RpcStage
  <2>3. rpc' \in [Test -> Rpc]
    BY <1>7, <2>1, <2>2 DEF Interrupt
  <2> QED
    BY <1>7, <2>3, BecomesFacts DEF Interrupt, TypeOK, Stage
<1>8. CASE Stop(t) \/ Crash(t) \/ DropGuard(t)
  BY <1>8, GoneFacts, GoneRpcType DEF Stop, Crash, DropGuard, Turns, TypeOK, Stage, Rpc
<1>9. CASE Handle(t) \/ Answer(t) \/ Connect(t)
  <2>1. rpc' \in [Test -> Rpc]
    <3>1. CASE Handle(t)
      <4>1. PICK s \in Test : rpc' = [rpc EXCEPT ![s].stage = "handled"]
        BY <3>1 DEF Handle
      <4>2. [rpc[s] EXCEPT !.stage = "handled"] \in Rpc
        BY RpcTyped DEF TypeOK, RpcStage
      <4> QED
        BY <4>1, <4>2 DEF TypeOK
    <3>2. CASE Answer(t)
      <4>1. PICK s \in Test :
                rpc' = [rpc EXCEPT ![s].stage = "answered", ![s].serving = health[t]]
        BY <3>2 DEF Answer, InFlight
      <4>2. [rpc[s] EXCEPT !.stage = "answered", !.serving = health[t]] \in Rpc
        BY RpcTyped DEF TypeOK, RpcStage
      <4> QED
        BY <4>1, <4>2 DEF TypeOK
    <3>3. CASE Connect(t)
      <4>1. ASSUME NEW s \in Test,
                   rpc' = [rpc EXCEPT ![t] = [NoRpc EXCEPT !.to = s, !.stage = "queued"]]
            PROVE  rpc' \in [Test -> Rpc]
        <5>1. [NoRpc EXCEPT !.to = s, !.stage = "queued"] \in Rpc
          BY DEF NoRpc, Rpc, RpcStage
        <5> QED
          BY <4>1, <5>1 DEF TypeOK
      <4>2. ASSUME rpc' = [rpc EXCEPT ![t].stage = "refused"]
            PROVE  rpc' \in [Test -> Rpc]
        <5>1. [rpc[t] EXCEPT !.stage = "refused"] \in Rpc
          BY RpcTyped DEF TypeOK, RpcStage
        <5> QED
          BY <4>2, <5>1 DEF TypeOK
      <4> QED
        BY <3>3, <4>1, <4>2 DEF Connect
    <3> QED
      BY <1>9, <3>1, <3>2, <3>3
  <2> QED
    BY <1>9, <2>1 DEF Handle, Answer, Connect, TypeOK, child
<1>10. CASE Spawn(t)
  BY <1>10, BecomesFacts DEF Spawn, Turns, TypeOK, Stage
<1>11. CASE ReadLine(t)
  <2>1. /\ Head(out[t]) \in Port \cup {Noise}
        /\ Tail(out[t]) \in Seq(Port \cup {Noise})
    BY <1>11 DEF ReadLine, TypeOK
  <2>2. out' \in [Test -> Seq(Port \cup {Noise})]
    BY <1>11, <2>1 DEF ReadLine, TypeOK
  <2>3. /\ url' \in [Test -> Port \cup {NoPort}]
        /\ harness' \in [Test -> {"idle", "reading", "ready", "panicked", "done"}]
    <3>1. CASE Head(out[t]) = Noise
      BY <1>11, <3>1 DEF ReadLine, TypeOK
    <3>2. CASE Head(out[t]) # Noise
      <4>1. Head(out[t]) \in Port
        BY <2>1, <3>2
      <4>2. url' = [url EXCEPT ![t] = Head(out[t])] /\ Turns(t, "ready")
        BY <1>11, <3>2 DEF ReadLine
      <4> QED
        BY <4>1, <4>2 DEF Turns, TypeOK
    <3> QED
      BY <3>1, <3>2
  <2> QED
    BY <1>11, <2>2, <2>3 DEF ReadLine, TypeOK
<1>12. CASE EndOfOutput(t) \/ TimerFires(t) \/ Timeout(t)
  BY <1>12 DEF EndOfOutput, TimerFires, Timeout, Turns, TypeOK, child
<1> QED
  BY <1>1, <1>2, <1>3, <1>4, <1>5, <1>6, <1>7, <1>8, <1>9, <1>10, <1>11, <1>12
     DEF TestStep, HarnessStep

-----------------------------------------------------------------------------
(* Steps.  Each lemma first deals with the actions that do not touch what  *)
(* its conjunct is about.                                                  *)

\* How a server gets on, if a step of test t is one of its.
LEMMA ServerMoves ==
    ASSUME StartupInv, NEW t \in Test, TestStep(t)
    PROVE  /\ \A s \in Test \ {t} : server'[s] = server[s] /\ port'[s] = port[s]
                                    /\ out'[s] = out[s] /\ harness'[s] = harness[s]
           /\ server'[t] = "parsed" /\ server[t] # "parsed" => t \notin sqlite
           /\ \A s \in Test : health[s] => health'[s]
           /\ server'[t] = "healthy" /\ server[t] # "healthy" => health'[t]
           /\ \/ UNCHANGED <<server, port>>
              \/ /\ server[t] # "none" /\ server'[t] = "gone" /\ port'[t] = NoPort
                 /\ \/ server[t] = "draining" \/ harness'[t] = "done"
                    \/ t \in crashed' \/ (server[t] = "starting" /\ t \in sqlite)
              \/ /\ port'[t] = port[t] /\ (server[t] = "none" => harness'[t] = "reading")
                 /\ <<server[t], server'[t]>> \in
                       {<<"none", "starting">>, <<"starting", "parsed">>, <<"parsed", "healthy">>,
                        <<"bound", "announced">>, <<"announced", "serving">>}
              \/ /\ server[t] = "healthy" /\ server'[t] = "bound"
                 /\ port'[t] \in Port /\ \A s \in Test : port[s] # port'[t]
              \/ server[t] = "serving" /\ server'[t] = "draining" /\ port'[t] = NoPort
<1> USE DEF StartupInv
<1>1. CASE Parse(t)
  BY <1>1, GoneFacts, BecomesFacts DEF Parse, Stage
<1>2. CASE ReportHealth(t)
  BY <1>2, BecomesFacts DEF ReportHealth, Stage, test, TypeOK
<1>3. CASE Bind(t)
  <2>1. PICK p \in Free : port' = [port EXCEPT ![t] = p]
    BY <1>3 DEF Bind
  <2> QED
    BY <1>3, <2>1, BecomesFacts DEF Bind, Stage, test, Free, TypeOK
<1>4. CASE Announce(t)
  BY <1>4, BecomesFacts DEF Announce, Stage, test, TypeOK
<1>5. CASE Serve(t)
  BY <1>5, BecomesFacts DEF Serve, Stage, test
<1>6. CASE Log(t)
  BY <1>6 DEF Log, TypeOK, test
<1>7. CASE Interrupt(t)
  BY <1>7, BecomesFacts DEF Interrupt, Stage, TypeOK
<1>8. CASE Stop(t) \/ Crash(t) \/ DropGuard(t)
  BY <1>8, GoneFacts DEF Stop, Crash, DropGuard, Running, Turns, TypeOK
<1>9. CASE Handle(t) \/ Answer(t) \/ Connect(t)
  BY <1>9 DEF Handle, Answer, Connect, child
<1>10. CASE Spawn(t)
  BY <1>10, BecomesFacts DEF Spawn, Turns, TypeOK, Stage, LineInv
<1>11. CASE HarnessStep(t)
  BY <1>11 DEF HarnessStep, ReadLine, EndOfOutput, TimerFires, Timeout, Turns, TypeOK, child
<1> QED
  BY <1>1, <1>2, <1>3, <1>4, <1>5, <1>6, <1>7, <1>8, <1>9, <1>10, <1>11 DEF TestStep

LEMMA PortStep ==
    ASSUME StartupInv, NEW t \in Test, TestStep(t)
    PROVE  PortInv'
<1>1. /\ PortInv
      /\ \A s \in Test : port[s] \in Port \cup {NoPort}
  BY DEF StartupInv, TypeOK
<1> QED
  BY <1>1, ServerMoves, PortAssumption DEF PortInv, Listening


\* A server that has bound has a port.
LEMMA PortListens ==
    ASSUME StartupInv, NEW t \in Test, server[t] = "bound"
    PROVE  port[t] # Noise
  BY DEF StartupInv, PortInv, Listening, Noise, NoPort

\* What is in a queue that has got longer.
LEMMA Appended ==
    ASSUME NEW S, NEW q \in Seq(S), NEW x \in S, NEW r, r = Append(q, x)
    PROVE  {r[i] : i \in DOMAIN r} = {q[i] : i \in DOMAIN q} \cup {x}
<1>1. DOMAIN q = 1..Len(q) /\ Len(q) \in Nat
  OBVIOUS
<1>2. DOMAIN r = 1..(Len(q) + 1)
  OBVIOUS
<1>3. r[Len(q) + 1] = x /\ \A i \in 1..Len(q) : r[i] = q[i]
  OBVIOUS
<1>4. DOMAIN r = DOMAIN q \cup {Len(q) + 1}
  BY <1>1, <1>2
<1>5. QED
  BY <1>1, <1>3, <1>4

\* How the pipe and the harness get on.
LEMMA PipeMoves ==
    ASSUME StartupInv, NEW t \in Test, TestStep(t)
    PROVE  /\ \A s \in Test \ {t} : url'[s] = url[s] /\ timer'[s] = timer[s]
           /\ crashed \subseteq crashed'
           /\ timer[t] => timer'[t]
           /\ \/ /\ UNCHANGED <<out, harness, url>>
                 /\ server'[t] = "announced" => server[t] = "announced"
              \/ /\ server[t] = "bound" /\ server'[t] = "announced"
                 /\ Piped(t)' = Piped(t) \cup {port[t]} /\ UNCHANGED <<harness, url>>
              \/ /\ Piped(t)' = Piped(t) \cup {Noise}
                 /\ UNCHANGED <<server, port, harness, url>>
              \/ /\ harness[t] = "reading" /\ UNCHANGED <<server, port>>
                 /\ Piped(t) = Piped(t)' \cup {Noise} /\ UNCHANGED <<harness, url>>
              \/ /\ harness[t] = "reading" /\ harness'[t] = "ready" /\ UNCHANGED <<server, port>>
                 /\ url'[t] \in Piped(t) \ {Noise} /\ Piped(t)' \subseteq Piped(t)
              \/ /\ harness[t] = "reading" /\ harness'[t] = "panicked"
                 /\ UNCHANGED <<server, port, out, url>>
                 /\ timer[t] \/ (Piped(t) = {} /\ server[t] = "gone")
              \/ /\ harness[t] = "idle" /\ harness'[t] = "reading" /\ server'[t] = "starting"
                 /\ UNCHANGED <<out, url>>
              \/ /\ harness[t] = "ready" /\ harness'[t] = "done" /\ UNCHANGED <<out, url>>
<1> USE DEF StartupInv
<1>0. out[t] \in Seq(Port \cup {Noise})
  BY DEF TypeOK
<1>1. CASE Parse(t)
  BY <1>1, GoneFacts, BecomesFacts DEF Parse, Stage
<1>2. CASE ReportHealth(t) \/ Bind(t) \/ Serve(t) \/ Interrupt(t)
  BY <1>2, BecomesFacts DEF ReportHealth, Bind, Serve, Interrupt, Stage, test
<1>11. CASE Handle(t) \/ Answer(t) \/ Connect(t)
  BY <1>11 DEF Handle, Answer, Connect, child
<1>3. CASE Announce(t)
  <2>1. out'[t] = Append(out[t], port[t])
    BY <1>3 DEF Announce, TypeOK
  <2>2. port[t] \in Port
    BY <1>3 DEF Announce, TypeOK, PortInv, Listening, test
  <2>3. Piped(t)' = Piped(t) \cup {port[t]}
    BY <1>0, <2>1, <2>2, Appended DEF Piped
  <2> QED
    BY <1>3, <2>3, BecomesFacts DEF Announce, test, Stage
<1>4. CASE Log(t)
  <2>1. out'[t] = Append(out[t], Noise)
    BY <1>4 DEF Log, TypeOK
  <2>2. Piped(t)' = Piped(t) \cup {Noise}
    BY <1>0, <2>1, Appended DEF Piped
  <2> QED
    BY <1>4, <2>2 DEF Log, test
<1>5. CASE Stop(t) \/ Crash(t)
  BY <1>5, GoneFacts DEF Stop, Crash
<1>6. CASE DropGuard(t)
  BY <1>6, GoneFacts DEF DropGuard, Turns, TypeOK
<1>7. CASE Spawn(t)
  BY <1>7, BecomesFacts DEF Spawn, Turns, TypeOK, Stage
<1>8. CASE ReadLine(t)
  <2>1. out'[t] = Tail(out[t]) /\ out[t] # <<>>
    BY <1>8 DEF ReadLine, TypeOK
  <2>2. Piped(t) = Piped(t)' \cup {Head(out[t])}
    <3>1. ASSUME NEW i \in DOMAIN out[t]
          PROVE  out[t][i] \in Piped(t)' \cup {Head(out[t])}
      <4>1. CASE i = 1
        BY <1>0, <4>1
      <4>2. CASE i # 1
        <5>1. i - 1 \in DOMAIN Tail(out[t]) /\ Tail(out[t])[i - 1] = out[t][i]
          BY <1>0, <2>1, <4>2
        <5> QED
          BY <2>1, <5>1 DEF Piped
      <4> QED
        BY <4>1, <4>2
    <3>2. ASSUME NEW i \in DOMAIN Tail(out[t])
          PROVE  Tail(out[t])[i] \in Piped(t)
      <4>1. i + 1 \in DOMAIN out[t] /\ Tail(out[t])[i] = out[t][i + 1]
        BY <1>0, <2>1
      <4> QED
        BY <4>1 DEF Piped
    <3>3. Head(out[t]) \in Piped(t)
      BY <1>0, <2>1 DEF Piped
    <3> QED
      BY <2>1, <3>1, <3>2, <3>3 DEF Piped
  <2>3. /\ UNCHANGED <<server, port, crashed, timer>>
        /\ \A s \in Test \ {t} : url'[s] = url[s]
    BY <1>8 DEF ReadLine, TypeOK
  <2>4. CASE Head(out[t]) = Noise /\ UNCHANGED <<harness, url>>
    BY <1>8, <2>2, <2>3, <2>4 DEF ReadLine
  <2>5. CASE Head(out[t]) # Noise /\ harness'[t] = "ready" /\ url'[t] = Head(out[t])
    <3>1. harness[t] = "reading"
      BY <1>8 DEF ReadLine
    <3>2. url'[t] \in Piped(t) \ {Noise} /\ Piped(t)' \subseteq Piped(t)
      BY <2>2, <2>5
    <3> QED
      BY <2>3, <2>5, <3>1, <3>2
  <2> QED
    BY <1>8, <2>4, <2>5 DEF ReadLine, Turns, TypeOK
<1>9. CASE EndOfOutput(t)
  BY <1>9 DEF EndOfOutput, Turns, TypeOK, Piped, child
<1>10. CASE TimerFires(t) \/ Timeout(t)
  BY <1>10 DEF TimerFires, Timeout, Turns, TypeOK, child
<1> QED
  BY <1>1, <1>2, <1>3, <1>4, <1>5, <1>6, <1>7, <1>8, <1>9, <1>10, <1>11
     DEF TestStep, HarnessStep

LEMMA PipedKept == \A t \in Test : UNCHANGED out => Piped(t)' = Piped(t)
  BY DEF Piped

LEMMA LineStep ==
    ASSUME StartupInv, NEW t \in Test, TestStep(t), UNCHANGED sqlite
    PROVE  LineInv'
<1>1. LineInv /\ PortInv /\ port[t] \in Port \cup {NoPort} /\ Noise = NoPort
  BY DEF StartupInv, TypeOK, Noise, NoPort
<1>2. t \in sqlite => server'[t] \in {"none", "starting", "gone"}
  BY <1>1, ServerMoves DEF LineInv
<1>3. \A s \in Test \ {t} : Piped(s)' = Piped(s)
  BY ServerMoves DEF Piped
<1>4. \A s \in Test \ {t} : /\ server'[s] = server[s] /\ harness'[s] = harness[s]
                           /\ url'[s] = url[s] /\ port'[s] = port[s]
  BY ServerMoves, PipeMoves
<1>5. harness'[t] = "idle" => server'[t] = "none"
  BY <1>1, ServerMoves, PipeMoves DEF LineInv
<1>6. ASSUME NEW p \in Piped(t)' \ {Noise}
      PROVE  Announced(t)' /\ t \notin sqlite /\ (Listening(t)' => port'[t] = p)
  BY <1>1, <1>2, <1>6, ServerMoves, PipeMoves, PipedKept DEF LineInv, PortInv, Announced, Listening
<1>7. ASSUME harness'[t] = "ready"
      PROVE  /\ Announced(t)' /\ t \notin sqlite
             /\ url'[t] # NoPort /\ (Listening(t)' => port'[t] = url'[t])
  BY <1>1, <1>2, <1>7, ServerMoves, PipeMoves DEF LineInv, PortInv, Announced, Listening
<1> QED
  BY <1>1, <1>2, <1>3, <1>4, <1>5, <1>6, <1>7 DEF LineInv, Announced, Listening

LEMMA PipeStep ==
    ASSUME StartupInv, NEW t \in Test, TestStep(t), UNCHANGED sqlite
    PROVE  PipeInv' /\ PanicHasReason'
<1>1. PipeInv /\ PanicHasReason /\ LineInv /\ PortInv /\ Noise = NoPort
  BY DEF StartupInv, Noise, NoPort
<1>2. \A s \in Test \ {t} : /\ Piped(s)' = Piped(s) /\ timer'[s] = timer[s]
                           /\ server'[s] = server[s] /\ harness'[s] = harness[s]
  BY ServerMoves, PipeMoves DEF Piped
<1>3. /\ crashed \subseteq crashed'
      /\ timer[t] => timer'[t]
  BY PipeMoves
<1>4. PipeInv'
  <2>1. ASSUME harness'[t] = "reading", Announced(t)'
        PROVE  \/ Piped(t)' \ {Noise} # {}
               \/ server'[t] = "gone" /\ (t \in sqlite \/ t \in crashed')
    <3>1. CASE harness[t] # "reading" \/ ~Announced(t)
      BY <1>1, <2>1, <3>1, PortListens, ServerMoves, PipeMoves DEF LineInv, Announced
    <3>2. CASE Announced(t) /\ harness[t] = "reading" /\ Piped(t) \ {Noise} # {}
      BY <1>1, <2>1, <3>2, PipeMoves, PipedKept DEF LineInv
    <3>3. CASE server[t] = "gone" /\ (t \in sqlite \/ t \in crashed)
      BY <1>3, <3>3, ServerMoves DEF LineInv
    <3> QED
      BY <1>1, <3>1, <3>2, <3>3 DEF PipeInv
  <2>2. ASSUME NEW s \in Test \ {t}, harness'[s] = "reading", Announced(s)'
        PROVE  \/ Piped(s)' \ {Noise} # {}
               \/ server'[s] = "gone" /\ (s \in sqlite \/ s \in crashed')
    BY <1>1, <1>2, <1>3, <2>2 DEF PipeInv, Announced
  <2> QED
    BY <2>1, <2>2 DEF PipeInv
<1>5. PanicHasReason'
  BY <1>1, <1>2, <1>3, PipeMoves DEF PipeInv, PanicHasReason, Announced
<1> QED
  BY <1>4, <1>5

\* How the requests get on.
LEMMA RpcMoves ==
    ASSUME StartupInv, NEW t \in Test, TestStep(t), NEW s \in Test
    PROVE  /\ \/ rpc'[s] = rpc[s]
              \/ rpc'[s].stage \in {"broken", "refused", "queued"}
              \/ /\ rpc'[s].stage = "handled" /\ rpc'[s].to = t
                 /\ server[t] = "serving" /\ UNCHANGED server
              \/ /\ rpc'[s].stage = "answered" /\ rpc'[s].serving = health[t]
                 /\ server[t] \in {"serving", "draining"}
           /\ server'[t] = "gone" /\ server[t] # "gone" =>
                 ~(rpc'[s].stage = "handled" /\ rpc'[s].to = t)
<1> USE DEF StartupInv
<1>0. rpc \in [Test -> Rpc] /\ rpc[s] \in Rpc
  BY DEF TypeOK
<1>1. CASE Parse(t) \/ Stop(t) \/ Crash(t) \/ DropGuard(t)
  BY <1>1, GoneFacts, BecomesFacts DEF Parse, Stop, Crash, DropGuard, Stage
<1>2. CASE ReportHealth(t) \/ Bind(t) \/ Announce(t) \/ Serve(t) \/ Spawn(t)
  BY <1>2, BecomesFacts DEF ReportHealth, Bind, Announce, Serve, Spawn, Stage, test
<1>3. CASE Log(t) \/ HarnessStep(t)
  BY <1>3 DEF Log, HarnessStep, ReadLine, EndOfOutput, TimerFires, Timeout, test, child
<1>4. CASE Interrupt(t)
  <2>1. rpc'[s] = rpc[s] \/ rpc'[s] = [rpc[s] EXCEPT !.stage = "broken"]
    BY <1>4 DEF Interrupt
  <2>2. rpc'[s] = rpc[s] \/ rpc'[s].stage = "broken"
    BY <1>0, <2>1 DEF Rpc
  <2> QED
    BY <1>4, <2>2, BecomesFacts DEF Interrupt, Stage
<1>5. CASE Handle(t)
  <2>1. PICK q \in Test : /\ rpc[q].to = t
                          /\ rpc' = [rpc EXCEPT ![q].stage = "handled"]
    BY <1>5 DEF Handle
  <2>2. CASE q = s
    BY <1>0, <1>5, <2>1, <2>2 DEF Handle, child, Rpc
  <2>3. CASE q # s
    BY <1>0, <1>5, <2>1, <2>3 DEF Handle, child
  <2> QED
    BY <2>2, <2>3
<1>6. CASE Answer(t)
  <2>1. PICK q \in Test :
            rpc' = [rpc EXCEPT ![q].stage = "answered", ![q].serving = health[t]]
    BY <1>6 DEF Answer, InFlight
  <2>2. CASE q = s
    BY <1>0, <1>6, <2>1, <2>2 DEF Answer, child, Rpc
  <2>3. CASE q # s
    BY <1>0, <1>6, <2>1, <2>3 DEF Answer, child
  <2> QED
    BY <2>2, <2>3
<1>7. CASE Connect(t)
  <2>1. UNCHANGED server /\ (s # t => rpc'[s] = rpc[s])
    BY <1>0, <1>7 DEF Connect, child
  <2>2. rpc'[t].stage \in {"queued", "refused"}
    <3>1. ASSUME NEW q \in Test,
                 rpc' = [rpc EXCEPT ![t] = [NoRpc EXCEPT !.to = q, !.stage = "queued"]]
          PROVE  rpc'[t].stage = "queued"
      BY <1>0, <3>1 DEF NoRpc
    <3>2. ASSUME rpc' = [rpc EXCEPT ![t].stage = "refused"]
          PROVE  rpc'[t].stage = "refused"
      <4>1. rpc[t] \in Rpc
        BY <1>0
      <4> QED
        BY <1>0, <3>2, <4>1 DEF Rpc
    <3> QED
      BY <1>7, <3>1, <3>2 DEF Connect
  <2> QED
    BY <2>1, <2>2
<1> QED
  BY <1>1, <1>2, <1>3, <1>4, <1>5, <1>6, <1>7 DEF TestStep

\* Requests are handled by servers that serve or drain, and answered by
\* healthy ones.
LEMMA ServeStep ==
    ASSUME StartupInv, NEW t \in Test, TestStep(t)
    PROVE  ServeInv' /\ AnswersServing'
<1>1. ServeInv /\ AnswersServing
  BY DEF StartupInv
<1>2. ASSUME NEW s \in Test,
             server'[s] \in {"healthy", "bound", "announced", "serving", "draining"}
      PROVE  health'[s]
  BY <1>1, <1>2, ServerMoves DEF ServeInv
<1>3. ASSUME NEW q \in Test, NEW s \in Test, rpc'[s].stage = "handled", rpc'[s].to = q
      PROVE  server'[q] \in {"serving", "draining"}
  BY <1>1, <1>3, ServerMoves, RpcMoves DEF ServeInv
<1>4. AnswersServing'
  BY <1>1, RpcMoves DEF AnswersServing, ServeInv
<1> QED
  BY <1>2, <1>3, <1>4 DEF ServeInv

-----------------------------------------------------------------------------
(* Results.                                                                *)

LEMMA StartupInvInit == Init => StartupInv
<1> SUFFICES ASSUME Init
             PROVE  StartupInv
  OBVIOUS
<1>1. TypeOK
  <2>1. NoRpc \in Rpc
    BY DEF NoRpc, Rpc, RpcStage
  <2> QED
    BY <2>1, LinesAssumption DEF Init, TypeOK, Stage
<1>2. PortInv /\ LineInv /\ PipeInv
  BY DEF Init, PortInv, LineInv, PipeInv, Listening, Announced, Piped
<1>3. ServeInv /\ PanicHasReason /\ AnswersServing
  BY DEF Init, ServeInv, PanicHasReason, AnswersServing, NoRpc
<1> QED
  BY <1>1, <1>2, <1>3 DEF StartupInv

LEMMA StartupInvStep == StartupInv /\ [Next]_vars => StartupInv'
<1> SUFFICES ASSUME StartupInv, [Next]_vars
             PROVE  StartupInv'
  OBVIOUS
<1>1. ASSUME NEW t \in Test, TestStep(t), UNCHANGED sqlite
      PROVE  StartupInv'
  BY <1>1, TypeStep, PortStep, LineStep, PipeStep, ServeStep DEF StartupInv
<1>2. CASE UNCHANGED vars
  <2> USE <1>2 DEF vars, child, test, StartupInv
  <2>1. TypeOK'
    BY DEF TypeOK
  <2>2. PortInv' /\ LineInv' /\ PipeInv'
    BY DEF PortInv, LineInv, PipeInv, Listening, Announced, Piped
  <2>3. ServeInv' /\ PanicHasReason' /\ AnswersServing'
    BY DEF ServeInv, PanicHasReason, AnswersServing
  <2> QED
    BY <2>1, <2>2, <2>3
<1> QED
  BY <1>1, <1>2 DEF Next

\* Where a server has come to, what is in its pipe and what its test knows of
\* it fit together in every state.
THEOREM StartupInvariantHolds == Spec => []StartupInv
  BY StartupInvInit, StartupInvStep, PTL DEF Spec

\* The port that a test was told is where its own server listens, and no other.
THEOREM UrlIsOwnServer == Spec => []UrlReachesOwnServer
<1>1. StartupInv => UrlReachesOwnServer
  BY DEF StartupInv, UrlReachesOwnServer, LineInv, PortInv, Running, Listening, Announced, TypeOK, Stage
<1> QED
  BY <1>1, StartupInvariantHolds, PTL

\* No test that asks for sqlite is handed a server.
THEOREM SqliteIsRefused == Spec => []NoServerForSqlite
<1>1. StartupInv => NoServerForSqlite
  BY DEF StartupInv, NoServerForSqlite, LineInv
<1> QED
  BY <1>1, StartupInvariantHolds, PTL

\* A harness that panics has one of three reasons to.
THEOREM PanicIsJustified == Spec => []PanicHasReason
<1>1. StartupInv => PanicHasReason
  BY DEF StartupInv
<1> QED
  BY <1>1, StartupInvariantHolds, PTL

\* Answered health checks say SERVING.
THEOREM AnswersAreServing == Spec => []AnswersServing
<1>1. StartupInv => AnswersServing
  BY DEF StartupInv
<1> QED
  BY <1>1, StartupInvariantHolds, PTL

=============================================================================
