-------------------------------- MODULE Runtime --------------------------------
(***************************************************************************)
(* One ULPF process as src/ulpf/core/runtime.py assembles it: the start    *)
(* and stop sequences around the listeners (UDP, TCP/TLS), the HTTP intake,*)
(* a replay started over the API, the pipeline's queue and the enrichment  *)
(* pool.  The pipeline is what Pipeline.tla details: here a bounded queue  *)
(* that takes events until stop() and drains before it is stopped.         *)
(***************************************************************************)
EXTENDS Naturals, Sequences, FiniteSets, SequencesExt

CONSTANTS Datagrams,    \* events arriving over UDP
          Framed,       \* events arriving over TCP or TLS, one client each
          Requests,     \* events of one HTTP request, in order
          Replayed,     \* lines of the replayed file, in order
          Slots         \* queue size

VARIABLES phase,     \* where start() or stop() is
          where,     \* each event: "outside", "hand" (received), "put" (waiting for a slot),
                     \* "queued", "enriched", "plain", "refused", "abandoned"
          rtQueue,   \* the pipeline's queue
          conns,     \* TCP clients connected
          sender,    \* the HTTP request and the replay: "none", "run", or how it ended
          sent       \* lines_sent of the replay, len(uids) of the request
rtVars == <<phase, where, rtQueue, conns, sender, sent>>

Senders == {"http", "replay"}
ItemsOf(s) == IF s = "http" THEN Requests ELSE Replayed
RtEvents == Datagrams \cup Framed \cup ToSet(Requests) \cup ToSet(Replayed)
Starting == {"startUdp", "startTcp", "startHttp"}
Started == {"up", "stopUdp", "stopTcp", "stopHttp", "closeEnrich", "drain"}
PipelineOpen == phase \in (Started \ {"drain"}) \cup Starting
InHand(events) == \E e \in events : where[e] \in {"hand", "put"}

RuntimeInit ==
  /\ phase = "new" /\ where = [e \in RtEvents |-> "outside"] /\ rtQueue = <<>> /\ conns = {}
  /\ sender = [s \in Senders |-> "none"] /\ sent = [s \in Senders |-> 0]

\* start(): sinks and pipeline, then UDP, TCP/TLS, HTTP.  serve() does not call stop()
\* when a port is taken or uvicorn does not come up: the process ends there.
StartOrder == {<<"new", "startUdp">>, <<"startUdp", "startTcp">>, <<"startTcp", "startHttp">>, <<"startHttp", "up">>}
StartStep ==
  /\ \E step \in StartOrder : step[1] = phase /\ phase' = step[2]
  /\ UNCHANGED <<where, rtQueue, conns, sender, sent>>
StartFails ==
  /\ phase \in Starting /\ phase' = "failed"
  /\ UNCHANGED <<where, rtQueue, conns, sender, sent>>

\* _on_datagram: a task per datagram.
Datagram(e) ==
  /\ e \in Datagrams /\ where[e] = "outside" /\ phase \in {"startTcp", "startHttp", "up"}
  /\ where' = [where EXCEPT ![e] = "hand"]
  /\ UNCHANGED <<phase, rtQueue, conns, sender, sent>>

\* _handle_client: one task per connection, until the client closes it.
Connect(e) ==
  /\ e \in Framed \ conns /\ where[e] = "outside" /\ phase \in {"startHttp", "up"}
  /\ conns' = conns \cup {e} /\ UNCHANGED <<phase, where, rtQueue, sender, sent>>
FrameArrives(e) ==
  /\ e \in conns /\ where[e] = "outside" /\ phase \in Started \cup {"startHttp"}
  /\ where' = [where EXCEPT ![e] = "hand"]
  /\ UNCHANGED <<phase, rtQueue, conns, sender, sent>>
ClientCloses(e) ==
  /\ e \in conns /\ where[e] \notin {"hand", "put"} /\ conns' = conns \ {e}
  /\ UNCHANGED <<phase, where, rtQueue, sender, sent>>

\* emit() and _run_replay: the items one after the other.
Begin(s) ==
  /\ sender[s] = "none" /\ phase = "up" /\ sender' = [sender EXCEPT ![s] = "run"]
  /\ UNCHANGED <<phase, where, rtQueue, conns, sent>>
NextItem(s) ==
  /\ sender[s] = "run" /\ sent[s] < Len(ItemsOf(s)) /\ phase \in Started \cup {"stopped"}
  /\ LET e == ItemsOf(s)[sent[s] + 1]
     IN where[e] = "outside" /\ where' = [where EXCEPT ![e] = "hand"]
  /\ UNCHANGED <<phase, rtQueue, conns, sender, sent>>
AllSent(s) ==
  /\ sender[s] = "run" /\ sent[s] = Len(ItemsOf(s))
  /\ sender' = [sender EXCEPT ![s] = "completed"]
  /\ UNCHANGED <<phase, where, rtQueue, conns, sent>>
\* DELETE /replay/{id}: the task is cancelled wherever it waits.
CancelReplay ==
  /\ sender["replay"] = "run" /\ sender' = [sender EXCEPT !["replay"] = "stopped"]
  /\ where' = [e \in RtEvents |-> IF e \in ToSet(Replayed) /\ where[e] \in {"hand", "put"}
                                  THEN "refused" ELSE where[e]]
  /\ UNCHANGED <<phase, rtQueue, conns, sent>>

SenderOf(e) == {s \in Senders : e \in ToSet(ItemsOf(s))}

\* Pipeline.submit: refused after stop(); the listeners log that, a replay fails, and
\* emit() does not catch it: the reply says nothing of the items accepted before.
Submit(e) ==
  /\ where[e] = "hand" /\ phase # "failed"
  /\ IF PipelineOpen
     THEN where' = [where EXCEPT ![e] = "put"] /\ UNCHANGED sender
     ELSE /\ where' = [where EXCEPT ![e] = "refused"]
          /\ sender' = [s \in Senders |-> IF s \in SenderOf(e) THEN "failed" ELSE sender[s]]
  /\ UNCHANGED <<phase, rtQueue, conns, sent>>

\* There is a slot: the event is queued, and its sender goes on.  After the drain
\* nobody takes it out again.
Enqueue(e) ==
  /\ where[e] = "put" /\ Len(rtQueue) < Slots /\ phase # "failed"
  /\ where' = [where EXCEPT ![e] = IF phase = "stopped" THEN "abandoned" ELSE "queued"]
  /\ rtQueue' = Append(rtQueue, e)
  /\ sent' = [s \in Senders |-> sent[s] + IF s \in SenderOf(e) THEN 1 ELSE 0]
  /\ UNCHANGED <<phase, conns, sender>>

\* A worker runs the stages.  EnrichmentPipeline.enrich raises once its pool is shut
\* down, and EnrichStage passes the record on without enrichments.
RunStages ==
  /\ rtQueue # <<>> /\ phase \in Started \cup Starting
  /\ where' = [where EXCEPT ![Head(rtQueue)] = IF phase = "drain" THEN "plain" ELSE "enriched"]
  /\ rtQueue' = Tail(rtQueue) /\ UNCHANGED <<phase, conns, sender, sent>>

\* Mutant: the pipeline is stopped before the listeners.
StopOrderPipelineFirst ==
  {<<"up", "closeEnrich">>, <<"closeEnrich", "drain">>, <<"drain", "stopUdp">>, <<"stopUdp", "stopTcp">>,
   <<"stopTcp", "stopHttp">>, <<"stopHttp", "stopped">>}

\* stop(): UDP and its tasks, TCP and its connections, then HTTP for at most five
\* seconds (so possibly with the request still running), the enrichment pool, and the
\* pipeline, which drains.
StopOrder ==
  {<<"up", "stopUdp">>, <<"stopUdp", "stopTcp">>, <<"stopTcp", "stopHttp">>, <<"stopHttp", "closeEnrich">>,
   <<"closeEnrich", "drain">>, <<"drain", "stopped">>}
StepDone == /\ phase = "stopUdp" => ~InHand(Datagrams)
            /\ phase = "stopTcp" => conns = {} /\ ~InHand(Framed)
            /\ phase = "drain" => rtQueue = <<>>
StopStep ==
  /\ StepDone /\ \E step \in StopOrder : step[1] = phase /\ phase' = step[2]
  /\ UNCHANGED <<where, rtQueue, conns, sender, sent>>

Deliver(e) == Submit(e) \/ Enqueue(e)
RuntimeNext ==
  \/ StartStep \/ StartFails \/ StopStep \/ RunStages \/ CancelReplay
  \/ \E e \in RtEvents : Datagram(e) \/ Connect(e) \/ FrameArrives(e) \/ ClientCloses(e) \/ Deliver(e)
  \/ \E s \in Senders : Begin(s) \/ NextItem(s) \/ AllSent(s)

\* The loop runs every task; clients need not close their connections.
RtProgress == StopStep \/ RunStages \/ (\E e \in RtEvents : Deliver(e)) \/ \E s \in Senders : NextItem(s) \/ AllSent(s)
-----------------------------------------------------------------------------
Through == {"queued", "enriched", "plain"}

\* "stop the listeners first so their in-flight events reach the queue": what UDP and TCP
\* have received is never refused and never left behind in the queue.
ListenersDrainFirst == \A e \in Datagrams \cup Framed : where[e] \notin {"refused", "abandoned"}

\* A stop that returned has processed every event it accepted in time.
StoppedMeansProcessed == phase = "stopped" => \A e \in RtEvents : where[e] # "queued"

\* lines_sent and the reply's uids are what the pipeline took, also when the replay is
\* cancelled or the pipeline stops in the middle; a completed one was taken whole.
SentMeansTaken ==
  \A s \in Senders :
     /\ \A i \in DOMAIN ItemsOf(s) : i <= sent[s] <=> where[ItemsOf(s)[i]] \in Through \cup {"abandoned"}
     /\ sender[s] = "completed" => sent[s] = Len(ItemsOf(s))

\* stop() ends, or it is waiting for a TCP client that keeps its connection open.
StopEndsOrClientHolds == phase = "stopUdp" ~> (phase = "stopped" \/ (phase = "stopTcp" /\ conns # {}))

\* The shutdown as a whole: what was received is processed, what was counted was taken, and
\* it ends unless a client holds it.
StopDrains == [](ListenersDrainFirst /\ StoppedMeansProcessed /\ SentMeansTaken) /\ StopEndsOrClientHolds
=============================================================================
