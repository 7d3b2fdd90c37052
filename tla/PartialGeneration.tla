-------------------------- MODULE PartialGeneration --------------------------
(***************************************************************************)
(* Partial rollout in recipe/fully_async_policy.  A sample has N responses *)
(* that FullyAsyncAgentLoopWorker asks of the inference servers, one call  *)
(* each.  To replace the weights the synchronizer pauses the rollouter,    *)
(* which cancels every server; the calls in flight answer with what they   *)
(* have, the sample goes to cancel_queue, and a later task asks for the    *)
(* rest of its interrupted responses.                                      *)
(*                                                                         *)
(* A token is its position in the response, as the prompt it continues     *)
(* makes it, and the version of the weights that produced it; its          *)
(* log-probability is the token again.  What decides whether a task may    *)
(* start besides paused (staleness, concurrency) is in FullyAsync.         *)
(***************************************************************************)
EXTENDS Naturals, Sequences, FiniteSetsExt, Functions

CONSTANTS
    Samples,
    N,               \* rollout.n: responses per sample
    Servers,
    ResponseLength,  \* rollout.response_length
    ModelRoom,       \* max_model_len less the length of the original prompt
    MaxVersion,      \* bound: number of synchronizations
    Nothing

ASSUME RolloutAssumption ==
    /\ IsFiniteSet(Samples) /\ IsFiniteSet(Servers)
    /\ N \in Nat \ {0} /\ ResponseLength \in Nat \ {0} /\ MaxVersion \in Nat
    /\ ModelRoom \in Nat /\ ModelRoom >= ResponseLength

Responses == Samples \X (1..N)
Own(s) == {s} \X (1..N)

VARIABLES
    \* the rollouter
    paused,
    version,        \* current_param_version
    place,          \* for every sample: where it is
    started,        \* for every sample: param_version of its last task
    label,          \* for every sample: param_version once it is finished
    output,         \* agent_loop_output_list: for every response its last output
    \* the calls of generate_for_partial
    call,
    \* the servers
    serverPaused,
    entries,        \* cancel_event: how many requests a server remembers
    weights,        \* version of the weights they hold
    \* the synchronizer and the monitor
    phase,
    monitor

tasks == <<place, started, label, output>>
servers == <<serverPaused, entries, weights>>
sync == <<phase, monitor, paused, version>>
vars == <<tasks, call, servers, sync>>

NoCall == [at |-> "none", server |-> Nothing, got |-> <<>>, finished |-> FALSE,
           event |-> FALSE]

Init ==
    /\ paused = FALSE /\ version = 0 /\ weights = 0
    /\ place = [s \in Samples |-> "pending"]
    /\ started = [s \in Samples |-> 0]
    /\ label = [s \in Samples |-> Nothing]
    /\ output = [r \in Responses |-> Nothing]
    /\ call = [r \in Responses |-> NoCall]
    /\ serverPaused = [v \in Servers |-> FALSE]
    /\ entries = [v \in Servers |-> 0]
    /\ phase = "run" /\ monitor = "sleep"

-----------------------------------------------------------------------------
(* The rollouter and the agent loops.                                       *)

LockFree == phase \notin {"pausing", "resuming"}

\* A variant the runs must reject: every response is generated again.
UnfinishedAll(r) == TRUE

\* A response that was not interrupted is returned as it is.
Unfinished(r) == IF output[r] = Nothing THEN TRUE ELSE output[r].cancelled

\* A sample's task: interrupted samples go first.  Each unfinished response is
\* one call, on the server that the manager's heap of request counts puts first:
\* any, since every call is a new request and other tasks use the heap too.
StartTask(s) ==
    /\ LockFree /\ ~paused
    /\ place[s] = "cancelled" \/
       (place[s] = "pending" /\ \A t \in Samples : place[t] # "cancelled")
    /\ place' = [place EXCEPT ![s] = "running"]
    /\ started' = [started EXCEPT ![s] = version]
    /\ \E choice \in [{r \in Own(s) : Unfinished(r)} -> Servers] :
         call' = [r \in Responses |->
                    IF r \in DOMAIN choice
                    THEN [NoCall EXCEPT !.at = "sent", !.server = choice[r]]
                    ELSE call[r]]
    /\ UNCHANGED <<label, output, servers, sync>>

\* What the prompt of a call already holds of the response.
Before(r) == IF output[r] = Nothing THEN <<>> ELSE output[r].tokens

\* max_tokens of a call
Room(r) == ModelRoom - Len(Before(r))

Cut(tokens) == SubSeq(tokens, 1, IF Len(tokens) < ResponseLength
                                 THEN Len(tokens) ELSE ResponseLength)

\* A variant the runs must reject: the earlier log-probs are dropped.
ExtendedNewLogs(r, v) ==
    LET old == output[r]
        new == call[r].got
    IN  [tokens |-> Cut(IF old = Nothing THEN new ELSE old.tokens \o new),
         logs |-> new,
         cancelled |-> ~call[r].finished,
         start |-> IF old = Nothing THEN v ELSE old.start]

\* A variant the runs must reject: an interrupted response starts anew.
ExtendedNewStart(r, v) ==
    LET old == output[r]
        new == call[r].got
    IN  [tokens |-> Cut(IF old = Nothing THEN new ELSE old.tokens \o new),
         logs |-> IF old = Nothing THEN new ELSE old.logs \o new,
         cancelled |-> ~call[r].finished,
         start |-> IF old = Nothing THEN v ELSE v]

\* PartialSingleTurnAgentLoop.run: the output after the answer to a call.
Extended(r, v) ==
    LET old == output[r]
        new == call[r].got
    IN  [tokens |-> Cut(IF old = Nothing THEN new ELSE old.tokens \o new),
         logs |-> IF old = Nothing THEN new ELSE old.logs \o new,
         cancelled |-> ~call[r].finished,
         start |-> IF old = Nothing THEN v ELSE old.start]

\* A variant the runs must reject: a sample is labelled when its task starts.
LabelAtStart(s) == started[s]

Label(s) == version

\* The task returns when every call has been answered.
EndTask(s) ==
    /\ place[s] = "running"
    /\ \A r \in Own(s) : call[r].at \in {"none", "answered"}
    /\ output' = [r \in Responses |->
                    IF r \in Own(s) /\ call[r].at = "answered"
                    THEN Extended(r, started[s]) ELSE output[r]]
    /\ call' = [r \in Responses |-> IF r \in Own(s) THEN NoCall ELSE call[r]]
    /\ IF \E r \in Own(s) : output'[r].cancelled
       THEN place' = [place EXCEPT ![s] = "cancelled"] /\ UNCHANGED label
       ELSE /\ place' = [place EXCEPT ![s] = "done"]
            /\ label' = [label EXCEPT ![s] = Label(s)]
    /\ UNCHANGED <<started, servers, sync>>

-----------------------------------------------------------------------------
(* vLLMHttpServerForPartial.                                                *)

\* A variant the runs must reject: paused is not tested under the lock.
AcceptUnchecked(r) ==
    /\ call[r].at = "sent"
    /\ call' = [call EXCEPT ![r].at = "generating"]
    /\ entries' = [entries EXCEPT ![call[r].server] = @ + 1]
    /\ UNCHANGED <<tasks, serverPaused, weights, sync>>

\* A variant the runs must reject: a paused server holds a request until it is
\* resumed.
AcceptHeld(r) ==
    /\ call[r].at = "sent"
    /\ LET v == call[r].server
       IN  IF serverPaused[v]
           THEN UNCHANGED <<call, entries>>
           ELSE /\ call' = [call EXCEPT ![r].at = "generating"]
                /\ entries' = [entries EXCEPT ![v] = @ + 1]
    /\ UNCHANGED <<tasks, serverPaused, weights, sync>>

\* A variant the runs must reject: an accepted request is not entered.
AcceptUnentered(r) ==
    /\ call[r].at = "sent"
    /\ call' = [call EXCEPT ![r] =
                  IF serverPaused[call[r].server]
                  THEN [@ EXCEPT !.at = "answered", !.server = Nothing]
                  ELSE [@ EXCEPT !.at = "generating"]]
    /\ UNCHANGED <<tasks, serverPaused, entries, weights, sync>>

Answered(c) == [c EXCEPT !.at = "answered", !.server = Nothing, !.event = FALSE]

\* generate_for_partial up to its wait: a paused server answers at once.
Accept(r) ==
    /\ call[r].at = "sent"
    /\ LET v == call[r].server
       IN  IF serverPaused[v]
           THEN /\ call' = [call EXCEPT ![r] = Answered(@)]
                /\ UNCHANGED entries
           ELSE /\ call' = [call EXCEPT ![r].at = "generating"]
                /\ entries' = [entries EXCEPT ![v] = @ + 1]
    /\ UNCHANGED <<tasks, serverPaused, weights, sync>>

\* _generate_step: the engine's next output, which may be the last; it goes on
\* until the server has noticed the cancellation.
Emit(r) ==
    /\ call[r].at = "generating" /\ ~call[r].finished
    /\ LET got == Append(call[r].got,
                         [pos |-> Len(Before(r)) + Len(call[r].got) + 1,
                          version |-> weights])
       IN  \E finished \in {TRUE, Len(got) = Room(r)} :
             call' = [call EXCEPT ![r].got = got, ![r].finished = finished]
    /\ UNCHANGED <<tasks, servers, sync>>

\* A variant the runs must reject: the server forgets no request.
RememberedAlways(r) == TRUE

\* A request that is cancelled before its first token is not removed.
Remembered(r) == call[r].got = <<>>

\* The wait is over.  is_cancel is whether the generation had not finished.
Return(r) ==
    /\ call[r].at = "generating"
    /\ call[r].finished \/ call[r].event
    /\ call' = [call EXCEPT ![r] = Answered(@)]
    /\ entries' = IF Remembered(r) THEN entries
                  ELSE [entries EXCEPT ![call[r].server] = @ - 1]
    /\ UNCHANGED <<tasks, serverPaused, weights, sync>>

-----------------------------------------------------------------------------
(* ParameterSynchronizer.sync_weights and the rollouter's calls it makes.   *)

BeginPause ==
    /\ phase = "run" /\ monitor = "sleep" /\ version < MaxVersion
    /\ phase' = "pausing"
    /\ paused' = TRUE
    /\ UNCHANGED <<tasks, call, servers, monitor, version>>

\* cancel: no new request, and every known one is told to stop.
CancelServer(v) ==
    /\ phase = "pausing" /\ ~serverPaused[v]
    /\ serverPaused' = [serverPaused EXCEPT ![v] = TRUE]
    /\ call' = [r \in Responses |->
                  IF call[r].at = "generating" /\ call[r].server = v
                  THEN [call[r] EXCEPT !.event = TRUE] ELSE call[r]]
    /\ UNCHANGED <<tasks, entries, weights, sync>>

\* The servers are cancelled and every task has returned.
EndPause ==
    /\ phase = "pausing"
    /\ \A v \in Servers : serverPaused[v]
    /\ \A s \in Samples : place[s] # "running"
    /\ phase' = "paused"
    /\ UNCHANGED <<tasks, call, servers, monitor, paused, version>>

SyncWeights ==
    /\ phase = "paused"
    /\ weights' = version + 1
    /\ phase' = "synced"
    /\ UNCHANGED <<tasks, call, serverPaused, entries, monitor, paused, version>>

\* update_param_version; the monitor has asked for the lock before it.
UpdateVersion ==
    /\ phase = "synced" /\ monitor = "sleep"
    /\ version' = weights
    /\ phase' = "updated"
    /\ UNCHANGED <<tasks, call, servers, monitor, paused>>

BeginResume ==
    /\ phase = "updated"
    /\ phase' = "resuming"
    /\ paused' = FALSE
    /\ UNCHANGED <<tasks, call, servers, monitor, version>>

ResumeServer(v) ==
    /\ phase = "resuming" /\ serverPaused[v]
    /\ serverPaused' = [serverPaused EXCEPT ![v] = FALSE]
    /\ UNCHANGED <<tasks, call, entries, weights, sync>>

EndResume ==
    /\ phase = "resuming"
    /\ \A v \in Servers : ~serverPaused[v]
    /\ phase' = "run"
    /\ UNCHANGED <<tasks, call, servers, monitor, paused, version>>

\* _async_monitor_loop has tested its flags and waits for the lock of pause ...
MonitorWaits ==
    /\ phase = "pausing" /\ monitor = "sleep"
    /\ monitor' = "waits"
    /\ UNCHANGED <<tasks, call, servers, phase, paused, version>>

\* ... which it gets next.
MonitorUnpause ==
    /\ monitor = "waits" /\ LockFree
    /\ paused' = FALSE
    /\ monitor' = "sleep"
    /\ UNCHANGED <<tasks, call, servers, phase, version>>

-----------------------------------------------------------------------------
AllDone == \A s \in Samples : place[s] = "done"
Terminated == AllDone /\ phase = "run" /\ UNCHANGED vars

Synchronize ==
    \/ BeginPause \/ EndPause \/ SyncWeights \/ UpdateVersion \/ BeginResume
    \/ EndResume
    \/ \E v \in Servers : CancelServer(v) \/ ResumeServer(v)

Generate(r) == Accept(r) \/ Emit(r) \/ Return(r)

Next ==
    \/ \E s \in Samples : StartTask(s) \/ EndTask(s)
    \/ \E r \in Responses : Generate(r)
    \/ Synchronize \/ MonitorWaits \/ MonitorUnpause \/ Terminated

Spec == Init /\ [][Next]_vars

\* The servers answer, generation ends at max_model_len at the latest, tasks and
\* calls run once started, and a synchronization goes on once begun.  No task need
\* start and no synchronization begin: the processor may have left with DONE or
\* wait for the staleness budget, and the trainer may have ended.
FairSpec ==
    /\ Spec
    /\ \A s \in Samples : WF_vars(EndTask(s))
    /\ \A r \in Responses : WF_vars(Generate(r))
    /\ WF_vars(phase # "run" /\ Synchronize) /\ WF_vars(MonitorUnpause)

-----------------------------------------------------------------------------
(* Types and correctness.                                                   *)

Token == [pos : Nat, version : 0..MaxVersion]
Tokens == Seq(Token)
Outputs == [tokens : Tokens, logs : Tokens, cancelled : BOOLEAN,
            start : 0..MaxVersion]

ASSUME NothingAssumption == Nothing \notin Outputs

Calls == [at : {"none", "sent", "generating", "answered"},
          server : Servers \union {Nothing}, got : Tokens, finished : BOOLEAN,
          event : BOOLEAN]

TypeOK ==
    /\ paused \in BOOLEAN /\ version \in 0..MaxVersion /\ weights \in 0..MaxVersion
    /\ place \in [Samples -> {"pending", "running", "cancelled", "done"}]
    /\ started \in [Samples -> 0..MaxVersion]
    /\ label \in [Samples -> 0..MaxVersion \union {Nothing}]
    /\ output \in [Responses -> Outputs \union {Nothing}]
    /\ call \in [Responses -> Calls]
    /\ serverPaused \in [Servers -> BOOLEAN]
    /\ entries \in [Servers -> Nat]
    /\ phase \in {"run", "pausing", "paused", "synced", "updated", "resuming"}
    /\ monitor \in {"sleep", "waits"}

\* The text of a response so far: its outputs and what its call has brought.
Text(r) == Cut(Before(r) \o call[r].got)
Complete == {r \in Responses : call[r].finished \/ ~Unfinished(r)}

\* generate_for_partial and PartialSingleTurnAgentLoop.run: interruptions lose,
\* repeat and reorder no token of a response; a finished response is final.
Stream == INSTANCE TokenStream WITH
    text <- [r \in Responses |-> Text(r)], complete <- Complete
ImplementsStream == Stream!StreamSpec

\* process_rollout_log_probs takes the first log-probs of a response as those of
\* its tokens: they are, however often the response was interrupted and cut.
LogProbsAligned ==
    \A r \in Responses : output[r] # Nothing =>
        LET o == output[r]
        IN  /\ Len(o.logs) >= Len(o.tokens)
            /\ SubSeq(o.logs, 1, Len(o.tokens)) = o.tokens

\* param_version of a finished sample is the version that generated its last
\* token; with the monitor unpausing the rollouter in the middle, too.
LabelIsNewest ==
    \A s \in Samples : place[s] = "done" =>
        label[s] = Max({t.version : t \in UNION {Range(output[r].logs) : r \in Own(s)}})

\* param_version_start: no token of a response is older.
StartIsOldest ==
    \A r \in Responses : output[r] # Nothing =>
        \A t \in Range(output[r].logs) : output[r].start <= t.version

\* sync_weights: from the end of pause to resume no engine generates, not even
\* for the tasks that start because the monitor has cleared paused.
EnginesQuiet ==
    phase \in {"paused", "synced", "updated"} =>
        \A r \in Responses : call[r].at # "generating"

\* The requests in flight, and the synchronizations that have begun.
Generating == {r \in Responses : call[r].at = "generating"}
Rounds == version + (IF phase \in {"pausing", "paused", "synced"} THEN 1 ELSE 0)

\* cancel_event: besides the requests in flight a server remembers at most one
\* for every response and synchronization, those cancelled before a token came.
ForgottenRequestsBounded ==
    MapThenSumSet(LAMBDA v : entries[v], Servers)
      <= Cardinality(Generating) + Rounds * Cardinality(Responses)

\* pause awaits all active tasks while it holds the lock, and the servers are resumed
\* only after it: still every synchronization comes to its end, since no request
\* waits for a paused server and every one in flight is told of the cancellation,
\* accepted before it or sent after.
SynchronizationEnds == phase = "pausing" ~> phase = "run"
=============================================================================
