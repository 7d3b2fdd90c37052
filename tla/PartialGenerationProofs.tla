----------------------- MODULE PartialGenerationProofs -----------------------
(***************************************************************************)
(* What partial rollout guarantees for every number of samples, responses, *)
(* servers and synchronizations, and every length.                         *)
(***************************************************************************)
EXTENDS PartialGeneration, CommonLemmas, SequenceTheorems

Quiet == {"paused", "synced", "updated"}

\* A call belongs to a running task and asks for a response that is not finished;
\* without one the record is empty.
CallInv ==
    \A r \in Responses :
        /\ IF call[r].at = "none" THEN call[r] = NoCall
                                  ELSE place[r[1]] = "running" /\ Unfinished(r)
        /\ call[r].at = "sent" => call[r].got = <<>> /\ ~call[r].finished
        /\ call[r].at \in {"sent", "generating"} => call[r].server \in Servers
        /\ call[r].finished => call[r].got # <<>>

\* Where a sample is says which of its responses have an output, and whether
\* something is left to do.
PlaceInv ==
    \A s \in Samples :
        /\ place[s] = "pending" => \A r \in Own(s) : output[r] = Nothing
        /\ place[s] = "cancelled" => \E r \in Own(s) : Unfinished(r)
        /\ place[s] = "running" =>
              /\ \E r \in Own(s) : call[r].at # "none"
              /\ \A r \in Own(s) : call[r].at = "none" => ~Unfinished(r)
        /\ place[s] = "done" => \A r \in Own(s) : ~Unfinished(r)

\* From the end of pause to resume every server is paused, and no call has
\* brought a token.
PhaseInv ==
    /\ weights = IF phase = "synced" THEN version + 1 ELSE version
    /\ phase \in {"pausing", "paused"} => version < MaxVersion
    /\ phase \in Quiet =>
          /\ \A v \in Servers : serverPaused[v]
          /\ \A r \in Responses : call[r].got = <<>> /\ call[r].at # "generating"

\* A call's tokens are of the present version; an output is cut from its logs,
\* which lie between the start of its first task and the present version.
TokenInv ==
    /\ \A r \in Responses : \A i \in 1..Len(call[r].got) : call[r].got[i].version = version
    /\ \A s \in Samples : started[s] <= version
    /\ \A r \in Responses : output[r] # Nothing =>
          /\ output[r].tokens = Cut(output[r].logs)
          /\ output[r].start <= started[r[1]]
          /\ \A i \in 1..Len(output[r].logs) :
                output[r].start <= output[r].logs[i].version /\ output[r].logs[i].version <= version

\* The label of a finished sample is the version of one of its tokens, and of no
\* token a lower bound only.
LabelInv ==
    \A s \in Samples : place[s] = "done" =>
        /\ label[s] \in 0..MaxVersion
        /\ \E r \in Own(s) : \E i \in 1..Len(output[r].logs) :
              output[r].logs[i].version = label[s]
        /\ \A r \in Own(s) : \A i \in 1..Len(output[r].logs) :
              output[r].logs[i].version <= label[s]

\* A server remembers at least the requests that it is generating for.
InFlight(v) == {r \in Responses : call[r].at = "generating" /\ call[r].server = v}
EntriesInv ==
    \A v \in Servers : IsFiniteSet(InFlight(v)) /\ Cardinality(InFlight(v)) <= entries[v]

IndInv == TypeOK /\ EntriesInv /\ CallInv /\ PlaceInv /\ PhaseInv /\ TokenInv /\ LabelInv

-----------------------------------------------------------------------------
(* The cut of a response to response_length.                                *)

\* What Cut returns, token by token.
LEMMA CutProperties ==
    ASSUME NEW S, NEW s \in Seq(S)
    PROVE  /\ Cut(s) \in Seq(S)
           /\ Len(Cut(s)) = IF Len(s) < ResponseLength THEN Len(s) ELSE ResponseLength
           /\ \A i \in 1..Len(Cut(s)) : Cut(s)[i] = s[i]
  <1> DEFINE n == IF Len(s) < ResponseLength THEN Len(s) ELSE ResponseLength
  <1>1. n \in Nat /\ n <= Len(s)
    BY RolloutAssumption, LenProperties DEF RolloutAssumption
  <1>2. \A i \in 1..n : s[i] \in S
    BY <1>1, ElementOfSeq
  <1>3. Cut(s) = SubSeq(s, 1, n)
    BY DEF Cut
  <1> HIDE DEF n
  <1>4. /\ SubSeq(s, 1, n) \in Seq(S) /\ Len(SubSeq(s, 1, n)) = n
        /\ \A i \in 1..n : SubSeq(s, 1, n)[i] = s[i]
    BY <1>1, <1>2, SubSeqProperties
  <1> QED
    BY <1>3, <1>4 DEF n

\* A text that is not too long is not cut.
LEMMA CutShort ==
    ASSUME NEW S, NEW s \in Seq(S), Len(s) <= ResponseLength
    PROVE  Cut(s) = s
  BY CutProperties, SeqEqual, RolloutAssumption, LenProperties DEF RolloutAssumption

\* A longer text is cut to response_length.
LEMMA CutLong ==
    ASSUME NEW S, NEW s \in Seq(S), NEW t \in Seq(S), Len(s) >= ResponseLength,
           Len(t) >= ResponseLength, \A i \in 1..ResponseLength : s[i] = t[i]
    PROVE  Cut(s) = Cut(t) /\ Len(Cut(s)) = ResponseLength
  <1>1. ResponseLength \in Nat /\ Len(s) \in Nat /\ Len(t) \in Nat
    BY LenProperties, RolloutAssumption DEF RolloutAssumption
  <1>2. Cut(s) \in Seq(S) /\ Cut(t) \in Seq(S)
    BY CutProperties
  <1>3. Len(Cut(s)) = ResponseLength /\ Len(Cut(t)) = ResponseLength
    BY <1>1, CutProperties
  <1>4. /\ \A i \in 1..Len(Cut(s)) : Cut(s)[i] = s[i]
        /\ \A i \in 1..Len(Cut(t)) : Cut(t)[i] = t[i]
    BY CutProperties
  <1> QED
    BY <1>2, <1>3, <1>4, SeqEqual

\* Cutting what a call adds to a cut text is cutting it once (the outputs of an
\* interrupted response in PartialSingleTurnAgentLoop.run).
LEMMA CutOfCut ==
    ASSUME NEW S, NEW s \in Seq(S), NEW t \in Seq(S)
    PROVE  Cut(Cut(s) \o t) = Cut(s \o t)
  <1>1. CASE Len(s) <= ResponseLength
    <2>1. Cut(s) = s
      BY <1>1, CutShort
    <2> QED
      BY <2>1
  <1>2. CASE Len(s) > ResponseLength
    <2>1. Len(t) \in Nat /\ Len(s) \in Nat /\ ResponseLength \in Nat
      BY LenProperties, RolloutAssumption DEF RolloutAssumption
    <2>2. Cut(s) \in Seq(S) /\ Len(Cut(s)) = ResponseLength
      BY <1>2, <2>1, CutProperties
    <2>3. \A i \in 1..ResponseLength : Cut(s)[i] = s[i]
      BY <2>2, CutProperties
    <2>4. /\ Cut(s) \o t \in Seq(S) /\ Len(Cut(s) \o t) = ResponseLength + Len(t)
          /\ \A i \in 1 .. ResponseLength + Len(t) :
                i <= ResponseLength => (Cut(s) \o t)[i] = Cut(s)[i]
      BY <2>2, ConcatProperties
    <2>5. /\ s \o t \in Seq(S) /\ Len(s \o t) = Len(s) + Len(t)
          /\ \A i \in 1 .. Len(s) + Len(t) : i <= Len(s) => (s \o t)[i] = s[i]
      BY ConcatProperties
    <2>6. \A i \in 1..ResponseLength : (Cut(s) \o t)[i] = (s \o t)[i]
      BY <1>2, <2>1, <2>3, <2>4, <2>5
    <2>7. Len(Cut(s) \o t) >= ResponseLength /\ Len(s \o t) >= ResponseLength
      BY <1>2, <2>1, <2>4, <2>5
    <2> QED
      BY <2>4, <2>5, <2>6, <2>7, CutLong
  <1> QED
    BY <1>1, <1>2, LenProperties, RolloutAssumption DEF RolloutAssumption

\* One more token extends a text that is not full, and leaves no trace in one that is.
LEMMA CutOfAppend ==
    ASSUME NEW S, NEW s \in Seq(S), NEW e \in S
    PROVE  Cut(Append(s, e)) =
             IF Len(Cut(s)) < ResponseLength THEN Append(Cut(s), e) ELSE Cut(s)
  <1>1. Append(s, e) \in Seq(S) /\ Len(Append(s, e)) = Len(s) + 1
        /\ \A i \in 1..Len(s) : Append(s, e)[i] = s[i]
    BY AppendProperties
  <1>2. Len(s) \in Nat /\ ResponseLength \in Nat
    BY LenProperties, RolloutAssumption DEF RolloutAssumption
  <1>3. CASE Len(s) < ResponseLength
    <2>1. Cut(s) = s
      BY <1>2, <1>3, CutShort
    <2>2. Len(Append(s, e)) <= ResponseLength
      BY <1>1, <1>2, <1>3
    <2>3. Cut(Append(s, e)) = Append(s, e)
      BY <1>1, <2>2, CutShort
    <2> QED
      BY <1>3, <2>1, <2>3
  <1>4. CASE Len(s) >= ResponseLength
    <2>1. Len(Append(s, e)) >= ResponseLength
      BY <1>1, <1>2, <1>4
    <2>2. \A i \in 1..ResponseLength : Append(s, e)[i] = s[i]
      BY <1>1, <1>2, <1>4
    <2>3. Cut(Append(s, e)) = Cut(s) /\ Len(Cut(Append(s, e))) = ResponseLength
      BY <1>1, <1>4, <2>1, <2>2, CutLong
    <2> QED
      BY <1>2, <2>3
  <1> QED
    BY <1>2, <1>3, <1>4

\* One more token at the end of the second text is one at the end of both.
LEMMA AppendOfConcat ==
    ASSUME NEW S, NEW s \in Seq(S), NEW t \in Seq(S), NEW e \in S
    PROVE  s \o Append(t, e) = Append(s \o t, e)
  <1>1. <<e>> \in Seq(S) /\ Append(t, e) = t \o <<e>>
    BY AppendIsConcat
  <1>2. (s \o t) \o <<e>> = s \o (t \o <<e>>)
    BY <1>1, ConcatAssociative
  <1>3. s \o t \in Seq(S)
    BY ConcatProperties
  <1>4. Append(s \o t, e) = (s \o t) \o <<e>>
    BY <1>3, AppendIsConcat
  <1> QED
    BY <1>1, <1>2, <1>4

-----------------------------------------------------------------------------
(* Types.                                                                   *)

\* The responses of a sample.
LEMMA OwnResponses ==
    /\ \A s \in Samples : Own(s) \subseteq Responses
    /\ \A r \in Responses : r[1] \in Samples /\ r \in Own(r[1])
    /\ \A s \in Samples : \A r \in Own(s) : r[1] = s
    /\ \A s \in Samples : Own(s) # {}
  <1>1. \A s \in Samples : Own(s) \subseteq Responses
    BY DEF Own, Responses
  <1>2. \A r \in Responses : r[1] \in Samples /\ r \in Own(r[1])
    BY DEF Own, Responses
  <1>3. \A s \in Samples : \A r \in Own(s) : r[1] = s
    BY DEF Own
  <1>4. ASSUME NEW s \in Samples
        PROVE  Own(s) # {}
    <2>1. <<s, 1>> \in Own(s)
      BY RolloutAssumption DEF RolloutAssumption, Own
    <2> QED
      BY <2>1
  <1> QED
    BY <1>1, <1>2, <1>3, <1>4

\* A call that was not made, was just sent, or was answered is a call.
LEMMA CallTypes ==
    /\ NoCall \in Calls /\ NoCall.at = "none" /\ NoCall.got = <<>> /\ ~NoCall.finished
    /\ \A v \in Servers : [NoCall EXCEPT !.at = "sent", !.server = v] \in Calls
    /\ \A c \in Calls : Answered(c) \in Calls
  BY EmptySeq DEF NoCall, Calls, Tokens, Answered

\* The output after the answer to a call, when the outputs and calls are typed.
LEMMA ExtendedType ==
    ASSUME TypeOK, NEW r \in Responses, NEW v \in 0..MaxVersion
    PROVE  Extended(r, v) \in Outputs
  <1>1. call[r].got \in Seq(Token) /\ call[r].finished \in BOOLEAN
    BY DEF TypeOK, Calls, Tokens
  <1>2. CASE output[r] = Nothing
    <2>1. Cut(call[r].got) \in Seq(Token)
      BY <1>1, CutProperties
    <2> QED
      BY <1>1, <1>2, <2>1 DEF Extended, Outputs, Tokens
  <1>3. CASE output[r] # Nothing
    <2>1. /\ output[r].tokens \in Seq(Token) /\ output[r].logs \in Seq(Token)
          /\ output[r].start \in 0..MaxVersion
      BY <1>3 DEF TypeOK, Outputs, Tokens
    <2>2. Cut(output[r].tokens \o call[r].got) \in Seq(Token)
      BY <1>1, <2>1, CutProperties, ConcatProperties
    <2>3. output[r].logs \o call[r].got \in Seq(Token)
      BY <1>1, <2>1, ConcatProperties
    <2> QED
      BY <1>1, <1>3, <2>1, <2>2, <2>3 DEF Extended, Outputs, Tokens
  <1> QED
    BY <1>2, <1>3

\* The token an engine emits.
LEMMA EmittedType ==
    ASSUME TypeOK, NEW r \in Responses
    PROVE  [pos |-> Len(Before(r)) + Len(call[r].got) + 1, version |-> weights] \in Token
  <1>1. call[r].got \in Seq(Token)
    BY DEF TypeOK, Calls, Tokens
  <1>2. Before(r) \in Seq(Token)
    BY EmptySeq DEF TypeOK, Outputs, Tokens, Before
  <1> QED
    BY <1>1, <1>2, LenProperties DEF TypeOK, Token

\* What the start of a task does to the calls.
LEMMA StartEffect ==
    ASSUME TypeOK, NEW s \in Samples, StartTask(s)
    PROVE  /\ call' \in [Responses -> Calls]
           /\ \A r \in Responses :
                 IF r \in Own(s) /\ Unfinished(r)
                 THEN /\ call'[r].at = "sent" /\ call'[r].server \in Servers
                      /\ call'[r].got = <<>> /\ ~call'[r].finished /\ ~call'[r].event
                 ELSE call'[r] = call[r]
  <1>1. PICK choice \in [{r \in Own(s) : Unfinished(r)} -> Servers] :
          call' = [r \in Responses |->
                     IF r \in DOMAIN choice
                     THEN [NoCall EXCEPT !.at = "sent", !.server = choice[r]]
                     ELSE call[r]]
    BY DEF StartTask
  <1>2. DOMAIN choice = {r \in Own(s) : Unfinished(r)}
    OBVIOUS
  <1>3. ASSUME NEW r \in Responses, r \in Own(s), Unfinished(r)
        PROVE  /\ call'[r] \in Calls
               /\ call'[r].at = "sent" /\ call'[r].server \in Servers
               /\ call'[r].got = <<>> /\ ~call'[r].finished /\ ~call'[r].event
    <2>1. choice[r] \in Servers /\ call'[r] = [NoCall EXCEPT !.at = "sent", !.server = choice[r]]
      BY <1>1, <1>2, <1>3
    <2> HIDE <1>1
    <2> QED
      BY <2>1, CallTypes DEF NoCall
  <1>4. ASSUME NEW r \in Responses, ~(r \in Own(s) /\ Unfinished(r))
        PROVE  call'[r] = call[r] /\ call'[r] \in Calls
    BY <1>1, <1>2, <1>4 DEF TypeOK
  <1>5. call' = [r \in Responses |-> call'[r]]
    BY <1>1
  <1> QED
    BY <1>3, <1>4, <1>5

\* What the end of a task does to the outputs, the calls and the sample.
LEMMA EndEffect ==
    ASSUME TypeOK, NEW s \in Samples, EndTask(s)
    PROVE  /\ output' \in [Responses -> Outputs \union {Nothing}]
           /\ \A r \in Responses : output'[r] =
                 IF r \in Own(s) /\ call[r].at = "answered"
                 THEN Extended(r, started[s]) ELSE output[r]
           /\ call' \in [Responses -> Calls]
           /\ \A r \in Responses : call'[r] = IF r \in Own(s) THEN NoCall ELSE call[r]
           /\ \/ /\ \E r \in Own(s) : output'[r].cancelled
                 /\ place' = [place EXCEPT ![s] = "cancelled"] /\ label' = label
              \/ /\ \A r \in Own(s) : ~output'[r].cancelled
                 /\ place' = [place EXCEPT ![s] = "done"]
                 /\ label' = [label EXCEPT ![s] = version]
  <1>1. started[s] \in 0..MaxVersion
    BY DEF TypeOK
  <1>2. \A r \in Responses : Extended(r, started[s]) \in Outputs
    BY <1>1, ExtendedType
  <1>3. output' = [r \in Responses |-> IF r \in Own(s) /\ call[r].at = "answered"
                                      THEN Extended(r, started[s]) ELSE output[r]]
    BY DEF EndTask
  <1>4. output' \in [Responses -> Outputs \union {Nothing}]
    BY <1>2, <1>3 DEF TypeOK
  <1>5. call' = [r \in Responses |-> IF r \in Own(s) THEN NoCall ELSE call[r]]
    BY DEF EndTask
  <1>6. call' \in [Responses -> Calls]
    BY <1>5, CallTypes DEF TypeOK
  <1>7. \/ /\ \E r \in Own(s) : output'[r].cancelled
           /\ place' = [place EXCEPT ![s] = "cancelled"] /\ label' = label
        \/ /\ \A r \in Own(s) : ~output'[r].cancelled
           /\ place' = [place EXCEPT ![s] = "done"]
           /\ label' = [label EXCEPT ![s] = version]
    BY DEF EndTask, Label
  <1> QED
    BY <1>3, <1>4, <1>5, <1>6, <1>7

\* What the servers' steps do to a call.
LEMMA GenerateEffect ==
    ASSUME TypeOK, NEW r \in Responses, Generate(r)
    PROVE  /\ call' \in [Responses -> Calls]
           /\ \A q \in Responses \ {r} : call'[q] = call[q]
           /\ UNCHANGED <<tasks, serverPaused, weights, sync>>
           /\ \/ /\ Accept(r) /\ call[r].at = "sent"
                 /\ serverPaused[call[r].server]
                 /\ call'[r] = Answered(call[r]) /\ entries' = entries
              \/ /\ Accept(r) /\ call[r].at = "sent"
                 /\ ~serverPaused[call[r].server]
                 /\ call'[r] = [call[r] EXCEPT !.at = "generating"]
                 /\ entries' = [entries EXCEPT ![call[r].server] = @ + 1]
              \/ /\ Emit(r) /\ call[r].at = "generating" /\ ~call[r].finished
                 /\ entries' = entries
                 /\ \E finished \in BOOLEAN :
                      call'[r] = [call[r] EXCEPT
                        !.got = Append(@, [pos |-> Len(Before(r)) + Len(@) + 1,
                                           version |-> weights]),
                        !.finished = finished]
              \/ /\ Return(r) /\ call[r].at = "generating"
                 /\ call[r].finished \/ call[r].event
                 /\ call'[r] = Answered(call[r])
                 /\ entries' = IF Remembered(r) THEN entries
                               ELSE [entries EXCEPT ![call[r].server] = @ - 1]
  <1>1. call \in [Responses -> Calls] /\ call[r] \in Calls
    BY DEF TypeOK
  <1>2. Answered(call[r]) \in Calls
    BY <1>1, CallTypes
  <1>3. CASE Accept(r)
    <2>1. [call[r] EXCEPT !.at = "generating"] \in Calls
      BY <1>1 DEF Calls
    <2>2. call' = IF serverPaused[call[r].server]
                  THEN [call EXCEPT ![r] = Answered(call[r])]
                  ELSE [call EXCEPT ![r] = [call[r] EXCEPT !.at = "generating"]]
      BY <1>1, <1>3 DEF Accept
    <2> QED
      BY <1>1, <1>2, <1>3, <2>1, <2>2 DEF Accept
  <1>4. CASE Emit(r)
    <2> DEFINE token == [pos |-> Len(Before(r)) + Len(call[r].got) + 1, version |-> weights]
    <2>1. PICK finished \in BOOLEAN :
            call' = [call EXCEPT ![r].got = Append(call[r].got, token), ![r].finished = finished]
      BY <1>4 DEF Emit
    <2>2. Append(call[r].got, token) \in Tokens
      BY <1>1, EmittedType, AppendProperties DEF Calls, Tokens
    <2> HIDE DEF token
    <2>3. call' = [call EXCEPT ![r] = [call[r] EXCEPT !.got = Append(call[r].got, token),
                                                      !.finished = finished]]
      BY <1>1, <2>1
    <2>4. [call[r] EXCEPT !.got = Append(call[r].got, token), !.finished = finished] \in Calls
      BY <1>1, <2>2 DEF Calls
    <2>5. call'[r] = [call[r] EXCEPT !.got = Append(call[r].got, token), !.finished = finished]
      BY <1>1, <2>3
    <2>6. call' \in [Responses -> Calls] /\ \A q \in Responses \ {r} : call'[q] = call[q]
      BY <1>1, <2>3, <2>4
    <2> QED
      BY <1>4, <2>5, <2>6 DEF Emit, token, servers
  <1>5. CASE Return(r)
    <2>1. call' = [call EXCEPT ![r] = Answered(call[r])]
      BY <1>1, <1>5 DEF Return
    <2> QED
      BY <1>1, <1>2, <1>5, <2>1 DEF Return
  <1> QED
    BY <1>3, <1>4, <1>5 DEF Generate

\* What telling the requests of a server to stop does to the calls.
LEMMA CancelEffect ==
    ASSUME TypeOK, NEW v \in Servers, CancelServer(v)
    PROVE  /\ call' \in [Responses -> Calls]
           /\ \A r \in Responses :
                 /\ call'[r].at = call[r].at /\ call'[r].server = call[r].server
                 /\ call'[r].got = call[r].got /\ call'[r].finished = call[r].finished
                 /\ call[r].at = "none" => call'[r] = call[r]
  <1>1. call' = [r \in Responses |->
                  IF call[r].at = "generating" /\ call[r].server = v
                  THEN [call[r] EXCEPT !.event = TRUE] ELSE call[r]]
    BY DEF CancelServer
  <1>2. \A r \in Responses : call[r] \in Calls
    BY DEF TypeOK
  <1>3. ASSUME NEW r \in Responses
        PROVE  /\ call'[r] \in Calls
               /\ call'[r].at = call[r].at /\ call'[r].server = call[r].server
               /\ call'[r].got = call[r].got /\ call'[r].finished = call[r].finished
               /\ call[r].at = "none" => call'[r] = call[r]
    <2>1. call[r] \in Calls
      BY <1>2
    <2>2. call'[r] = IF call[r].at = "generating" /\ call[r].server = v
                    THEN [call[r] EXCEPT !.event = TRUE] ELSE call[r]
      BY <1>1
    <2> HIDE <1>1, <1>2
    <2> QED
      BY <2>1, <2>2 DEF Calls
  <1> QED
    BY <1>1, <1>3

\* The servers' memory of requests: a request is forgotten only if it was remembered.
LEMMA EntriesKept ==
    ASSUME IndInv, [Next]_vars
    PROVE  entries' \in [Servers -> Nat] /\ EntriesInv'
  <1> USE DEF IndInv
  <1>1. entries \in [Servers -> Nat] /\ TypeOK
    BY DEF TypeOK
  <1>2. \A v \in Servers : Cardinality(InFlight(v)) \in Nat
    BY FS_CardinalityType DEF EntriesInv
  <1>3. ASSUME UNCHANGED entries, \A v \in Servers : InFlight(v)' = InFlight(v)
        PROVE  entries' \in [Servers -> Nat] /\ EntriesInv'
    BY <1>1, <1>3 DEF EntriesInv
  <1>4. CASE \E s \in Samples : StartTask(s)
    <2>1. PICK s \in Samples : StartTask(s)
      BY <1>4
    <2>2. \A r \in Own(s) : call[r].at = "none"
      BY <2>1, OwnResponses DEF StartTask, CallInv
    <2>3. \A v \in Servers : InFlight(v)' = InFlight(v)
      BY <1>1, <2>1, <2>2, StartEffect DEF InFlight
    <2> QED
      BY <1>3, <2>1, <2>3 DEF StartTask, servers
  <1>5. CASE \E s \in Samples : EndTask(s)
    <2>1. PICK s \in Samples : EndTask(s)
      BY <1>5
    <2>2. \A v \in Servers : InFlight(v)' = InFlight(v)
      BY <1>1, <2>1, EndEffect DEF InFlight, EndTask, NoCall
    <2> QED
      BY <1>3, <2>1, <2>2 DEF EndTask, servers
  <1>6. CASE \E r \in Responses : Generate(r)
    <2>1. PICK r \in Responses : Generate(r)
      BY <1>6
    <2>0. PICK v : v = call[r].server
      OBVIOUS
    <2>2. call[r] \in Calls /\ call'[r] \in Calls
      BY <1>1, <2>1, GenerateEffect DEF TypeOK
    <2>3. call[r].at \in {"sent", "generating"} => v \in Servers
      BY <2>0 DEF CallInv
    <2>4. \A q \in Responses \ {r} : call'[q] = call[q]
      BY <1>1, <2>1, GenerateEffect
    <2>5. ASSUME call[r].at # "generating", call'[r].at # "generating"
          PROVE  \A w \in Servers : InFlight(w)' = InFlight(w)
      BY <2>4, <2>5 DEF InFlight
    <2>6. ASSUME call[r].at = "generating", call'[r].at = "generating", call'[r].server = v
          PROVE  \A w \in Servers : InFlight(w)' = InFlight(w)
      BY <2>0, <2>4, <2>6 DEF InFlight
    <2>7. CASE call[r].at = "sent" /\ call'[r] = Answered(call[r]) /\ entries' = entries
      BY <1>3, <2>2, <2>5, <2>7 DEF Answered, Calls
    <2>8. CASE /\ call[r].at = "sent" /\ call'[r] = [call[r] EXCEPT !.at = "generating"]
               /\ entries' = [entries EXCEPT ![v] = @ + 1]
      <3>1. v \in Servers /\ call'[r].at = "generating" /\ call'[r].server = v
        BY <2>0, <2>2, <2>3, <2>8 DEF Calls
      <3>2. InFlight(v)' = InFlight(v) \union {r}
        BY <2>0, <2>4, <2>8, <3>1 DEF InFlight
      <3>3. \A w \in Servers \ {v} : InFlight(w)' = InFlight(w)
        BY <2>0, <2>4, <2>8, <3>1 DEF InFlight
      <3>4. /\ IsFiniteSet(InFlight(v)')
            /\ Cardinality(InFlight(v)') <= Cardinality(InFlight(v)) + 1
        <4>1. IsFiniteSet(InFlight(v)) /\ Cardinality(InFlight(v)) \in Nat
          BY <1>2, <3>1 DEF EntriesInv
        <4>2. /\ IsFiniteSet(InFlight(v) \union {r})
              /\ \/ Cardinality(InFlight(v) \union {r}) = Cardinality(InFlight(v))
                 \/ Cardinality(InFlight(v) \union {r}) = Cardinality(InFlight(v)) + 1
          BY ONLY <4>1, FS_AddElement
        <4> QED
          BY <3>2, <4>1, <4>2
      <3>5. entries'[v] = entries[v] + 1 /\ \A w \in Servers \ {v} : entries'[w] = entries[w]
        BY <1>1, <2>8, <3>1
      <3>6. /\ IsFiniteSet(InFlight(v)')
            /\ Cardinality(InFlight(v)') <= entries'[v]
        BY <1>1, <1>2, <3>1, <3>4, <3>5, FS_CardinalityType DEF EntriesInv
      <3>7. EntriesInv'
        BY <3>1, <3>3, <3>5, <3>6 DEF EntriesInv
      <3> QED
        BY <1>1, <2>8, <3>1, <3>7
    <2>9. CASE /\ call[r].at = "generating" /\ call'[r] = Answered(call[r])
                /\ entries' = IF Remembered(r) THEN entries
                              ELSE [entries EXCEPT ![v] = @ - 1]
      <3>1. v \in Servers /\ call'[r].at # "generating"
        BY <2>2, <2>3, <2>9 DEF Calls, Answered
      <3>2. InFlight(v)' = InFlight(v) \ {r} /\ r \in InFlight(v)
        BY <2>0, <2>4, <2>9, <3>1 DEF InFlight
      <3>3. \A w \in Servers \ {v} : InFlight(w)' = InFlight(w)
        BY <2>0, <2>4, <2>9, <3>1 DEF InFlight
      <3>4. /\ IsFiniteSet(InFlight(v)')
            /\ Cardinality(InFlight(v)') = Cardinality(InFlight(v)) - 1
        <4>1. IsFiniteSet(InFlight(v)) /\ r \in InFlight(v)
          BY <3>1, <3>2 DEF EntriesInv
        <4>2. /\ IsFiniteSet(InFlight(v) \ {r})
              /\ Cardinality(InFlight(v) \ {r}) = Cardinality(InFlight(v)) - 1
          BY ONLY <4>1, FS_RemoveElement
        <4> QED
          BY <3>2, <4>2
      <3>5. /\ entries'[v] \in {entries[v], entries[v] - 1}
            /\ \A w \in Servers \ {v} : entries'[w] = entries[w]
        BY <1>1, <2>9, <3>1
      <3>6. Cardinality(InFlight(v)') \in Nat
        BY <3>4, FS_CardinalityType
      <3>7. Cardinality(InFlight(v)') <= entries'[v] /\ entries'[v] \in Nat
        BY <1>1, <1>2, <3>1, <3>4, <3>5, <3>6 DEF EntriesInv
      <3>8. EntriesInv'
        BY <3>1, <3>3, <3>4, <3>5, <3>7 DEF EntriesInv
      <3>9. entries' = entries \/ entries' = [entries EXCEPT ![v] = entries[v] - 1]
        BY <1>1, <2>9, <3>1
      <3>10. entries' \in [Servers -> Nat]
        <4>1. CASE entries' = [entries EXCEPT ![v] = entries[v] - 1]
          <5>1. entries'[v] = entries[v] - 1
            BY <1>1, <3>1, <4>1
          <5> QED
            BY <1>1, <3>1, <3>7, <4>1, <5>1
        <4> QED
          BY <1>1, <3>9, <4>1
      <3> QED
        BY <3>8, <3>10
    <2>10. CASE Emit(r) /\ call[r].at = "generating" /\ entries' = entries
      <3>1. call'[r].at = "generating" /\ call'[r].server = v
        BY <1>1, <2>0, <2>2, <2>10 DEF Emit, TypeOK
      <3> QED
        BY <1>3, <2>6, <2>10, <3>1
    <2> QED
      BY <1>1, <2>0, <2>1, <2>7, <2>8, <2>9, <2>10, GenerateEffect
  <1>7. CASE \E v \in Servers : CancelServer(v)
    <2>1. PICK v \in Servers : CancelServer(v)
      BY <1>7
    <2>2. \A w \in Servers : InFlight(w)' = InFlight(w)
      BY <1>1, <2>1, CancelEffect DEF InFlight
    <2> QED
      BY <1>3, <2>1, <2>2 DEF CancelServer
  <1>8. CASE UNCHANGED <<call, entries>>
    BY <1>3, <1>8 DEF InFlight
  <1> QED
    BY <1>4, <1>5, <1>6, <1>7, <1>8
    DEF Next, Synchronize, BeginPause, EndPause, SyncWeights, UpdateVersion, BeginResume,
        ResumeServer, EndResume, MonitorWaits, MonitorUnpause, Terminated, vars, servers

\* Every other variable keeps its type.
LEMMA TypeKept ==
    ASSUME IndInv, [Next]_vars
    PROVE  TypeOK'
  <1> USE DEF IndInv
  <1>1. TypeOK /\ entries' \in [Servers -> Nat]
    BY EntriesKept
  <1>2. MaxVersion \in Nat
    BY RolloutAssumption DEF RolloutAssumption
  <1>3. CASE \E s \in Samples : StartTask(s)
    <2>1. PICK s \in Samples : StartTask(s)
      BY <1>3
    <2>2. call' \in [Responses -> Calls]
      BY <1>1, <2>1, StartEffect
    <2> QED
      BY <1>1, <2>1, <2>2 DEF TypeOK, StartTask, servers, sync
  <1>4. CASE \E s \in Samples : EndTask(s)
    <2>1. PICK s \in Samples : EndTask(s)
      BY <1>4
    <2>2. /\ call' \in [Responses -> Calls]
          /\ output' \in [Responses -> Outputs \union {Nothing}]
          /\ place' \in {[place EXCEPT ![s] = "cancelled"], [place EXCEPT ![s] = "done"]}
          /\ label' \in {label, [label EXCEPT ![s] = version]}
      BY <1>1, <2>1, EndEffect
    <2>3. UNCHANGED <<started, servers, sync>>
      BY <2>1 DEF EndTask
    <2> QED
      BY <1>1, <2>2, <2>3 DEF TypeOK, servers, sync
  <1>5. CASE \E r \in Responses : Generate(r)
    <2>1. PICK r \in Responses : Generate(r)
      BY <1>5
    <2>2. call' \in [Responses -> Calls] /\ UNCHANGED <<tasks, serverPaused, weights, sync>>
      BY <1>1, <2>1, GenerateEffect
    <2> QED
      BY <1>1, <2>2 DEF TypeOK, tasks, sync
  <1>6. CASE \E v \in Servers : CancelServer(v)
    <2>1. PICK v \in Servers : CancelServer(v)
      BY <1>6
    <2>2. call' \in [Responses -> Calls]
      BY <1>1, <2>1, CancelEffect
    <2> QED
      BY <1>1, <2>1, <2>2 DEF TypeOK, CancelServer, tasks, sync
  <1>7. CASE \E v \in Servers : ResumeServer(v)
    BY <1>1, <1>7 DEF TypeOK, ResumeServer, tasks, sync
  <1>8. CASE SyncWeights
    BY <1>1, <1>2, <1>8 DEF TypeOK, SyncWeights, PhaseInv, tasks
  <1>9. CASE BeginPause \/ EndPause \/ UpdateVersion \/ BeginResume \/ EndResume
    BY <1>1, <1>9
    DEF TypeOK, BeginPause, EndPause, UpdateVersion, BeginResume, EndResume, tasks, servers
  <1>10. CASE MonitorWaits \/ MonitorUnpause
    BY <1>1, <1>10 DEF TypeOK, MonitorWaits, MonitorUnpause, tasks, servers
  <1>11. CASE UNCHANGED vars
    BY <1>1, <1>11 DEF TypeOK, vars, tasks, servers, sync
  <1> QED
    BY <1>3, <1>4, <1>5, <1>6, <1>7, <1>8, <1>9, <1>10, <1>11
    DEF Next, Synchronize, Terminated

-----------------------------------------------------------------------------
(* Calls, tasks and phases.                                                 *)

\* A call belongs to a running task, whatever cancels or answers it.
LEMMA CallKept ==
    ASSUME IndInv, [Next]_vars
    PROVE  CallInv'
  <1>1. TypeOK /\ CallInv
    BY DEF IndInv
  <1>2. ASSUME UNCHANGED <<call, place, output>>
        PROVE  CallInv'
    BY <1>1, <1>2 DEF CallInv, Unfinished
  <1>3. CASE \E s \in Samples : StartTask(s)
    <2>1. PICK s \in Samples : StartTask(s)
      BY <1>3
    <2>2. place' = [place EXCEPT ![s] = "running"] /\ UNCHANGED output
      BY <2>1 DEF StartTask
    <2>3. SUFFICES ASSUME NEW r \in Responses
                   PROVE  /\ IF call'[r].at = "none" THEN call'[r] = NoCall
                             ELSE place'[r[1]] = "running" /\ Unfinished(r)'
                          /\ call'[r].at = "sent" => call'[r].got = <<>> /\ ~call'[r].finished
                          /\ call'[r].at \in {"sent", "generating"} => call'[r].server \in Servers
                          /\ call'[r].finished => call'[r].got # <<>>
      BY DEF CallInv
    <2>4. CASE r \in Own(s) /\ Unfinished(r)
      <3>1. place'[r[1]] = "running" /\ Unfinished(r)'
        BY <1>1, <2>2, <2>4, OwnResponses DEF TypeOK, Unfinished
      <3> QED
        BY <1>1, <2>1, <2>4, <3>1, StartEffect
    <2>5. CASE ~(r \in Own(s) /\ Unfinished(r))
      <3>1. call'[r] = call[r]
        BY <1>1, <2>1, <2>5, StartEffect
      <3>2. Unfinished(r)' = Unfinished(r)
        BY <2>2 DEF Unfinished
      <3>3. place[r[1]] = "running" => place'[r[1]] = "running"
        BY <1>1, <2>2, OwnResponses DEF TypeOK
      <3> QED
        BY <1>1, <3>1, <3>2, <3>3 DEF CallInv
    <2> QED
      BY <2>4, <2>5
  <1>4. CASE \E s \in Samples : EndTask(s)
    <2>1. PICK s \in Samples : EndTask(s)
      BY <1>4
    <2>2. place' \in {[place EXCEPT ![s] = "cancelled"], [place EXCEPT ![s] = "done"]}
      BY <1>1, <2>1, EndEffect
    <2>3. ASSUME NEW r \in Responses, r \in Own(s)
          PROVE  call'[r] = NoCall
      BY <1>1, <2>1, <2>3, EndEffect
    <2>4. ASSUME NEW r \in Responses, r \notin Own(s)
          PROVE  /\ call'[r] = call[r] /\ output'[r] = output[r]
                 /\ place'[r[1]] = place[r[1]]
      BY <1>1, <2>1, <2>2, <2>4, EndEffect, OwnResponses DEF TypeOK
    <2>5. \A r \in Responses : r \notin Own(s) => (Unfinished(r)' <=> Unfinished(r))
      BY <2>4 DEF Unfinished
    <2>6. NoCall.at = "none" /\ ~NoCall.finished
      BY DEF NoCall
    <2> QED
      BY <1>1, <2>3, <2>4, <2>5, <2>6 DEF CallInv
  <1>5. CASE \E r \in Responses : Generate(r)
    <2>1. PICK r \in Responses : Generate(r)
      BY <1>5
    <2>2. UNCHANGED <<place, output>> /\ \A q \in Responses \ {r} : call'[q] = call[q]
      BY <1>1, <2>1, GenerateEffect DEF tasks
    <2>3. \A q \in Responses : Unfinished(q)' = Unfinished(q)
      BY <2>2 DEF Unfinished
    <2>4. /\ call'[r].at # "none" /\ call'[r].at # "sent" /\ call[r].at # "none"
          /\ call'[r].at \in {"sent", "generating"} => call'[r].server \in Servers
          /\ call'[r].finished => call'[r].got # <<>>
      <3>1. call[r] \in Calls
        BY <1>1 DEF TypeOK
      <3>2. CASE call'[r] = Answered(call[r]) /\ call[r].at \in {"sent", "generating"}
        BY <1>1, <3>1, <3>2 DEF Answered, Calls, CallInv
      <3>3. CASE call'[r] = [call[r] EXCEPT !.at = "generating"] /\ call[r].at = "sent"
        BY <1>1, <3>1, <3>3 DEF Calls, CallInv
      <3>4. CASE /\ call[r].at = "generating"
                 /\ \E finished \in BOOLEAN :
                      call'[r] = [call[r] EXCEPT
                        !.got = Append(@, [pos |-> Len(Before(r)) + Len(@) + 1,
                                           version |-> weights]),
                        !.finished = finished]
        <4> DEFINE got == Append(call[r].got, [pos |-> Len(Before(r)) + Len(call[r].got) + 1,
                                               version |-> weights])
        <4>1. PICK finished \in BOOLEAN :
                call'[r] = [call[r] EXCEPT !.got = got, !.finished = finished]
          BY <3>4
        <4>2. got # <<>>
          BY <1>1, <3>1, EmittedType, AppendProperties DEF Calls, Tokens
        <4> HIDE DEF got
        <4> QED
          BY <1>1, <3>1, <3>4, <4>1, <4>2 DEF Calls, CallInv
      <3> QED
        BY <1>1, <2>1, <3>2, <3>3, <3>4, GenerateEffect
    <2> QED
      BY <1>1, <2>2, <2>3, <2>4 DEF CallInv
  <1>6. CASE \E v \in Servers : CancelServer(v)
    <2>1. PICK v \in Servers : CancelServer(v)
      BY <1>6
    <2>2. UNCHANGED <<place, output>>
      BY <2>1 DEF CancelServer, tasks
    <2>3. \A r \in Responses : Unfinished(r)' = Unfinished(r)
      BY <2>2 DEF Unfinished
    <2> QED
      BY <1>1, <2>1, <2>2, <2>3, CancelEffect DEF CallInv
  <1>7. CASE UNCHANGED <<call, tasks>>
    BY <1>2, <1>7 DEF tasks
  <1> QED
    BY <1>3, <1>4, <1>5, <1>6, <1>7
    DEF Next, Synchronize, BeginPause, EndPause, SyncWeights, UpdateVersion, BeginResume,
        ResumeServer, EndResume, MonitorWaits, MonitorUnpause, Terminated, vars

\* Which calls and outputs a sample has follows from where it is.
LEMMA PlaceKept ==
    ASSUME IndInv, [Next]_vars
    PROVE  PlaceInv'
  <1>1. TypeOK /\ CallInv /\ PlaceInv
    BY DEF IndInv
  <1>2. ASSUME UNCHANGED <<place, output>>,
               \A r \in Responses : call'[r].at = "none" <=> call[r].at = "none"
        PROVE  PlaceInv'
    <2>1. \A s \in Samples : \A r \in Own(s) : r \in Responses
      BY OwnResponses
    <2>2. \A r \in Responses : Unfinished(r)' <=> Unfinished(r)
      BY <1>2 DEF Unfinished
    <2> QED
      BY <1>1, <1>2, <2>1, <2>2 DEF PlaceInv
  <1>3. CASE \E s \in Samples : StartTask(s)
    <2>1. PICK s \in Samples : StartTask(s)
      BY <1>3
    <2>2. place' = [place EXCEPT ![s] = "running"] /\ UNCHANGED output
      BY <2>1 DEF StartTask
    <2>3. \A r \in Responses : Unfinished(r)' <=> Unfinished(r)
      BY <2>2 DEF Unfinished
    <2>4. /\ \E r \in Own(s) : call'[r].at # "none"
          /\ \A r \in Own(s) : call'[r].at = "none" => ~Unfinished(r)'
      <3>1. PICK r \in Own(s) : Unfinished(r)
        <4>1. CASE place[s] = "pending"
          BY <1>1, <4>1, OwnResponses DEF PlaceInv, Unfinished
        <4>2. CASE place[s] = "cancelled"
          BY <1>1, <4>2 DEF PlaceInv
        <4> QED
          BY <2>1, <4>1, <4>2 DEF StartTask
      <3>2. call'[r].at # "none"
        BY <1>1, <2>1, <3>1, StartEffect, OwnResponses
      <3>3. \A q \in Own(s) : Unfinished(q) => call'[q].at = "sent"
        BY <1>1, <2>1, StartEffect, OwnResponses
      <3> QED
        BY <2>3, <3>2, <3>3, OwnResponses
    <2>5. ASSUME NEW t \in Samples \ {s}
          PROVE  place'[t] = place[t] /\ \A r \in Own(t) : call'[r] = call[r]
      <3>1. \A r \in Own(t) : r \in Responses /\ r \notin Own(s)
        BY OwnResponses
      <3> QED
        BY <1>1, <2>1, <2>2, <3>1, StartEffect DEF TypeOK
    <2>6. place'[s] = "running"
      BY <1>1, <2>2 DEF TypeOK
    <2> QED
      BY <1>1, <2>2, <2>3, <2>4, <2>5, <2>6, OwnResponses DEF PlaceInv
  <1>4. CASE \E s \in Samples : EndTask(s)
    <2>1. PICK s \in Samples : EndTask(s)
      BY <1>4
    <2>2. ASSUME NEW t \in Samples \ {s}
          PROVE  /\ place'[t] = place[t]
                 /\ \A r \in Own(t) :
                      call'[r] = call[r] /\ output'[r] = output[r]
                      /\ (Unfinished(r)' <=> Unfinished(r))
      <3>1. \A r \in Own(t) : r \in Responses /\ r \notin Own(s)
        BY OwnResponses
      <3> QED
        BY <1>1, <2>1, <3>1, EndEffect DEF TypeOK, Unfinished
    <2>3. \/ place'[s] = "cancelled" /\ \E r \in Own(s) : Unfinished(r)'
          \/ place'[s] = "done" /\ \A r \in Own(s) : ~Unfinished(r)'
      <3>1. CASE /\ \E r \in Own(s) : output'[r].cancelled
                 /\ place' = [place EXCEPT ![s] = "cancelled"]
        BY <1>1, <3>1 DEF TypeOK, Unfinished
      <3>2. CASE /\ \A r \in Own(s) : ~output'[r].cancelled
                 /\ place' = [place EXCEPT ![s] = "done"]
        <4>1. ASSUME NEW r \in Own(s)
              PROVE  output'[r] # Nothing
          <5>1. r \in Responses /\ started[s] \in 0..MaxVersion
            BY <1>1, OwnResponses DEF TypeOK
          <5>2. CASE call[r].at = "answered"
            <6>1. output'[r] = Extended(r, started[s])
              BY <1>1, <2>1, <5>1, <5>2, EndEffect
            <6> QED
              BY <1>1, <5>1, <6>1, ExtendedType, NothingAssumption
              DEF NothingAssumption
          <5>3. CASE call[r].at = "none"
            <6>1. output'[r] = output[r]
              BY <1>1, <2>1, <5>1, <5>3, EndEffect
            <6>2. ~Unfinished(r)
              BY <1>1, <2>1, <5>3 DEF PlaceInv, EndTask
            <6> QED
              BY <6>1, <6>2 DEF Unfinished
          <5> QED
            BY <2>1, <5>2, <5>3 DEF EndTask
        <4> QED
          BY <1>1, <3>2, <4>1 DEF TypeOK, Unfinished
      <3> QED
        BY <1>1, <2>1, <3>1, <3>2, EndEffect
    <2> QED
      BY <1>1, <2>2, <2>3 DEF PlaceInv
  <1>5. CASE \E r \in Responses : Generate(r)
    <2>1. PICK r \in Responses : Generate(r)
      BY <1>5
    <2>2. UNCHANGED <<place, output>> /\ \A q \in Responses \ {r} : call'[q] = call[q]
      BY <1>1, <2>1, GenerateEffect DEF tasks
    <2>3. call'[r].at # "none" /\ call[r].at # "none"
      <3>1. call[r] \in Calls
        BY <1>1 DEF TypeOK
      <3>2. CASE call'[r] = Answered(call[r]) /\ call[r].at \in {"sent", "generating"}
        BY <3>1, <3>2 DEF Answered, Calls
      <3>3. CASE call'[r] = [call[r] EXCEPT !.at = "generating"] /\ call[r].at = "sent"
        BY <3>1, <3>3 DEF Calls
      <3>4. CASE /\ call[r].at = "generating"
                 /\ \E finished \in BOOLEAN :
                      call'[r] = [call[r] EXCEPT
                        !.got = Append(@, [pos |-> Len(Before(r)) + Len(@) + 1,
                                           version |-> weights]),
                        !.finished = finished]
        BY <3>1, <3>4 DEF Calls
      <3> QED
        BY <1>1, <2>1, <3>2, <3>3, <3>4, GenerateEffect
    <2> QED
      BY <1>2, <2>2, <2>3
  <1>6. CASE \E v \in Servers : CancelServer(v)
    <2>1. PICK v \in Servers : CancelServer(v)
      BY <1>6
    <2>2. UNCHANGED <<place, output>>
      BY <2>1 DEF CancelServer, tasks
    <2>3. \A r \in Responses : call'[r].at = call[r].at
      BY <1>1, <2>1, CancelEffect
    <2> QED
      BY <1>2, <2>2, <2>3
  <1>7. CASE UNCHANGED <<call, tasks>>
    BY <1>2, <1>7 DEF tasks
  <1> QED
    BY <1>3, <1>4, <1>5, <1>6, <1>7
    DEF Next, Synchronize, BeginPause, EndPause, SyncWeights, UpdateVersion, BeginResume,
        ResumeServer, EndResume, MonitorWaits, MonitorUnpause, Terminated, vars

\* From the end of pause to resume no engine generates: a task that starts then is
\* answered with nothing by servers that are all paused.
LEMMA PhaseKept ==
    ASSUME IndInv, [Next]_vars
    PROVE  PhaseInv'
  <1>1. TypeOK /\ CallInv /\ PhaseInv
    BY DEF IndInv
  <1>2. MaxVersion \in Nat
    BY RolloutAssumption DEF RolloutAssumption
  <1>3. ASSUME UNCHANGED <<phase, version, weights, serverPaused>>,
               phase \in Quiet => \A r \in Responses :
                                    call'[r].got = <<>> /\ call'[r].at # "generating"
        PROVE  PhaseInv'
    BY <1>1, <1>3 DEF PhaseInv
  <1>4. CASE \E s \in Samples : StartTask(s)
    <2>1. PICK s \in Samples : StartTask(s)
      BY <1>4
    <2>2. phase \in Quiet => \A r \in Responses :
                               call'[r].got = <<>> /\ call'[r].at # "generating"
      BY <1>1, <2>1, StartEffect DEF PhaseInv
    <2> QED
      BY <1>3, <2>1, <2>2 DEF StartTask, servers, sync
  <1>5. CASE \E s \in Samples : EndTask(s)
    <2>1. PICK s \in Samples : EndTask(s)
      BY <1>5
    <2>2. phase \in Quiet => \A r \in Responses :
                               call'[r].got = <<>> /\ call'[r].at # "generating"
      BY <1>1, <2>1, EndEffect, CallTypes DEF PhaseInv
    <2> QED
      BY <1>3, <2>1, <2>2 DEF EndTask, servers, sync
  <1>6. CASE \E r \in Responses : Generate(r)
    <2>1. PICK r \in Responses : Generate(r)
      BY <1>6
    <2>2. UNCHANGED <<serverPaused, weights, sync>> /\ \A q \in Responses \ {r} : call'[q] = call[q]
      BY <1>1, <2>1, GenerateEffect
    <2>3. ASSUME phase \in Quiet
          PROVE  call'[r].got = <<>> /\ call'[r].at # "generating"
      <3>1. call[r].got = <<>> /\ call[r].at # "generating" /\ call[r] \in Calls
        BY <1>1, <2>3 DEF PhaseInv, TypeOK
      <3>2. call[r].at = "sent" => serverPaused[call[r].server]
        BY <1>1, <2>3 DEF PhaseInv, CallInv
      <3>3. call'[r] = Answered(call[r])
        BY <1>1, <2>1, <3>1, <3>2, GenerateEffect
      <3> QED
        BY <3>1, <3>3 DEF Answered, Calls
    <2> QED
      BY <1>1, <1>3, <2>2, <2>3 DEF sync, PhaseInv
  <1>7. CASE EndPause
    <2>1. ASSUME NEW r \in Responses
          PROVE  call[r].got = <<>> /\ call[r].at # "generating"
      BY <1>1, <1>7, OwnResponses, CallTypes DEF EndPause, CallInv
    <2> QED
      BY <1>1, <1>7, <2>1 DEF EndPause, PhaseInv, servers
  <1>8. CASE SyncWeights \/ UpdateVersion
    BY <1>1, <1>8 DEF SyncWeights, UpdateVersion, PhaseInv, Quiet, servers, TypeOK
  <1>9. CASE BeginPause \/ BeginResume \/ EndResume
    BY <1>1, <1>9 DEF BeginPause, BeginResume, EndResume, PhaseInv, Quiet, servers
  <1>10. CASE \E v \in Servers : CancelServer(v) \/ ResumeServer(v)
    BY <1>1, <1>10 DEF CancelServer, ResumeServer, PhaseInv, Quiet, sync
  <1>11. CASE MonitorWaits \/ MonitorUnpause
    BY <1>1, <1>11 DEF MonitorWaits, MonitorUnpause, PhaseInv, servers
  <1>12. CASE UNCHANGED vars
    BY <1>1, <1>12 DEF PhaseInv, vars, servers, sync
  <1> QED
    BY <1>4, <1>5, <1>6, <1>7, <1>8, <1>9, <1>10, <1>11, <1>12
    DEF Next, Synchronize, Terminated

-----------------------------------------------------------------------------
(* Tokens and labels.                                                       *)

\* The elements of w are those of s and t, those of t all of them.
Joins(w, s, t) ==
    /\ \A i \in 1..Len(w) :
          \/ \E j \in 1..Len(s) : w[i] = s[j]
          \/ \E j \in 1..Len(t) : w[i] = t[j]
    /\ \A j \in 1..Len(t) : \E i \in 1..Len(w) : w[i] = t[j]

\* The elements of a concatenation are those of its two parts.
LEMMA ConcatElements ==
    ASSUME NEW S, NEW s \in Seq(S), NEW t \in Seq(S)
    PROVE  Joins(s \o t, s, t)
  <1>1. PICK m \in Nat, n \in Nat : m = Len(s) /\ n = Len(t)
    BY LenProperties
  <1>2. /\ Len(s \o t) = m + n
        /\ \A i \in 1 .. m + n : (s \o t)[i] = IF i <= m THEN s[i] ELSE t[i - m]
    BY <1>1, ConcatProperties
  <1>3. ASSUME NEW i \in 1 .. m + n
        PROVE  \/ \E j \in 1..m : (s \o t)[i] = s[j]
               \/ \E j \in 1..n : (s \o t)[i] = t[j]
    <2>1. i <= m => i \in 1..m
      OBVIOUS
    <2>2. ~(i <= m) => i - m \in 1..n
      OBVIOUS
    <2> QED
      BY <1>2, <2>1, <2>2
  <1>4. ASSUME NEW j \in 1..n
        PROVE  \E i \in 1 .. m + n : (s \o t)[i] = t[j]
    <2>1. m + j \in 1 .. m + n /\ ~(m + j <= m) /\ (m + j) - m = j
      OBVIOUS
    <2>2. (s \o t)[m + j] = t[j]
      BY <1>2, <2>1
    <2> QED
      BY <2>1, <2>2
  <1> QED
    BY <1>1, <1>2, <1>3, <1>4 DEF Joins

\* The elements of a sequence with one more.
LEMMA AppendElements ==
    ASSUME NEW S, NEW s \in Seq(S), NEW e \in S
    PROVE  \A i \in 1..Len(Append(s, e)) :
              Append(s, e)[i] = e \/ \E j \in 1..Len(s) : Append(s, e)[i] = s[j]
  <1>1. PICK m \in Nat : m = Len(s)
    BY LenProperties
  <1>2. /\ Len(Append(s, e)) = m + 1 /\ Append(s, e)[m + 1] = e
        /\ \A i \in 1..m : Append(s, e)[i] = s[i]
    BY <1>1, AppendProperties
  <1>3. \A i \in 1 .. m + 1 : i = m + 1 \/ i \in 1..m
    OBVIOUS
  <1> QED
    BY <1>1, <1>2, <1>3

\* The output after a call holds what the earlier output and the call held: it is cut
\* from its logs, which are no older than its start and no newer than the version.
LEMMA ExtendedTokens ==
    ASSUME IndInv, NEW s \in Samples, NEW r \in Own(s)
    PROVE  LET o == Extended(r, started[s])
           IN  /\ o.tokens = Cut(o.logs)
               /\ o.start <= started[s]
               /\ \A i \in 1..Len(o.logs) :
                     o.start <= o.logs[i].version /\ o.logs[i].version <= version
               /\ call[r].got # <<>> =>
                     \E i \in 1..Len(o.logs) : o.logs[i].version = version
               /\ o.cancelled = ~call[r].finished
  <1>1. /\ r \in Responses /\ r[1] = s
        /\ version \in Nat /\ started[s] \in Nat /\ started[s] <= version
    BY OwnResponses, RolloutAssumption DEF IndInv, TypeOK, TokenInv, RolloutAssumption
  <1>2. call[r].got \in Seq(Token) /\ Len(call[r].got) \in Nat
    BY <1>1, LenProperties DEF IndInv, TypeOK, Calls, Tokens
  <1>3. \A i \in 1..Len(call[r].got) : call[r].got[i].version = version
    BY <1>1 DEF IndInv, TokenInv
  <1>4. call[r].got # <<>> => Len(call[r].got) \in 1..Len(call[r].got)
    BY <1>2, EmptySeq
  <1>5. CASE output[r] = Nothing
    <2>1. Extended(r, started[s]) = [tokens |-> Cut(call[r].got), logs |-> call[r].got,
                                   cancelled |-> ~call[r].finished, start |-> started[s]]
      BY <1>5 DEF Extended
    <2> QED
      BY <1>1, <1>2, <1>3, <1>4, <2>1
  <1>6. CASE output[r] # Nothing
    <2> DEFINE old == output[r]
               logs == old.logs \o call[r].got
    <2>1. /\ old.logs \in Seq(Token) /\ old.start \in Nat
          /\ old.tokens = Cut(old.logs) /\ old.start <= started[s]
          /\ \A i \in 1..Len(old.logs) :
                old.start <= old.logs[i].version /\ old.logs[i].version <= version
      BY <1>1, <1>6, RolloutAssumption
      DEF IndInv, TypeOK, TokenInv, Outputs, Tokens, RolloutAssumption
    <2>2. old.logs \in Seq(Token) /\ call[r].got \in Seq(Token)
      BY <1>2, <2>1
    <2>3. Cut(old.tokens \o call[r].got) = Cut(logs)
      BY <1>2, <2>1, CutOfCut
    <2>4. /\ \A i \in 1..Len(logs) :
                \/ \E j \in 1..Len(old.logs) : logs[i] = old.logs[j]
                \/ \E j \in 1..Len(call[r].got) : logs[i] = call[r].got[j]
          /\ \A j \in 1..Len(call[r].got) : \E i \in 1..Len(logs) : logs[i] = call[r].got[j]
      <3>1. Joins(logs, old.logs, call[r].got)
        BY <2>2, ConcatElements
      <3> QED
        BY <3>1 DEF Joins
    <2>5. Extended(r, started[s]) = [tokens |-> Cut(logs), logs |-> logs,
                                   cancelled |-> ~call[r].finished, start |-> old.start]
      BY <1>6, <2>3 DEF Extended
    <2> HIDE DEF logs
    <2>6. ASSUME NEW i \in 1..Len(logs)
          PROVE  old.start <= logs[i].version /\ logs[i].version <= version
      <3>1. CASE \E j \in 1..Len(old.logs) : logs[i] = old.logs[j]
        BY <2>1, <3>1
      <3>2. CASE \E j \in 1..Len(call[r].got) : logs[i] = call[r].got[j]
        <4>1. logs[i].version = version
          BY <1>3, <3>2
        <4> QED
          BY <1>1, <2>1, <4>1
      <3> QED
        BY <2>4, <3>1, <3>2
    <2>7. ASSUME call[r].got # <<>>
          PROVE  \E i \in 1..Len(logs) : logs[i].version = version
      BY <1>3, <1>4, <2>4, <2>7
    <2> QED
      BY <2>1, <2>5, <2>6, <2>7
  <1> QED
    BY <1>5, <1>6

\* The versions of tokens, starts and tasks.
LEMMA TokenKept ==
    ASSUME IndInv, [Next]_vars
    PROVE  TokenInv'
  <1>1. TypeOK /\ CallInv /\ PhaseInv /\ TokenInv
    BY DEF IndInv
  <1>2. version \in Nat /\ weights \in Nat /\ \A s \in Samples : started[s] \in Nat
    BY <1>1, RolloutAssumption DEF TypeOK, RolloutAssumption
  <1>3. ASSUME UNCHANGED <<version, started, output>>,
               \A r \in Responses : \A i \in 1..Len(call'[r].got) :
                  call'[r].got[i].version = version
        PROVE  TokenInv'
    <2>1. \A r \in Responses : output'[r] # Nothing =>
            /\ output'[r].tokens = Cut(output'[r].logs)
            /\ output'[r].start <= started'[r[1]]
            /\ \A i \in 1..Len(output'[r].logs) :
                  output'[r].start <= output'[r].logs[i].version
                  /\ output'[r].logs[i].version <= version'
      BY <1>1, <1>3 DEF TokenInv
    <2>2. \A s \in Samples : started'[s] <= version'
      BY <1>1, <1>3 DEF TokenInv
    <2> QED
      BY <1>3, <2>1, <2>2 DEF TokenInv
  <1>4. CASE \E s \in Samples : StartTask(s)
    <2>1. PICK s \in Samples : StartTask(s)
      BY <1>4
    <2>2. UNCHANGED <<version, output>> /\ started' = [started EXCEPT ![s] = version]
      BY <2>1 DEF StartTask, sync
    <2>3. \A r \in Responses : call'[r].got \in {<<>>, call[r].got}
      BY <1>1, <2>1, StartEffect
    <2>4. \A r \in Responses : \A i \in 1..Len(call'[r].got) :
            call'[r].got[i].version = version'
      BY <1>1, <2>2, <2>3, EmptySeq DEF TokenInv
    <2>5. \A t \in Samples : started[t] <= started'[t] /\ started'[t] <= version'
                             /\ started'[t] \in Nat
      BY <1>1, <1>2, <2>2 DEF TokenInv, TypeOK
    <2>6. ASSUME NEW r \in Responses, output'[r] # Nothing
          PROVE  /\ output'[r].tokens = Cut(output'[r].logs)
                 /\ output'[r].start <= started'[r[1]]
                 /\ \A i \in 1..Len(output'[r].logs) :
                       output'[r].start <= output'[r].logs[i].version
                       /\ output'[r].logs[i].version <= version'
      <3>1. output[r].start \in Nat /\ r[1] \in Samples
        BY <1>1, <2>2, <2>6, OwnResponses DEF TypeOK, Outputs
      <3>2. output[r].start <= started[r[1]]
        BY <1>1, <2>2, <2>6 DEF TokenInv
      <3>3. output'[r].start <= started'[r[1]]
        BY <1>2, <2>2, <2>5, <3>1, <3>2
      <3> QED
        BY <1>1, <2>2, <2>6, <3>3 DEF TokenInv
    <2> QED
      BY <2>4, <2>5, <2>6 DEF TokenInv
  <1>5. CASE \E s \in Samples : EndTask(s)
    <2>1. PICK s \in Samples : EndTask(s)
      BY <1>5
    <2>2. UNCHANGED <<version, started>>
      BY <2>1 DEF EndTask, sync
    <2>3. \A r \in Responses : call'[r].got \in {<<>>, call[r].got}
      BY <1>1, <2>1, EndEffect, CallTypes
    <2>4. \A r \in Responses : \A i \in 1..Len(call'[r].got) :
            call'[r].got[i].version = version'
      BY <1>1, <2>2, <2>3, EmptySeq DEF TokenInv
    <2>5. \A t \in Samples : started'[t] <= version'
      BY <1>1, <2>2 DEF TokenInv
    <2>6. ASSUME NEW r \in Responses, output'[r] # Nothing
          PROVE  /\ output'[r].tokens = Cut(output'[r].logs)
                 /\ output'[r].start <= started'[r[1]]
                 /\ \A i \in 1..Len(output'[r].logs) :
                       output'[r].start <= output'[r].logs[i].version
                       /\ output'[r].logs[i].version <= version'
      <3>1. CASE r \in Own(s) /\ call[r].at = "answered"
        <4>1. output'[r] = Extended(r, started[s]) /\ r[1] = s
          BY <1>1, <2>1, <3>1, EndEffect, OwnResponses
        <4> QED
          BY <2>2, <3>1, <4>1, ExtendedTokens
      <3>2. CASE ~(r \in Own(s) /\ call[r].at = "answered")
        <4>1. output'[r] = output[r]
          BY <1>1, <2>1, <3>2, EndEffect
        <4> QED
          BY <1>1, <2>2, <2>6, <4>1 DEF TokenInv
      <3> QED
        BY <3>1, <3>2
    <2> QED
      BY <2>4, <2>5, <2>6 DEF TokenInv
  <1>6. CASE \E r \in Responses : Generate(r)
    <2>1. PICK r \in Responses : Generate(r)
      BY <1>6
    <2>2. UNCHANGED <<version, started, output>> /\ \A q \in Responses \ {r} : call'[q] = call[q]
      BY <1>1, <2>1, GenerateEffect DEF tasks, sync
    <2>3. \A i \in 1..Len(call'[r].got) : call'[r].got[i].version = version
      <3>1. call[r] \in Calls /\ call[r].got \in Seq(Token) /\ Len(call[r].got) \in Nat
        BY <1>1, LenProperties DEF TypeOK, Calls, Tokens
      <3>2. CASE call'[r] = Answered(call[r])
        BY <1>1, <3>1, <3>2 DEF Answered, Calls, TokenInv
      <3>3. CASE call'[r] = [call[r] EXCEPT !.at = "generating"]
        BY <1>1, <3>1, <3>3 DEF Calls, TokenInv
      <3>4. CASE /\ call[r].at = "generating"
                 /\ \E finished \in BOOLEAN :
                      call'[r] = [call[r] EXCEPT
                        !.got = Append(@, [pos |-> Len(Before(r)) + Len(@) + 1,
                                           version |-> weights]),
                        !.finished = finished]
        <4> DEFINE token == [pos |-> Len(Before(r)) + Len(call[r].got) + 1,
                             version |-> weights]
        <4>1. call'[r].got = Append(call[r].got, token)
          BY <3>1, <3>4 DEF Calls
        <4>2. token \in Token /\ token.version = version
          BY <1>1, <3>4, EmittedType DEF PhaseInv, Quiet
        <4> HIDE DEF token
        <4>3. \A i \in 1..Len(call'[r].got) :
                \/ call'[r].got[i] = token
                \/ \E j \in 1..Len(call[r].got) : call'[r].got[i] = call[r].got[j]
          BY <3>1, <4>1, <4>2, AppendElements
        <4> QED
          BY <1>1, <4>2, <4>3 DEF TokenInv
      <3> QED
        BY <1>1, <2>1, <3>2, <3>3, <3>4, GenerateEffect
    <2> QED
      BY <1>1, <1>3, <2>2, <2>3 DEF TokenInv
  <1>7. CASE \E v \in Servers : CancelServer(v)
    <2>1. PICK v \in Servers : CancelServer(v)
      BY <1>7
    <2>2. UNCHANGED <<version, started, output>>
      BY <2>1 DEF CancelServer, tasks, sync
    <2>3. \A r \in Responses : call'[r].got = call[r].got
      BY <1>1, <2>1, CancelEffect
    <2> QED
      BY <1>1, <1>3, <2>2, <2>3 DEF TokenInv
  <1>8. CASE UpdateVersion
    <2>1. version' = version + 1 /\ UNCHANGED <<call, output, started>>
      BY <1>1, <1>8 DEF UpdateVersion, PhaseInv, tasks
    <2>2. \A r \in Responses : Len(call[r].got) = 0
      BY <1>1, <1>8, EmptySeq DEF UpdateVersion, PhaseInv, Quiet
    <2>3. \A r \in Responses : \A i \in 1..Len(call'[r].got) :
            call'[r].got[i].version = version'
      BY <2>1, <2>2
    <2>4. \A s \in Samples : started'[s] <= version'
      BY <1>1, <1>2, <2>1 DEF TokenInv
    <2>5. ASSUME NEW r \in Responses, output'[r] # Nothing
          PROVE  /\ output'[r].tokens = Cut(output'[r].logs)
                 /\ output'[r].start <= started'[r[1]]
                 /\ \A i \in 1..Len(output'[r].logs) :
                       output'[r].start <= output'[r].logs[i].version
                       /\ output'[r].logs[i].version <= version'
      <3>1. output[r].logs \in Seq(Token)
        BY <1>1, <2>1, <2>5 DEF TypeOK, Outputs, Tokens
      <3>2. \A i \in 1..Len(output[r].logs) : output[r].logs[i].version \in Nat
        <4>1. \A i \in 1..Len(output[r].logs) : output[r].logs[i] \in Token
          BY <3>1, ElementOfSeq
        <4> QED
          BY <4>1, RolloutAssumption DEF Token, RolloutAssumption
      <3>3. \A i \in 1..Len(output[r].logs) :
              output[r].start <= output[r].logs[i].version
              /\ output[r].logs[i].version <= version
        BY <1>1, <2>1, <2>5 DEF TokenInv
      <3>4. \A i \in 1..Len(output[r].logs) : output[r].logs[i].version <= version'
        BY <1>2, <2>1, <3>2, <3>3
      <3> QED
        BY <1>1, <2>1, <2>5, <3>3, <3>4 DEF TokenInv
    <2> QED
      BY <2>3, <2>4, <2>5 DEF TokenInv
  <1>9. CASE UNCHANGED <<call, tasks, version>>
    BY <1>1, <1>3, <1>9 DEF tasks, TokenInv
  <1> QED
    BY <1>4, <1>5, <1>6, <1>7, <1>8, <1>9
    DEF Next, Synchronize, BeginPause, EndPause, SyncWeights, BeginResume,
        ResumeServer, EndResume, MonitorWaits, MonitorUnpause, Terminated, vars, sync

\* A sample that is finished is labelled with the version of its newest token, which
\* its last task generated.
LEMMA LabelKept ==
    ASSUME IndInv, [Next]_vars
    PROVE  LabelInv'
  <1>1. TypeOK /\ CallInv /\ PlaceInv /\ LabelInv
    BY DEF IndInv
  <1>2. ASSUME NEW s \in Samples, place[s] = "done", label'[s] = label[s],
               \A r \in Own(s) : output'[r] = output[r]
        PROVE  /\ label'[s] \in 0..MaxVersion
               /\ \E r \in Own(s) : \E i \in 1..Len(output'[r].logs) :
                     output'[r].logs[i].version = label'[s]
               /\ \A r \in Own(s) : \A i \in 1..Len(output'[r].logs) :
                     output'[r].logs[i].version <= label'[s]
    BY <1>1, <1>2 DEF LabelInv
  <1>3. CASE \E s \in Samples : StartTask(s)
    <2>1. PICK s \in Samples : StartTask(s)
      BY <1>3
    <2>2. place' = [place EXCEPT ![s] = "running"] /\ UNCHANGED <<label, output>>
      BY <2>1 DEF StartTask
    <2>3. \A t \in Samples : place'[t] = "done" => place[t] = "done"
      BY <1>1, <2>2 DEF TypeOK
    <2> QED
      BY <1>2, <2>2, <2>3 DEF LabelInv
  <1>4. CASE \E s \in Samples : EndTask(s)
    <2>1. PICK s \in Samples : EndTask(s)
      BY <1>4
    <2>2. ASSUME NEW t \in Samples \ {s}
          PROVE  /\ place'[t] = place[t] /\ label'[t] = label[t]
                 /\ \A r \in Own(t) : output'[r] = output[r]
      <3>1. \A r \in Own(t) : r \in Responses /\ r \notin Own(s)
        BY OwnResponses
      <3> QED
        BY <1>1, <2>1, <3>1, EndEffect DEF TypeOK
    <2>3. ASSUME place'[s] = "done"
          PROVE  /\ label'[s] \in 0..MaxVersion
                 /\ \E r \in Own(s) : \E i \in 1..Len(output'[r].logs) :
                       output'[r].logs[i].version = label'[s]
                 /\ \A r \in Own(s) : \A i \in 1..Len(output'[r].logs) :
                       output'[r].logs[i].version <= label'[s]
      <3>1. /\ \A r \in Own(s) : ~output'[r].cancelled
            /\ label'[s] = version /\ version \in 0..MaxVersion
        BY <1>1, <2>1, <2>3, EndEffect DEF TypeOK
      <3>2. \A r \in Own(s) : r \in Responses /\ call[r].at \in {"none", "answered"}
        BY <2>1, OwnResponses DEF EndTask
      <3>3. \A r \in Own(s) : output'[r] = IF call[r].at = "answered"
                                          THEN Extended(r, started[s]) ELSE output[r]
        BY <1>1, <2>1, <3>2, EndEffect
      <3>4. \E r \in Own(s) : \E i \in 1..Len(output'[r].logs) :
              output'[r].logs[i].version = version
        <4>1. PICK r \in Own(s) : call[r].at = "answered"
          BY <1>1, <2>1, <3>2 DEF PlaceInv, EndTask
        <4>2. output'[r] = Extended(r, started[s])
          BY <3>3, <4>1
        <4>3. call[r].finished
          BY <1>1, <3>1, <3>2, <4>2, ExtendedTokens DEF TypeOK, Calls
        <4>4. call[r].got # <<>>
          BY <1>1, <3>2, <4>3 DEF CallInv
        <4> QED
          BY <4>2, <4>4, ExtendedTokens
      <3>5. ASSUME NEW r \in Own(s)
            PROVE  \A i \in 1..Len(output'[r].logs) : output'[r].logs[i].version <= version
        <4>1. CASE call[r].at = "answered"
          BY <3>3, <4>1, ExtendedTokens
        <4>2. CASE call[r].at = "none"
          <5>1. output'[r] = output[r] /\ output[r] # Nothing /\ r \in Responses
            BY <1>1, <2>1, <3>2, <3>3, <4>2 DEF PlaceInv, EndTask, Unfinished
          <5> QED
            BY <5>1 DEF IndInv, TokenInv
        <4> QED
          BY <3>2, <4>1, <4>2
      <3> QED
        BY <3>1, <3>4, <3>5
    <2> QED
      BY <1>2, <2>2, <2>3 DEF LabelInv
  <1>5. CASE UNCHANGED <<place, label, output>>
    BY <1>2, <1>5 DEF LabelInv
  <1>6. CASE \E r \in Responses : Generate(r)
    BY <1>1, <1>5, <1>6, GenerateEffect DEF tasks
  <1> QED
    BY <1>3, <1>4, <1>5, <1>6
    DEF Next, Synchronize, BeginPause, EndPause, SyncWeights, UpdateVersion, BeginResume,
        EndResume, CancelServer, ResumeServer, MonitorWaits, MonitorUnpause, Terminated,
        vars, tasks

-----------------------------------------------------------------------------
(* The theorems.                                                            *)

\* The invariant holds before anything has started.
LEMMA InitIndInv == Init => IndInv
  <1> SUFFICES ASSUME Init
               PROVE  IndInv
    OBVIOUS
  <1>1. MaxVersion \in Nat /\ 0 \in 0..MaxVersion
    BY RolloutAssumption DEF RolloutAssumption
  <1>2. TypeOK
    BY <1>1, CallTypes DEF Init, TypeOK
  <1>3. \A r \in Responses : call[r] = NoCall /\ output[r] = Nothing
    BY DEF Init
  <1>4. EntriesInv
    <2>1. \A v \in Servers : InFlight(v) = {}
      BY <1>3, CallTypes DEF InFlight
    <2> QED
      BY <2>1, FS_EmptySet DEF Init, EntriesInv
  <1>5. CallInv
    BY <1>3, CallTypes DEF CallInv
  <1>6. PlaceInv
    BY <1>3, OwnResponses DEF Init, PlaceInv
  <1>7. PhaseInv
    BY <1>1 DEF Init, PhaseInv, Quiet
  <1>8. TokenInv
    <2>1. \A r \in Responses : Len(call[r].got) = 0
      BY <1>3, CallTypes, EmptySeq
    <2>2. \A s \in Samples : started[s] <= version
      BY DEF Init
    <2> QED
      BY <1>3, <2>1, <2>2 DEF TokenInv
  <1>9. LabelInv
    BY DEF Init, LabelInv
  <1> QED
    BY <1>2, <1>4, <1>5, <1>6, <1>7, <1>8, <1>9 DEF IndInv

\* The invariant that all theorems of this module rest on.
LEMMA Inductive == Spec => []IndInv
  <1>1. IndInv /\ [Next]_vars => IndInv'
    BY TypeKept, EntriesKept, CallKept, PlaceKept, PhaseKept, TokenKept, LabelKept
    DEF IndInv
  <1> QED
    BY InitIndInv, <1>1, PTL DEF Spec

\* Rollouter, calls, servers and synchronizer are well typed; in particular no server
\* forgets more requests than it remembers.
THEOREM TypeCorrect == Spec => []TypeOK
  <1>1. IndInv => TypeOK
    BY DEF IndInv
  <1> QED
    BY Inductive, <1>1, PTL

\* While the weights are replaced no engine generates, although tasks may start when
\* the monitor clears paused in the middle.
THEOREM NoGenerationDuringSync == Spec => []EnginesQuiet
  <1>1. IndInv => EnginesQuiet
    BY DEF IndInv, PhaseInv, Quiet, EnginesQuiet
  <1> QED
    BY Inductive, <1>1, PTL

\* The first log-probs of a response are those of its tokens, however often it was
\* interrupted and wherever it was cut (process_rollout_log_probs).
THEOREM LogProbsMatchTokens == Spec => []LogProbsAligned
  <1>1. IndInv => LogProbsAligned
    <2> SUFFICES ASSUME IndInv, NEW r \in Responses, output[r] # Nothing
                 PROVE  /\ Len(output[r].logs) >= Len(output[r].tokens)
                        /\ SubSeq(output[r].logs, 1, Len(output[r].tokens)) = output[r].tokens
      BY DEF LogProbsAligned
    <2>1. output[r].tokens = Cut(output[r].logs) /\ output[r].logs \in Seq(Token)
      BY DEF IndInv, TypeOK, TokenInv, Outputs, Tokens
    <2>2. Len(output[r].logs) \in Nat /\ ResponseLength \in Nat
      BY <2>1, LenProperties, RolloutAssumption DEF RolloutAssumption
    <2>3. Len(Cut(output[r].logs)) = IF Len(output[r].logs) < ResponseLength
                                     THEN Len(output[r].logs) ELSE ResponseLength
      BY <2>1, CutProperties
    <2> QED
      BY <2>1, <2>2, <2>3 DEF Cut
  <1> QED
    BY Inductive, <1>1, PTL

\* No token of a response is older than its param_version_start.
THEOREM StartIsBound == Spec => []StartIsOldest
  <1>1. IndInv => StartIsOldest
    <2> SUFFICES ASSUME IndInv, NEW r \in Responses, output[r] # Nothing,
                        NEW t \in Range(output[r].logs)
                 PROVE  output[r].start <= t.version
      BY DEF StartIsOldest
    <2>1. output[r].logs \in Seq(Token)
      BY DEF IndInv, TypeOK, Outputs, Tokens
    <2>2. PICK i \in 1..Len(output[r].logs) : t = output[r].logs[i]
      BY <2>1, LenProperties DEF Range
    <2> QED
      BY <2>2 DEF IndInv, TokenInv
  <1> QED
    BY Inductive, <1>1, PTL

\* The label of a finished sample, its param_version, is the version of its newest token.
THEOREM LabelIsMaximum == Spec => []LabelIsNewest
  <1>1. IndInv => LabelIsNewest
    <2> SUFFICES ASSUME IndInv, NEW s \in Samples, place[s] = "done"
                 PROVE  label[s] = Max({t.version : t \in
                                          UNION {Range(output[r].logs) : r \in Own(s)}})
      BY DEF LabelIsNewest
    <2> DEFINE versions == {t.version : t \in UNION {Range(output[r].logs) : r \in Own(s)}}
    <2>1. \A r \in Own(s) : /\ r \in Responses /\ output[r] # Nothing
                            /\ output[r].logs \in Seq(Token)
      <3>1. \A r \in Own(s) : r \in Responses /\ output[r] # Nothing
        BY OwnResponses DEF IndInv, PlaceInv, Unfinished
      <3> QED
        BY <3>1 DEF IndInv, TypeOK, Outputs, Tokens
    <2>2. \A r \in Own(s) : Range(output[r].logs) =
                              {output[r].logs[i] : i \in 1..Len(output[r].logs)}
      BY <2>1, LenProperties DEF Range
    <2>3. /\ label[s] \in 0..MaxVersion
          /\ \E r \in Own(s) : \E i \in 1..Len(output[r].logs) :
                output[r].logs[i].version = label[s]
          /\ \A r \in Own(s) : \A i \in 1..Len(output[r].logs) :
                output[r].logs[i].version <= label[s]
      BY DEF IndInv, LabelInv
    <2>4. label[s] \in versions
      BY <2>2, <2>3
    <2>5. ASSUME NEW v \in versions
          PROVE  v <= label[s] /\ v \in Nat
      <3>1. PICK r \in Own(s) : \E i \in 1..Len(output[r].logs) : v = output[r].logs[i].version
        <4>1. PICK t \in UNION {Range(output[r].logs) : r \in Own(s)} : v = t.version
          OBVIOUS
        <4>2. PICK r \in Own(s) : t \in Range(output[r].logs)
          BY <4>1
        <4> QED
          BY <2>2, <4>1, <4>2
      <3>2. PICK i \in 1..Len(output[r].logs) : v = output[r].logs[i].version
        BY <3>1
      <3>3. output[r].logs[i] \in Token
        BY <2>1, ElementOfSeq
      <3> QED
        BY <2>3, <3>2, <3>3, RolloutAssumption DEF Token, RolloutAssumption
    <2>6. versions \subseteq Nat
      BY <2>5
    <2> HIDE DEF versions
    <2>7. Max(versions) = label[s]
      BY <2>4, <2>5, <2>6 DEF Max
    <2> QED
      BY <2>7 DEF versions
  <1> QED
    BY Inductive, <1>1, PTL

-----------------------------------------------------------------------------
(* Refinement of TokenStream.                                               *)

\* What the steps below say of one response: its text and whether it has ended.
Same(r) ==
    /\ Text(r)' = Text(r)
    /\ (call[r].finished \/ ~Unfinished(r))' <=> (call[r].finished \/ ~Unfinished(r))

\* When no response changes, nothing is seen of the step.
LEMMA StreamStutters ==
    ASSUME \A r \in Responses : Same(r), UNCHANGED weights
    PROVE  UNCHANGED Stream!stream
  <1>1. Complete' = Complete
    BY DEF Complete, Same
  <1>2. [r \in Responses |-> Text(r)]' = [r \in Responses |-> Text(r)]
    BY DEF Same
  <1> QED
    BY <1>1, <1>2 DEF Stream!stream

\* A response whose call and output stay has the same text.
LEMMA SameText ==
    ASSUME NEW r \in Responses, output'[r] = output[r],
           call'[r].got = call[r].got, call'[r].finished = call[r].finished
    PROVE  Same(r)
  BY DEF Same, Text, Before, Unfinished

\* A prompt's part of the response and the tokens of a call are tokens.
LEMMA TextTypes ==
    ASSUME TypeOK, NEW r \in Responses
    PROVE  /\ Before(r) \in Seq(Token) /\ call[r].got \in Seq(Token)
           /\ Before(r) \o call[r].got \in Seq(Token)
           /\ Len(Before(r) \o call[r].got) = Len(Before(r)) + Len(call[r].got)
  <1>1. call[r].got \in Seq(Token)
    BY DEF TypeOK, Calls, Tokens
  <1>2. Before(r) \in Seq(Token)
    BY EmptySeq DEF TypeOK, Outputs, Tokens, Before
  <1> QED
    BY <1>1, <1>2, ConcatProperties

\* A task starts with calls that have brought nothing.
LEMMA StartStutters ==
    ASSUME IndInv, NEW s \in Samples, StartTask(s)
    PROVE  UNCHANGED Stream!stream
  <1>1. TypeOK /\ CallInv
    BY DEF IndInv
  <1>2. output' = output /\ weights' = weights
    BY DEF StartTask, servers
  <1>3. ASSUME NEW r \in Responses
        PROVE  Same(r)
    <2>1. CASE r \in Own(s) /\ Unfinished(r)
      <3>1. r[1] = s /\ place[s] # "running"
        BY <2>1, OwnResponses DEF StartTask
      <3>2. call[r] = NoCall
        BY <1>1, <3>1 DEF CallInv
      <3>3. call'[r].got = <<>> /\ ~call'[r].finished
        BY <1>1, <2>1, StartEffect
      <3>4. call'[r] \in Calls
        BY <1>1, StartEffect
      <3>5. call'[r].finished = FALSE
        BY <3>3, <3>4 DEF Calls
      <3>6. call[r].got = <<>> /\ call[r].finished = FALSE
        BY <3>2 DEF NoCall
      <3>7. call'[r].got = call[r].got /\ call'[r].finished = call[r].finished
        BY <3>3, <3>5, <3>6
      <3> QED
        BY <1>2, <3>7, SameText
    <2>2. CASE ~(r \in Own(s) /\ Unfinished(r))
      BY <1>1, <1>2, <2>2, StartEffect, SameText
    <2> QED
      BY <2>1, <2>2
  <1> QED
    BY <1>2, <1>3, StreamStutters

\* The end of a task moves what its calls have brought to the outputs: nothing is
\* lost, repeated or reordered (PartialSingleTurnAgentLoop.run).
LEMMA EndStutters ==
    ASSUME IndInv, NEW s \in Samples, EndTask(s)
    PROVE  UNCHANGED Stream!stream
  <1>1. TypeOK /\ CallInv
    BY DEF IndInv
  <1>2. weights' = weights /\ started[s] \in 0..MaxVersion
    BY <1>1 DEF EndTask, servers, TypeOK
  <1>3. ASSUME NEW r \in Responses
        PROVE  Same(r)
    <2>1. CASE r \notin Own(s)
      BY <1>1, <2>1, EndEffect, SameText
    <2>2. CASE r \in Own(s) /\ call[r].at = "none"
      <3>1. call[r] = NoCall
        BY <1>1, <2>2 DEF CallInv
      <3>2. call'[r] = NoCall /\ output'[r] = output[r]
        BY <1>1, <2>2, EndEffect
      <3> QED
        BY <3>1, <3>2, SameText
    <2>3. CASE r \in Own(s) /\ call[r].at = "answered"
      <3> DEFINE seen == Before(r) \o call[r].got
      <3>1. Unfinished(r) /\ call[r].finished \in BOOLEAN
        BY <1>1, <2>3 DEF CallInv, TypeOK, Calls
      <3>2. call'[r] = NoCall /\ output'[r] = Extended(r, started[s])
        BY <1>1, <2>3, EndEffect
      <3>3. Extended(r, started[s]) \in Outputs
        BY <1>1, <1>2, ExtendedType
      <3>4. output'[r] # Nothing
        BY <3>2, <3>3, NothingAssumption DEF NothingAssumption
      <3>5. output'[r].cancelled = ~call[r].finished /\ output'[r].tokens = Cut(seen)
        <4>1. call[r].got \in Seq(Token)
          BY <1>1, TextTypes
        <4>2. seen = IF output[r] = Nothing THEN call[r].got
                                            ELSE output[r].tokens \o call[r].got
          BY <4>1, ConcatEmptySeq DEF Before
        <4> HIDE DEF seen
        <4>3. Extended(r, started[s]).tokens = Cut(seen)
          BY <4>2 DEF Extended
        <4>4. Extended(r, started[s]).cancelled = ~call[r].finished
          BY DEF Extended
        <4> QED
          BY <3>2, <4>3, <4>4
      <3>6. seen \in Seq(Token) /\ Cut(seen) \in Seq(Token)
        BY <1>1, TextTypes, CutProperties
      <3>7. Text(r)' = Cut(Cut(seen) \o <<>>)
        BY <3>2, <3>4, <3>5, CallTypes DEF Text, Before
      <3>8. Text(r) = Cut(seen)
        BY DEF Text
      <3> HIDE DEF seen
      <3>9. Cut(Cut(seen) \o <<>>) = Cut(seen)
        BY <3>6, CutOfCut, EmptySeq, ConcatEmptySeq
      <3>10. (call[r].finished \/ ~Unfinished(r))' <=> call[r].finished
        BY <3>1, <3>2, <3>4, <3>5, CallTypes DEF Unfinished
      <3> QED
        BY <3>1, <3>7, <3>8, <3>9, <3>10 DEF Same
    <2> QED
      BY <2>1, <2>2, <2>3 DEF EndTask
  <1> QED
    BY <1>2, <1>3, StreamStutters

\* The next token of an engine is the next token of the text, whatever came before it
\* in earlier calls (_generate_step).
LEMMA EmitExtends ==
    ASSUME IndInv, NEW r \in Responses, Emit(r)
    PROVE  Stream!Extend(r)
  <1>1. TypeOK /\ CallInv
    BY DEF IndInv
  <1>2. Unfinished(r) /\ ~call[r].finished
    BY <1>1 DEF Emit, CallInv
  <1>3. UNCHANGED <<output, weights>>
    BY DEF Emit, tasks, servers
  <1>4. PICK token : token = [pos |-> Len(Before(r)) + Len(call[r].got) + 1,
                              version |-> weights]
    OBVIOUS
  <1>5. PICK seen : seen = Before(r) \o call[r].got
    OBVIOUS
  <1>6. /\ token \in Token /\ seen \in Seq(Token)
        /\ Before(r) \in Seq(Token) /\ call[r].got \in Seq(Token)
        /\ token.pos = Len(seen) + 1 /\ token.version = weights
    BY <1>1, <1>4, <1>5, EmittedType, TextTypes
  <1>7. call[r] \in Calls /\ call \in [Responses -> Calls]
    BY <1>1 DEF TypeOK
  <1>8. PICK finished \in BOOLEAN :
          call' = [call EXCEPT ![r].got = Append(call[r].got, token), ![r].finished = finished]
    BY <1>4 DEF Emit
  <1>9. /\ call'[r].got = Append(call[r].got, token) /\ call'[r].finished = finished
        /\ \A q \in Responses \ {r} : call'[q] = call[q]
    BY <1>7, <1>8 DEF Calls
  <1>10. \A q \in Responses \ {r} : Same(q)
    BY <1>3, <1>9, SameText
  <1>11. Before(r)' = Before(r) /\ (Unfinished(r)' <=> Unfinished(r))
    BY <1>3 DEF Before, Unfinished
  <1>12. Text(r) = Cut(seen)
    BY <1>5 DEF Text
  <1>13. Text(r)' = Cut(Append(seen, token))
    <2>1. Text(r)' = Cut(Before(r) \o Append(call[r].got, token))
      BY <1>9, <1>11 DEF Text
    <2>2. Before(r) \o Append(call[r].got, token) = Append(seen, token)
      <3>1. PICK before, got : before = Before(r) /\ got = call[r].got
        OBVIOUS
      <3>2. before \in Seq(Token) /\ got \in Seq(Token) /\ token \in Token
        BY <1>6, <3>1
      <3>3. before \o Append(got, token) = Append(before \o got, token)
        BY <3>2, AppendOfConcat
      <3> QED
        BY <1>5, <3>1, <3>3
    <2> QED
      BY <2>1, <2>2
  <1>14. Text(r)' = IF Len(Text(r)) < ResponseLength THEN Append(Text(r), token) ELSE Text(r)
    BY <1>6, <1>12, <1>13, CutOfAppend
  <1>15. Len(Text(r)) < ResponseLength =>
           token = [pos |-> Len(Text(r)) + 1, version |-> weights]
    <2>1. Len(seen) \in Nat /\ ResponseLength \in Nat
      BY <1>6, LenProperties, RolloutAssumption DEF RolloutAssumption
    <2>2. Len(Cut(seen)) = IF Len(seen) < ResponseLength THEN Len(seen) ELSE ResponseLength
      BY <1>6, CutProperties
    <2>3. Len(Text(r)) < ResponseLength => Len(Text(r)) = Len(seen)
      BY <1>12, <2>1, <2>2
    <2>4. token = [pos |-> Len(seen) + 1, version |-> weights]
      BY <1>4, <1>6
    <2> QED
      BY <2>3, <2>4
  <1>16. [q \in Responses |-> Text(q)]' =
           [[q \in Responses |-> Text(q)] EXCEPT ![r] =
              IF Len(@) < ResponseLength
              THEN Append(@, [pos |-> Len(Text(r)) + 1, version |-> weights]) ELSE @]
    BY <1>10, <1>14, <1>15 DEF Same
  <1>17. r \notin Complete
    BY <1>2 DEF Complete
  <1>18. Complete' \in {Complete, Complete \union {r}}
    <2>1. \A q \in Responses \ {r} : q \in Complete' <=> q \in Complete
      BY <1>10 DEF Same, Complete
    <2>2. Complete \subseteq Responses /\ Complete' \subseteq Responses
      BY DEF Complete
    <2>3. CASE r \in Complete'
      BY <2>1, <2>2, <2>3
    <2>4. CASE r \notin Complete'
      BY <1>17, <2>1, <2>2, <2>4
    <2> QED
      BY <2>3, <2>4
  <1> QED
    BY <1>3, <1>16, <1>17, <1>18 DEF Stream!Extend

\* Every step is a step of the stream or does not show.
LEMMA StreamStep ==
    ASSUME IndInv, [Next]_vars
    PROVE  [Stream!StreamNext]_(Stream!stream)
  <1>1. TypeOK /\ CallInv /\ PhaseInv
    BY DEF IndInv
  <1>2. ASSUME UNCHANGED <<output, weights>>,
               \A r \in Responses :
                 call'[r].got = call[r].got /\ call'[r].finished = call[r].finished
        PROVE  UNCHANGED Stream!stream
    BY <1>2, SameText, StreamStutters
  <1>3. CASE \E s \in Samples : StartTask(s)
    BY <1>3, StartStutters
  <1>4. CASE \E s \in Samples : EndTask(s)
    BY <1>4, EndStutters
  <1>5. CASE \E r \in Responses : Generate(r)
    <2>1. PICK r \in Responses : Generate(r)
      BY <1>5
    <2>2. CASE Emit(r)
      BY <2>2, EmitExtends DEF Stream!StreamNext
    <2>3. CASE Accept(r) \/ Return(r)
      <3>1. call[r] \in Calls
        BY <1>1 DEF TypeOK
      <3>2. UNCHANGED <<output, weights>> /\ \A q \in Responses \ {r} : call'[q] = call[q]
        BY <1>1, <2>1, GenerateEffect DEF tasks
      <3>3. call'[r] = Answered(call[r]) \/ call'[r] = [call[r] EXCEPT !.at = "generating"]
        BY <1>1, <2>3 DEF TypeOK, Accept, Return
      <3>4. call'[r].got = call[r].got /\ call'[r].finished = call[r].finished
        BY <3>1, <3>3 DEF Answered, Calls
      <3> QED
        BY <1>2, <3>2, <3>4
    <2> QED
      BY <2>1, <2>2, <2>3 DEF Generate
  <1>6. CASE \E v \in Servers : CancelServer(v)
    <2>1. PICK v \in Servers : CancelServer(v)
      BY <1>6
    <2> QED
      BY <1>1, <1>2, <2>1, CancelEffect DEF CancelServer, tasks
  <1>7. CASE SyncWeights
    <2>1. weights' = weights + 1 /\ UNCHANGED <<output, call>>
      BY <1>1, <1>7 DEF SyncWeights, PhaseInv, tasks
    <2>2. \A r \in Responses : Same(r)
      BY <2>1, SameText
    <2>3. Complete' = Complete /\ [r \in Responses |-> Text(r)]' = [r \in Responses |-> Text(r)]
      BY <2>2 DEF Same, Complete
    <2> QED
      BY <2>1, <2>3 DEF Stream!StreamNext, Stream!Publish
  <1>8. CASE UNCHANGED <<output, call, weights>>
    BY <1>2, <1>8
  <1> QED
    BY <1>3, <1>4, <1>5, <1>6, <1>7, <1>8
    DEF Next, Synchronize, BeginPause, EndPause, UpdateVersion, BeginResume, ResumeServer,
        EndResume, MonitorWaits, MonitorUnpause, Terminated, vars, tasks, servers

\* Whatever interrupts it, a response is one stream of tokens: partial rollout implements
\* TokenStream (generate_for_partial and PartialSingleTurnAgentLoop.run).
THEOREM ResponseIsOneStream == Spec => ImplementsStream
  <1>1. Init => Stream!StreamInit
    <2> SUFFICES ASSUME Init
                 PROVE  Stream!StreamInit
      OBVIOUS
    <2>1. \A r \in Responses : call[r] = NoCall /\ output[r] = Nothing
      BY DEF Init
    <2>2. \A r \in Responses : Text(r) = <<>> /\ r \notin Complete
      <3>1. ASSUME NEW r \in Responses
            PROVE  Text(r) = <<>> /\ r \notin Complete
        <4>1. Before(r) = <<>> /\ call[r].got = <<>> /\ ~call[r].finished /\ Unfinished(r)
          BY <2>1, CallTypes DEF Before, Unfinished
        <4>2. <<>> \in Seq(Token) /\ <<>> \o <<>> = <<>> /\ Len(<<>>) <= ResponseLength
          BY EmptySeq, ConcatEmptySeq, RolloutAssumption DEF RolloutAssumption
        <4> QED
          BY <4>1, <4>2, CutShort DEF Text, Complete
      <3> QED
        BY <3>1
    <2>3. Complete = {}
      BY <2>2 DEF Complete
    <2> QED
      BY <2>2, <2>3 DEF Init, Stream!StreamInit
  <1>2. IndInv /\ [Next]_vars => [Stream!StreamNext]_(Stream!stream)
    BY StreamStep
  <1> QED
    BY <1>1, <1>2, Inductive, PTL DEF Spec, ImplementsStream, Stream!StreamSpec

-----------------------------------------------------------------------------
(* The requests that servers never remove from cancel_event.                *)

Sent == {r \in Responses : call[r].at = "sent"}
Remembering == Sum(entries, Servers)
Allowed == Rounds * Cardinality(Responses)

\* A request is told to stop only while the pause goes on.  Until it is over,
\* every request that a server may still forget in this round is accounted for
\* by one that has not been forgotten in it.
MemoryInv ==
    /\ \A r \in Responses : call[r].event => call[r].at = "generating" /\ phase = "pausing"
    /\ IF phase = "pausing" THEN Remembering + Cardinality(Sent) <= Allowed
                            ELSE Remembering <= Cardinality(Generating) + Allowed

\* Sets of responses have a size.
LEMMA ResponsesFinite ==
    ASSUME NEW R \in SUBSET Responses
    PROVE  IsFiniteSet(R) /\ Cardinality(R) \in Nat
  <1>1. IsFiniteSet(Samples) /\ N \in Nat
    BY RolloutAssumption DEF RolloutAssumption
  <1>2. IsFiniteSet(1..N)
    BY <1>1, FS_Interval
  <1>3. IsFiniteSet(Responses)
    BY <1>1, <1>2, FS_Product DEF Responses
  <1>4. IsFiniteSet(R)
    BY <1>3, FS_Subset
  <1> QED
    BY <1>4, FS_CardinalityType

\* What was sent and what is being generated are different responses.
LEMMA SentOrGenerating == Cardinality(Sent) + Cardinality(Generating) <= Cardinality(Responses)
  <1>1. /\ Sent \in SUBSET Responses /\ Generating \in SUBSET Responses
        /\ Sent \union Generating \in SUBSET Responses
        /\ Sent \intersect Generating = {}
    BY DEF Sent, Generating
  <1>2. /\ IsFiniteSet(Sent) /\ IsFiniteSet(Generating) /\ IsFiniteSet(Responses)
        /\ {Cardinality(Sent), Cardinality(Generating), Cardinality(Responses)} \subseteq Nat
    BY <1>1, ResponsesFinite
  <1>3. Cardinality(Sent \union Generating) = Cardinality(Sent) + Cardinality(Generating) - 0
    BY <1>1, <1>2, FS_Union, FS_EmptySet
  <1>4. Cardinality(Sent \union Generating) <= Cardinality(Responses)
    BY <1>1, <1>2, FS_Subset
  <1> QED
    BY <1>2, <1>3, <1>4

\* What the account consists of are numbers.
MemoryTyped ==
    /\ Remembering \in Nat /\ Allowed \in Nat /\ Rounds \in Nat
    /\ Cardinality(Sent) \in Nat /\ Cardinality(Generating) \in Nat

LEMMA MemoryType == IndInv => MemoryTyped
  <1> SUFFICES ASSUME IndInv
               PROVE  MemoryTyped
    OBVIOUS
  <1>1. IsFiniteSet(Servers) /\ MaxVersion \in Nat
    BY RolloutAssumption DEF RolloutAssumption
  <1>2. entries \in [Servers -> Nat] /\ version \in Nat
    BY <1>1 DEF IndInv, TypeOK
  <1>3. Remembering \in Nat
    BY <1>1, <1>2, SumNat DEF Remembering
  <1>4. Rounds \in Nat
    BY <1>2 DEF Rounds
  <1>5. Allowed \in Nat
    BY <1>4, ResponsesFinite DEF Allowed
  <1>6. Sent \in SUBSET Responses /\ Generating \in SUBSET Responses
    BY DEF Sent, Generating
  <1> QED
    BY <1>3, <1>4, <1>5, <1>6, ResponsesFinite DEF MemoryTyped

LEMMA MemoryTypeNext == IndInv' => MemoryTyped'
  BY MemoryType, PTL

LEMMA MemoryTypes ==
    ASSUME IndInv, IndInv'
    PROVE  /\ {Remembering, Remembering', Allowed, Allowed', Rounds, Cardinality(Responses)} \subseteq Nat
           /\ {Cardinality(Sent), Cardinality(Sent')} \subseteq Nat
           /\ {Cardinality(Generating), Cardinality(Generating')} \subseteq Nat
  <1>1. MemoryTyped /\ MemoryTyped'
    BY MemoryType, MemoryTypeNext
  <1>2. Cardinality(Responses) \in Nat
    BY ResponsesFinite
  <1> QED
    BY <1>1, <1>2 DEF MemoryTyped

\* What one entry more or less does to the sum.
LEMMA OneEntry ==
    ASSUME IndInv, IndInv', NEW v \in Servers, NEW n \in Nat,
           entries' = [entries EXCEPT ![v] = n]
    PROVE  Remembering' = (Remembering - entries[v]) + n
  <1>1. IsFiniteSet(Servers)
    BY RolloutAssumption DEF RolloutAssumption
  <1>2. entries \in [Servers -> Nat] /\ entries' \in [Servers -> Nat]
    BY DEF IndInv, TypeOK
  <1>3. entries'[v] = n /\ \A w \in Servers \ {v} : entries'[w] = entries[w]
    BY <1>2
  <1>4. Sum(entries', Servers) = (Sum(entries, Servers) - entries[v]) + entries'[v]
    BY ONLY <1>1, <1>2, <1>3, v \in Servers, SumChanges
  <1>5. Remembering' = Sum(entries', Servers)
    BY DEF Remembering
  <1> QED
    BY <1>3, <1>4, <1>5 DEF Remembering

\* The servers' steps: a request enters cancel_event when it goes from sent to
\* generating, and leaves it with its answer unless it is told to stop before
\* it has brought a token.
LEMMA MemoryOfServer ==
    ASSUME IndInv, IndInv', MemoryInv, NEW r \in Responses, Generate(r)
    PROVE  MemoryInv'
  <1>1. TypeOK /\ call[r] \in Calls /\ call'[r] \in Calls
    BY GenerateEffect DEF IndInv, TypeOK
  <1>2. /\ \A q \in Responses \ {r} : call'[q] = call[q]
        /\ phase' = phase /\ version' = version
    BY <1>1, GenerateEffect DEF sync
  <1>3. Rounds' = Rounds /\ Allowed' = Allowed
    BY <1>2 DEF Rounds, Allowed
  <1>4. Sent \in SUBSET Responses /\ Generating \in SUBSET Responses
    BY DEF Sent, Generating
  <1>5. IsFiniteSet(Sent) /\ IsFiniteSet(Generating)
    BY <1>4, ResponsesFinite
  <1>6. ASSUME call'[r].event => call'[r].at = "generating" /\ phase = "pausing"
        PROVE  \A q \in Responses : call'[q].event => call'[q].at = "generating" /\ phase' = "pausing"
    BY <1>2, <1>6 DEF MemoryInv
  <1>7. ASSUME call[r].at = "sent", call'[r] = Answered(call[r]), entries' = entries
        PROVE  MemoryInv'
    <2>1. call'[r].at = "answered" /\ ~call'[r].event
      BY <1>1, <1>7 DEF Answered, Calls
    <2>2. Sent' = Sent \ {r} /\ r \in Sent /\ Generating' = Generating
      BY <1>2, <1>7, <2>1 DEF Sent, Generating
    <2>3. Cardinality(Sent') = Cardinality(Sent) - 1 /\ Cardinality(Generating') = Cardinality(Generating)
      BY <1>5, <2>2, FS_RemoveElement
    <2>4. Remembering' = Remembering
      BY <1>7 DEF Remembering
    <2> QED
      BY <1>2, <1>3, <1>6, <2>1, <2>3, <2>4, MemoryTypes DEF MemoryInv
  <1>8. ASSUME call[r].at = "sent", call'[r] = [call[r] EXCEPT !.at = "generating"],
               entries' = [entries EXCEPT ![call[r].server] = @ + 1]
        PROVE  MemoryInv'
    <2>1. call'[r].at = "generating" /\ call'[r].event = call[r].event /\ call[r].server \in Servers
      BY <1>1, <1>8 DEF Calls, IndInv, CallInv
    <2>2. Sent' = Sent \ {r} /\ r \in Sent /\ Generating' = Generating \union {r} /\ r \notin Generating
      BY <1>2, <1>8, <2>1 DEF Sent, Generating
    <2>3. /\ Cardinality(Sent') = Cardinality(Sent) - 1
          /\ Cardinality(Generating') = Cardinality(Generating) + 1
      BY <1>5, <2>2, FS_RemoveElement, FS_AddElement
    <2>4. Remembering' = Remembering + 1
      <3>1. entries[call[r].server] \in Nat
        BY <1>1, <2>1 DEF TypeOK
      <3>2. /\ entries[call[r].server] + 1 \in Nat
            /\ entries' = [entries EXCEPT ![call[r].server] = entries[call[r].server] + 1]
        BY <1>8, <3>1
      <3>3. Remembering' = (Remembering - entries[call[r].server]) + (entries[call[r].server] + 1)
        BY <2>1, <3>2, OneEntry
      <3> QED
        BY <3>1, <3>3, MemoryTypes
    <2>5. ~call'[r].event
      BY <1>8, <2>1 DEF MemoryInv
    <2> QED
      BY <1>2, <1>3, <1>6, <2>3, <2>4, <2>5, MemoryTypes DEF MemoryInv
  <1>9. ASSUME Emit(r), call[r].at = "generating", entries' = entries,
               call'[r].at = "generating", call'[r].event = call[r].event
        PROVE  MemoryInv'
    <2>1. Sent' = Sent /\ Generating' = Generating
      BY <1>2, <1>9 DEF Sent, Generating
    <2>2. Remembering' = Remembering
      BY <1>9 DEF Remembering
    <2> QED
      BY <1>2, <1>3, <1>6, <1>9, <2>1, <2>2 DEF MemoryInv
  <1>10. ASSUME call[r].at = "generating", call[r].finished \/ call[r].event,
                call'[r] = Answered(call[r]),
                entries' = IF Remembered(r) THEN entries
                           ELSE [entries EXCEPT ![call[r].server] = @ - 1]
         PROVE  MemoryInv'
    <2>1. call'[r].at = "answered" /\ ~call'[r].event /\ call[r].server \in Servers
      BY <1>1, <1>10 DEF Answered, Calls, IndInv, CallInv
    <2>2. Sent' = Sent /\ Generating' = Generating \ {r} /\ r \in Generating
      BY <1>2, <1>10, <2>1 DEF Sent, Generating
    <2>3. Cardinality(Sent') = Cardinality(Sent) /\ Cardinality(Generating') = Cardinality(Generating) - 1
      BY <1>5, <2>2, FS_RemoveElement
    <2>4. CASE Remembered(r)
      <3>1. Remembering' = Remembering
        BY <1>10, <2>4 DEF Remembering
      <3>2. phase = "pausing"
        BY <1>10, <2>4 DEF Remembered, IndInv, CallInv, MemoryInv
      <3> QED
        BY <1>2, <1>3, <1>6, <2>1, <2>3, <3>1, <3>2, MemoryTypes DEF MemoryInv
    <2>5. CASE ~Remembered(r)
      <3>1. entries[call[r].server] \in Nat /\ entries' = [entries EXCEPT ![call[r].server] = entries[call[r].server] - 1]
        BY <1>1, <1>10, <2>1, <2>5 DEF TypeOK
      <3>2. entries[call[r].server] - 1 \in Nat
        <4>1. entries'[call[r].server] = entries[call[r].server] - 1
          BY <1>1, <2>1, <3>1 DEF TypeOK
        <4> QED
          BY <2>1, <4>1 DEF IndInv, TypeOK
      <3>3. Remembering' = (Remembering - entries[call[r].server]) + (entries[call[r].server] - 1)
        BY <2>1, <3>1, <3>2, OneEntry
      <3>4. Remembering' = Remembering - 1
        BY <3>1, <3>3, MemoryTypes
      <3> QED
        BY <1>2, <1>3, <1>6, <2>1, <2>3, <3>4, MemoryTypes DEF MemoryInv
    <2> QED
      BY <2>4, <2>5
  <1>11. ASSUME Emit(r)  PROVE  call'[r].at = "generating" /\ call'[r].event = call[r].event
    BY <1>1, <1>11 DEF Emit, TypeOK, Calls
  <1> QED
    BY <1>1, <1>7, <1>8, <1>9, <1>10, <1>11, GenerateEffect

\* A new round begins with the pause and allows every response one request more.
LEMMA MemoryOfPause ==
    ASSUME IndInv, IndInv', MemoryInv, BeginPause
    PROVE  MemoryInv'
  <1>1. /\ phase = "run" /\ phase' = "pausing"
        /\ UNCHANGED <<call, entries, version>>
    BY DEF BeginPause, servers
  <1>2. Sent' = Sent /\ Generating' = Generating /\ Remembering' = Remembering
    BY <1>1 DEF Sent, Generating, Remembering
  <1>3. Rounds' = Rounds + 1
    BY <1>1, RolloutAssumption DEF Rounds, RolloutAssumption, IndInv, TypeOK
  <1>4. Allowed' = Allowed + Cardinality(Responses)
    <2>1. Rounds \in Nat /\ Cardinality(Responses) \in Nat
      BY MemoryTypes
    <2>2. \A m, n \in Nat : (m + 1) * n = m * n + n
      OBVIOUS
    <2> QED
      BY <1>3, <2>1, <2>2 DEF Allowed
  <1>5. Remembering <= Cardinality(Generating) + Allowed
    BY <1>1 DEF MemoryInv
  <1>6. Remembering' + Cardinality(Sent') <= Allowed'
    BY <1>2, <1>4, <1>5, MemoryTypes, SentOrGenerating
  <1> QED
    BY <1>1, <1>6 DEF MemoryInv

LEMMA MemoryKept ==
    ASSUME IndInv, IndInv', MemoryInv, [Next]_vars
    PROVE  MemoryInv'
  <1>1. TypeOK
    BY DEF IndInv
  <1>2. ASSUME UNCHANGED <<call, entries>>, Rounds' = Rounds, phase' = phase \/ {phase, phase'} \subseteq {"run", "paused", "synced", "updated", "resuming"}
        PROVE  MemoryInv'
    <2>1. Sent' = Sent /\ Generating' = Generating /\ Remembering' = Remembering /\ Allowed' = Allowed
      BY <1>2 DEF Sent, Generating, Remembering, Allowed
    <2> QED
      BY <1>2, <2>1 DEF MemoryInv
  <1>3. ASSUME NEW s \in Samples, StartTask(s)  PROVE  MemoryInv'
    <2>1. \A r \in Own(s) : call[r].at = "none"
      BY <1>3, OwnResponses DEF StartTask, IndInv, CallInv
    <2>2. /\ phase # "pausing" /\ phase' = phase /\ version' = version /\ entries' = entries
      BY <1>3 DEF StartTask, LockFree, sync, servers
    <2>3. Generating' = Generating
      BY <1>1, <1>3, <2>1, StartEffect DEF Generating
    <2>4. Remembering' = Remembering /\ Allowed' = Allowed
      BY <2>2 DEF Remembering, Allowed, Rounds
    <2>5. \A r \in Responses : ~call'[r].event
      BY <1>1, <1>3, <2>2, StartEffect DEF MemoryInv
    <2> QED
      BY <2>2, <2>3, <2>4, <2>5 DEF MemoryInv
  <1>4. ASSUME NEW s \in Samples, EndTask(s)  PROVE  MemoryInv'
    <2>1. phase' = phase /\ version' = version /\ entries' = entries
      BY <1>4 DEF EndTask, sync, servers
    <2>2. Sent' = Sent /\ Generating' = Generating
      BY <1>1, <1>4, EndEffect DEF Sent, Generating, EndTask, NoCall
    <2>3. Remembering' = Remembering /\ Allowed' = Allowed
      BY <2>1 DEF Remembering, Allowed, Rounds
    <2>4. \A r \in Responses : call'[r].event => call'[r] = call[r]
      BY <1>1, <1>4, EndEffect DEF NoCall
    <2> QED
      BY <2>1, <2>2, <2>3, <2>4 DEF MemoryInv
  <1>5. ASSUME NEW v \in Servers, CancelServer(v)  PROVE  MemoryInv'
    <2>1. phase = "pausing" /\ phase' = phase /\ version' = version /\ entries' = entries
      BY <1>5 DEF CancelServer, sync
    <2>2. Sent' = Sent
      BY <1>1, <1>5, CancelEffect DEF Sent
    <2>3. Remembering' = Remembering /\ Allowed' = Allowed
      BY <2>1 DEF Remembering, Allowed, Rounds
    <2>4. \A r \in Responses : call'[r].event => call'[r].at = "generating"
      <3>1. \A r \in Responses : call'[r] = IF call[r].at = "generating" /\ call[r].server = v
                                           THEN [call[r] EXCEPT !.event = TRUE] ELSE call[r]
        BY <1>5 DEF CancelServer
      <3>2. \A r \in Responses : call'[r].at = call[r].at
        BY <1>1, <1>5, CancelEffect
      <3> QED
        BY <3>1, <3>2 DEF MemoryInv
    <2> QED
      BY <2>1, <2>2, <2>3, <2>4 DEF MemoryInv
  <1>6. CASE EndPause
    <2>1. /\ phase = "pausing" /\ phase' = "paused" /\ UNCHANGED <<call, entries, version>>
          /\ \A s \in Samples : place[s] # "running"
      BY <1>6 DEF EndPause, servers
    <2>2. \A r \in Responses : ~call[r].event
      <3>1. \A r \in Responses : r[1] \in Samples
        BY DEF Responses
      <3>2. \A r \in Responses : call[r].at = "none" /\ call[r] = NoCall
        BY <2>1, <3>1 DEF IndInv, CallInv
      <3> QED
        BY <3>2 DEF NoCall
    <2>3. Sent' = Sent /\ Generating' = Generating /\ Remembering' = Remembering /\ Allowed' = Allowed
      BY <2>1 DEF Sent, Generating, Remembering, Allowed, Rounds
    <2>4. Remembering' <= Cardinality(Generating') + Allowed'
      BY <2>1, <2>3, MemoryTypes DEF MemoryInv
    <2> QED
      BY <2>1, <2>2, <2>4 DEF MemoryInv
  <1>7. CASE UpdateVersion
    <2>1. weights = version + 1 /\ version \in Nat
      BY <1>7, RolloutAssumption DEF UpdateVersion, IndInv, PhaseInv, TypeOK, RolloutAssumption
    <2>2. Rounds' = Rounds
      BY <1>7, <2>1 DEF UpdateVersion, Rounds
    <2> QED
      BY <1>2, <1>7, <2>2 DEF UpdateVersion, servers
  <1>8. CASE SyncWeights \/ BeginResume \/ EndResume
    BY <1>2, <1>8 DEF SyncWeights, BeginResume, EndResume, servers, Rounds
  <1>9. CASE MonitorWaits \/ MonitorUnpause \/ (\E v \in Servers : ResumeServer(v))
    BY <1>2, <1>9 DEF MonitorWaits, MonitorUnpause, ResumeServer, servers, sync, Rounds
  <1>10. CASE UNCHANGED vars
    BY <1>2, <1>10 DEF vars, servers, sync, Rounds
  <1> QED
    BY <1>3, <1>4, <1>5, <1>6, <1>7, <1>8, <1>9, <1>10, MemoryOfServer, MemoryOfPause
    DEF Next, Synchronize, Terminated

\* For every number of servers, responses and synchronizations: besides the requests
\* in flight the servers remember at most one for every response and synchronization
\* (cancel_event in vLLMHttpServerForPartial).
THEOREM LeakIsBounded == Spec => []ForgottenRequestsBounded
  <1>1. Init => MemoryInv
    <2> SUFFICES ASSUME Init  PROVE  MemoryInv
      OBVIOUS
    <2>1. /\ \A r \in Responses : call[r] = NoCall
          /\ entries = [v \in Servers |-> 0] /\ version = 0 /\ phase = "run"
      BY DEF Init
    <2>2. Remembering = 0
      BY <2>1, RolloutAssumption, SumOfZeros DEF Remembering, RolloutAssumption
    <2>3. Generating \in SUBSET Responses
      BY DEF Generating
    <2>4. Cardinality(Generating) \in Nat /\ Cardinality(Responses) \in Nat
      BY <2>3, ResponsesFinite
    <2>5. Allowed = 0
      BY <2>1, <2>4 DEF Allowed, Rounds
    <2>6. \A r \in Responses : ~call[r].event
      BY <2>1 DEF NoCall
    <2>7. Remembering <= Cardinality(Generating) + Allowed
      BY <2>2, <2>4, <2>5
    <2> QED
      BY <2>1, <2>6, <2>7 DEF MemoryInv
  <1>2. IndInv /\ IndInv' /\ MemoryInv /\ [Next]_vars => MemoryInv'
    BY MemoryKept
  <1>3. IndInv /\ MemoryInv => ForgottenRequestsBounded
    <2> SUFFICES ASSUME IndInv, MemoryInv  PROVE  ForgottenRequestsBounded
      OBVIOUS
    <2>1. Remembering <= Cardinality(Generating) + Allowed
      <3>1. MemoryTyped
        BY MemoryType
      <3> QED
        BY <3>1 DEF MemoryInv, MemoryTyped
    <2> QED
      BY <2>1 DEF ForgottenRequestsBounded, Remembering, Allowed, Sum
  <1> QED
    BY Inductive, <1>1, <1>2, <1>3, PTL DEF Spec

=============================================================================
