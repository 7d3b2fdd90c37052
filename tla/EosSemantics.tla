---------------------------- MODULE EosSemantics -----------------------------
(***************************************************************************)
(* Which tokens end a response.  The launcher writes the decision of       *)
(* scripts/run_semantics.py beside the checkpoints; the trainer gets it as *)
(* options, the evaluation of the checkpoints reads the file.              *)
(*                                                                         *)
(* A run c is a record: mode, the EOS tokens of the student and of the     *)
(* teacher (sequences, the primary one first), the semantic tokens the     *)
(* user asked for (<<>> when they are to be derived), and the tokenizer's  *)
(* pad token.  The launcher gives no additional EOS tokens of its own.     *)
(***************************************************************************)
EXTENDS Integers, Sequences, FiniteSets, SequencesExt

Modes == {"baseline", "two_stop", "teacher_map", "semantic_class", "canonical"}

\* normalize_token_ids: the first occurrence of every token, in order.
Normalized(tokens) ==
    LET seen[i \in 0 .. Len(tokens)] ==
            IF i = 0 THEN <<>>
            ELSE IF Contains(seen[i - 1], tokens[i]) THEN seen[i - 1] ELSE Append(seen[i - 1], tokens[i])
    IN  seen[Len(tokens)]

Student(c) == Normalized(c.student)

Semantic(c) ==
    IF c.asked # <<>> THEN Normalized(c.asked) ELSE Normalized(Student(c) \o c.teacher)

Pairwise(c) == c.mode \in {"teacher_map", "canonical"}
ManyStops(c) == c.mode \in {"two_stop", "semantic_class"}

\* What build_run_semantics refuses: the launcher stops.
Accepted(c) ==
    /\ Student(c) # <<>>
    /\ c.mode \in Modes
    /\ Pairwise(c) => Len(Student(c)) = 1 /\ Len(Semantic(c)) = 2
    /\ Student(c)[1] = Semantic(c)[1]

\* The fields of run_semantics.json that the trainer and the evaluation read.
Additional(c) ==
    IF ManyStops(c) THEN ToSet(Semantic(c)) \ ToSet(Student(c)) ELSE {}

RolloutStop(c) ==
    CASE ManyStops(c)          -> ToSet(Semantic(c))
      [] c.mode = "baseline"   -> ToSet(Student(c))
      [] OTHER                 -> {Semantic(c)[1]}

BlockedIds(c) == IF c.mode = "canonical" THEN {Semantic(c)[2]} ELSE {}

-----------------------------------------------------------------------------
(* Training: the sampling parameters of vLLMRollout, and the mask of the    *)
(* tokens it takes for generated.                                           *)

\* resolve_eos_sampling_overrides, as __init__ applies it.
StopParameter(c) ==
    CASE ManyStops(c) -> ToSet(Semantic(c))
      [] Pairwise(c)  -> {Semantic(c)[1]}
      [] OTHER        -> IF Additional(c) = {} THEN {} ELSE ToSet(Student(c)) \union Additional(c)

BadWords(c) == IF c.mode = "canonical" THEN {Semantic(c)[2]} ELSE {}

\* vLLM also stops at the EOS tokens of the model it was started with, which
\* are the student's.
TrainStops(c) == StopParameter(c) \union ToSet(Student(c))

\* A variant the runs must reject: the primary token only.
MaskTokensPrimary(c) ==
    IF ManyStops(c) THEN ToSet(Semantic(c)) ELSE {Student(c)[1]}

\* The tokens generate_sequences hands to get_response_mask; in baseline they
\* come from the worker's generation config.
MaskTokens(c) ==
    CASE ManyStops(c) -> ToSet(Semantic(c))
      [] Pairwise(c)  -> {Semantic(c)[1]}
      [] OTHER        -> ToSet(Student(c)) \union Additional(c)

\* get_response_mask: up to the first such token, that one included.
ResponseMask(tokens, eos) ==
    [i \in DOMAIN tokens |-> \A j \in 1 .. i - 1 : tokens[j] \notin eos]

\* _forward_micro_batch and student_policy_log_probs of the actor refuse a
\* micro-batch that holds the blocked token, in the padding too.
Refused(c, tokens) == c.mode = "canonical" /\ Contains(tokens, Semantic(c)[2])

-----------------------------------------------------------------------------
(* Evaluation: what opd_eval_curve.py gives vLLM for a checkpoint, whose    *)
(* generation config names the tokens in saved.                             *)
EvalStops(c, saved) == RolloutStop(c) \union saved
\* A variant the runs must reject: the evaluation does not read the blocked tokens.
EvalBadWordsNone(c) == {}

EvalBadWords(c) == BlockedIds(c)
=============================================================================
