--------------------------- MODULE MCTrainingStep ---------------------------
(* Instance of TrainingStep for TLC: a student and a teacher with the same *)
(* or with different EOS tokens, tokens the user asked for that do or do   *)
(* not contain the student's, and a tokenizer that pads with either.       *)
EXTENDS TrainingStep

MCGroupSize == [m \in Meshes |-> IF m \in {"rollout", "teacher"} THEN 2 ELSE 1]
MCMaxTokenLen == [c \in Calls |-> IF c = "teacher" THEN 5 ELSE 4]
MCRuns ==
    {c \in [mode : Modes, student : {<<"a">>, <<"a", "b">>}, teacher : {<<"a">>, <<"b">>},
            asked : {<<>>, <<"a", "c">>}, pad : {"a", "b"}] :
        /\ c.asked = <<>> \/ c.teacher = <<"a">>    \* read only if nothing is asked for
        /\ c.mode = "canonical" \/ c.pad = "a"}
=============================================================================
