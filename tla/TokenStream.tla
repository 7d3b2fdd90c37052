----------------------------- MODULE TokenStream -----------------------------
(***************************************************************************)
(* What partial rollout promises: the text of a response is one stream,    *)
(* extended token by token under the weights of the moment until the       *)
(* model ends it, as if nothing ever interrupted it.                       *)
(***************************************************************************)
EXTENDS Naturals, Sequences

CONSTANTS
    Responses,
    ResponseLength      \* a longer text is cut to this many tokens

VARIABLES
    text,       \* for every response, its tokens: position and version
    complete,   \* the responses that have ended
    weights     \* the version of the weights

stream == <<text, complete, weights>>

StreamInit ==
    /\ text = [r \in Responses |-> <<>>]
    /\ complete = {}
    /\ weights = 0

\* One token, or one beyond the cut, which leaves no trace.
Extend(r) ==
    /\ r \notin complete
    /\ LET token == [pos |-> Len(text[r]) + 1, version |-> weights]
       IN  text' = [text EXCEPT ![r] = IF Len(@) < ResponseLength
                                       THEN Append(@, token) ELSE @]
    /\ complete' \in {complete, complete \union {r}}
    /\ UNCHANGED weights

Publish ==
    /\ weights' = weights + 1
    /\ UNCHANGED <<text, complete>>

StreamNext == Publish \/ \E r \in Responses : Extend(r)
StreamSpec == StreamInit /\ [][StreamNext]_stream
=============================================================================
