------------------------------ MODULE LocalModel ------------------------------
(***************************************************************************)
(* The assistant's provider when it is LM Studio on the same machine: each *)
(* question first makes the server run and the model loaded (ensure_ready, *)
(* commands of the lms tool with timeouts), posts the chat, and once more  *)
(* after a 503.  Questions of the client's worker threads and of the       *)
(* launcher's commands share one LM Studio, which may unload the model or  *)
(* stop at any time.                                                       *)
(***************************************************************************)
EXTENDS Naturals

CONSTANT Questions

VARIABLES
    server,     \* the local server: "down" or "up"
    model,      \* "unloaded", "loading" or "loaded"
    question,   \* [Questions -> the step it is at]
    retried     \* [Questions -> BOOLEAN]

localModelVars == <<server, model, question, retried>>

Steps == {"new", "available", "status", "start", "check", "exists", "load", "wait", "post",
          "answered", "failed"}

LocalModelInit ==
    /\ server \in {"down", "up"} /\ model \in {"unloaded", "loading", "loaded"}
    /\ server = "down" => model = "unloaded"
    /\ question = [q \in Questions |-> "new"]
    /\ retried = [q \in Questions |-> FALSE]

-----------------------------------------------------------------------------
At(q, step) == question[q] = step
GoesTo(q, steps) == \E step \in steps : question' = [question EXCEPT ![q] = step]

\* The model as the API lists it; no answer counts as no model.
Listed == server = "up" /\ model = "loaded"

\* chat: _ensure_lmstudio_ready comes first.
AskModel(q) ==
    /\ At(q, "new") /\ GoesTo(q, {"available"})
    /\ UNCHANGED <<server, model, retried>>

\* _ensure_lms_available
LmsAvailable(q) ==
    /\ At(q, "available") /\ GoesTo(q, {"status", "failed"})
    /\ UNCHANGED <<server, model, retried>>

\* _server_status, from the tool or from the API.
ServerStatus(q) ==
    /\ At(q, "status")
    /\ GoesTo(q, {IF server = "up" THEN "check" ELSE "start", "failed"})
    /\ UNCHANGED <<server, model, retried>>

\* lms server start; a command that failed or timed out may have had its effect.
StartServer(q) ==
    /\ At(q, "start")
    /\ \/ server' = "up" /\ GoesTo(q, {"check", "failed"})
       \/ UNCHANGED server /\ GoesTo(q, {"failed"})
    /\ UNCHANGED <<model, retried>>

\* _model_is_loaded: a list that cannot be had is a list without the model, or
\* ends the question.
CheckLoaded(q) ==
    /\ At(q, "check") /\ GoesTo(q, {"exists", "failed"} \cup IF Listed THEN {"post"} ELSE {})
    /\ UNCHANGED <<server, model, retried>>

\* _local_model_exists
ModelExists(q) ==
    /\ At(q, "exists") /\ GoesTo(q, {"load", "failed"})
    /\ UNCHANGED <<server, model, retried>>

\* lms load, also of a model another question has loaded meanwhile.
LoadModel(q) ==
    /\ At(q, "load")
    /\ \/ server = "up" /\ model' \in {model, "loading", "loaded"} /\ GoesTo(q, {"wait", "failed"})
       \/ UNCHANGED model /\ GoesTo(q, {"failed"})
    /\ UNCHANGED <<server, retried>>

\* _wait_until_model_loaded polls until the deadline.
WaitLoaded(q) ==
    /\ At(q, "wait") /\ GoesTo(q, IF Listed THEN {"post"} ELSE {"failed"})
    /\ UNCHANGED <<server, model, retried>>

\* Mutant of MayRetry: a 503 is always answered by another attempt.
MayRetryAgain(q) == TRUE

\* _chat_openai_compatible tries again once.
MayRetry(q) == ~retried[q]

\* _post_json: a server without the model answers 503.
Post(q) ==
    /\ At(q, "post")
    /\ \/ Listed /\ GoesTo(q, {"answered"}) /\ UNCHANGED retried
       \/ /\ server = "up" /\ model # "loaded" /\ MayRetry(q)
          /\ retried' = [retried EXCEPT ![q] = TRUE]
          /\ GoesTo(q, {"available"})
       \/ GoesTo(q, {"failed"}) /\ UNCHANGED retried
    /\ UNCHANGED <<server, model>>

-----------------------------------------------------------------------------
(* LM Studio: it finishes to load, unloads, is started and stopped. *)
LmStudio ==
    /\ \/ model = "loading" /\ model' = "loaded" /\ UNCHANGED server
       \/ model # "unloaded" /\ model' = "unloaded" /\ UNCHANGED server
       \/ server = "up" /\ server' = "down" /\ model' = "unloaded"
       \/ server = "down" /\ server' = "up" /\ UNCHANGED model
    /\ UNCHANGED <<question, retried>>

EnsureReady(q) ==
    \/ LmsAvailable(q) \/ ServerStatus(q) \/ StartServer(q) \/ CheckLoaded(q)
    \/ ModelExists(q) \/ LoadModel(q) \/ WaitLoaded(q)

LocalModelNext ==
    \/ \E q \in Questions : AskModel(q) \/ EnsureReady(q) \/ Post(q)
    \/ LmStudio

\* Every command and request has a timeout, after which its thread goes on.
LocalModelFairness == \A q \in Questions : WF_localModelVars(EnsureReady(q) \/ Post(q))

-----------------------------------------------------------------------------
LocalModelTypeOK ==
    /\ server \in {"down", "up"} /\ model \in {"unloaded", "loading", "loaded"}
    /\ question \in [Questions -> Steps]
    /\ retried \in [Questions -> BOOLEAN]
    /\ server = "down" => model = "unloaded"

\* QuestionsEnd: the questions that were begun all end, answered or failed, however
\* often LM Studio unloads the model between the check and the request.
Asking == \E q \in Questions : question[q] \notin {"new", "answered", "failed"}
QuestionsEnd == []<>~Asking
=============================================================================
