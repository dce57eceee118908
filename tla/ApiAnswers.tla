----------------------------- MODULE ApiAnswers -----------------------------
(***************************************************************************)
(* What the API promises about a request, without goroutines, WaitGroups,  *)
(* panics to recover from or counters of nulls: each of its fields is      *)
(* settled once, by what its resolver makes of the collections as of one   *)
(* moment (or two, when it calls the store twice), and is null only when   *)
(* the store has failed; the response is sent when all are settled, and    *)
(* is null when a field that a resolver answers is.  The collections are   *)
(* the crawler's, and no request changes them.  What a call may return and *)
(* what is made of it are parameters.                                      *)
(***************************************************************************)
CONSTANTS
  Requests,              \* functions from fields to filters
  Static,                \* the fields that no resolver answers
  Twice,                 \* those whose resolver calls a store twice
  Called(_, _, _, _),    \* what a call may return: of field, filter, collections
  CalledAgain(_, _),     \* and the second one: of filter and peers
  Outcomes(_, _, _)       \* what a field may come to: of field, data, rows noted

VARIABLES
  docs, records,         \* the collections
  request,               \* the request in progress
  answer,                \* what each of its fields has come to
  reply                  \* "none", "pending", "null" or "data"

answerVars == <<request, answer, reply>>

Open        == [shape |-> "none"]
Noted(rows) == [shape |-> "noted", rows |-> rows]
Null(why)   == [shape |-> "null", why |-> why]
Schema      == [shape |-> "schema"]

ApiInit == request = <<>> /\ answer = <<>> /\ reply = "none"

Asks(r) ==
  /\ reply = "none" /\ reply' = "pending"
  /\ request' = r
  /\ \E static \in [DOMAIN r \cap Static -> {Schema, Null("error"), Null("unknown")}] :
       answer' = [f \in DOMAIN r |-> IF f \in Static THEN static[f] ELSE Open]

Comes(f, value) == answer' = [answer EXCEPT ![f] = value]

Failed(data)   == data.kind \in {"error", "panic"}
Fails(f, data) == Failed(data) /\ Comes(f, Null(data.kind))

(* A field is settled, or the first of two calls is noted.                 *)
Settles(f) ==
  /\ answer[f] = Open /\ answer'[f] # Open
  /\ \E data \in Called(f, request[f], docs, records) :
       \/ Fails(f, data)
       \/ ~Failed(data) /\ f \in Twice /\ Comes(f, Noted(data.rows))
       \/ /\ ~Failed(data) /\ f \notin Twice
          /\ \E value \in Outcomes(f, data, <<>>) : Comes(f, value)

SettlesAfter(f) ==
  /\ answer[f].shape = "noted" /\ answer'[f] # answer[f]
  /\ \E data \in CalledAgain(request[f], docs) :
       \/ Fails(f, data)
       \/ /\ ~Failed(data)
          /\ \E value \in Outcomes(f, data, answer[f].rows) : Comes(f, value)

Replies ==
  /\ \A f \in DOMAIN request : answer[f].shape \notin {"none", "noted"}
  /\ reply' = IF \E f \in DOMAIN request \ Static : answer[f].shape = "null"
              THEN "null" ELSE "data"

Forgets ==
  /\ reply \in {"null", "data"}
  /\ request' = <<>> /\ answer' = <<>> /\ reply' = "none"

ApiNext ==
  /\ UNCHANGED <<docs, records>>
  /\ \/ \E r \in Requests : Asks(r)
     \/ /\ reply = "pending"
        /\ \/ /\ UNCHANGED <<request, reply>>
              /\ \E f \in DOMAIN request : Settles(f) \/ SettlesAfter(f)
           \/ UNCHANGED <<request, answer>> /\ Replies
     \/ Forgets

ApiSpec == ApiInit /\ [][ApiNext]_answerVars
=============================================================================
