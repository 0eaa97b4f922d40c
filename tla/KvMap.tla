------------------------------- MODULE KvMap -------------------------------
(***************************************************************************)
(* What the key-value service promises its HTTP clients: a map of bounded  *)
(* size on which concurrent requests take effect one at a time, each       *)
(* between its call and its answer.  A request whose connection to the     *)
(* RDoWS server fails is answered with an error, and may or may not have   *)
(* taken effect.  A client may give up on a request that has not begun.    *)
(***************************************************************************)
EXTENDS Integers, FiniteSets

CONSTANTS
    Handlers,       \* HTTP requests that may be in progress at once
    Requests,       \* [op, key, value] records a handler may be called with
    Capacity,       \* how many keys fit
    Oversized(_)    \* requests that are refused for the length of their data

VARIABLES
    map,            \* key -> value, for the keys that are present
    task            \* handler -> [st, req, ans]

mapVars == <<map, task>>

Idle == [st |-> "idle"]

Called(r) == [st |-> "called", req |-> r]

\* The effect is in the map and the answer is decided but not yet given.
Effected(r, ans) == [st |-> "effected", req |-> r, ans |-> ans]

Answered(r, ans) == [st |-> "answered", req |-> r, ans |-> ans]

MapInit ==
    /\ map = [k \in {} |-> k]
    /\ task = [h \in Handlers |-> Idle]

Full == Cardinality(DOMAIN map) = Capacity

Has(r) == r.key \in DOMAIN map

Stores(r) == ~Oversized(r) /\ (Has(r) \/ ~Full)

With(key, value) ==
    [k \in DOMAIN map \cup {key} |-> IF k = key THEN value ELSE map[k]]

\* The map after a request takes effect, and the answer it gives.
After(r) ==
    CASE r.op = "put" -> IF Stores(r) THEN With(r.key, r.value) ELSE map
      [] r.op = "delete" -> [k \in DOMAIN map \ {r.key} |-> map[k]]
      [] OTHER -> map

AnswerTo(r) ==
    CASE r.op = "put" -> IF Oversized(r) THEN <<"TooLong">>
                         ELSE IF Has(r) THEN <<"Updated">>
                         ELSE IF Full THEN <<"TableFull">> ELSE <<"Inserted">>
      [] r.op = "delete" -> IF Has(r) THEN <<"Deleted">> ELSE <<"NotFound">>
      [] r.op = "get" -> IF Has(r) THEN <<"Found", map[r.key]>> ELSE <<"NotFound">>
      [] r.op = "slots" -> <<"Slots", {<<k, map[k]>> : k \in DOMAIN map}>>
      [] r.op = "stats" -> <<"Stats">>

MapCall(h) ==
    /\ task[h] = Idle
    /\ \E r \in Requests : task' = [task EXCEPT ![h] = Called(r)]
    /\ UNCHANGED map

\* The request takes effect, at once with its answer or before it.
MapEffect(h) ==
    /\ task[h].st = "called"
    /\ LET r == task[h].req
       IN  /\ map' = After(r)
           /\ \/ task' = [task EXCEPT ![h] = Effected(r, AnswerTo(r))]
              \/ task' = [task EXCEPT ![h] = Answered(r, AnswerTo(r))]

MapAnswer(h) ==
    /\ task[h].st = "effected"
    /\ task' = [task EXCEPT ![h] = Answered(task[h].req, task[h].ans)]
    /\ UNCHANGED map

MapFail(h) ==
    /\ task[h].st \in {"called", "effected"}
    /\ task' = [task EXCEPT ![h] = Answered(task[h].req, <<"Error">>)]
    /\ UNCHANGED map

MapReturn(h) ==
    /\ task[h].st = "answered"
    /\ task' = [task EXCEPT ![h] = Idle]
    /\ UNCHANGED map

MapGiveUp(h) ==
    /\ task[h].st = "called"
    /\ task' = [task EXCEPT ![h] = Idle]
    /\ UNCHANGED map

MapNext ==
    \E h \in Handlers :
        \/ MapCall(h)
        \/ MapEffect(h)
        \/ MapAnswer(h)
        \/ MapFail(h)
        \/ MapReturn(h)
        \/ MapGiveUp(h)

MapSpec == MapInit /\ [][MapNext]_mapVars

=============================================================================
