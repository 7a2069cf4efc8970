--------------------------------- MODULE Rpc ----------------------------------
(***************************************************************************)
(* Reading the analyzer's variables from other programs.  A client (the    *)
(* event display) asks for the values of a list of variables in the next   *)
(* event that satisfies a test (thGetList_test); the analyzer keeps the    *)
(* request (davar_readmultiple_test_1), looks at all of them after each    *)
(* event (daVarCallBack) and calls the client back.  Analyzer and clients  *)
(* are separate programs; calls time out on both sides, and what was sent  *)
(* still arrives.                                                          *)
(***************************************************************************)
EXTENDS Integers, Sequences, SequencesExt, FiniteSets

CONSTANTS
  Clients,
  Conditions,   \* the tests
  Vars,         \* the variables
  Registered,   \* those the analyzer knows
  Lists,        \* per client, the lists it asks for
  Tests,        \* per client, the tests it asks for
  Waits,        \* values of max_event_wait
  RpcControl,   \* rpc_control at the start
  MaxCalls,     \* per client, bound on its calls
  MaxEvents     \* bound on the events

ASSUME RpcAssumption ==
  /\ Registered \subseteq Vars
  /\ Lists \in [Clients -> SUBSET Seq(Vars)] /\ \A c \in Clients : <<>> \notin Lists[c]
  /\ Tests \in [Clients -> SUBSET Conditions]
  /\ Waits \subseteq Nat /\ RpcControl \in Int
  /\ MaxCalls \in [Clients -> Nat] /\ MaxEvents \in Nat

VARIABLES
  \* The analyzer: where it is in an event, the conditions that held in each
  \* event, thCallBackListP, daVarCallBack's progress, the event loop's state.
  spc, held, queue, at, pending, processed, rpc_pend, rpc_control,
  \* The network: requests to the analyzer, the last call of a client that was
  \* acknowledged, calls back to a client.
  net, acked, inbox,
  \* The clients: state, pending_arg, pending_flag and callback_result, the
  \* variables, the result of the last call, the number of calls.
  cpc, arg, pending_flag, callback_result, vals, result, calls,
  \* For the properties: requests accepted and answered.
  accepted, answered

serverVars == <<spc, held, queue, at, pending, processed, rpc_pend, rpc_control, accepted, answered>>
netVars == <<net, acked, inbox>>
clientVars == <<cpc, arg, pending_flag, callback_result, vals, result, calls>>
vars == <<serverVars, netVars, clientVars>>

NoValue == <<"none", 0>>

Init ==
  /\ spc = "event" /\ held = <<>> /\ queue = <<>>
  /\ at = 0 /\ pending = 0 /\ processed = 0
  /\ rpc_pend = 0 /\ rpc_control = RpcControl
  /\ accepted = {} /\ answered = <<>>
  /\ net = [c \in Clients |-> <<>>]
  /\ acked = [c \in Clients |-> 0]
  /\ inbox = [c \in Clients |-> {}]
  /\ cpc = [c \in Clients |-> "idle"]
  /\ arg \in [Clients -> {[list |-> <<>>, test |-> "none"]}]
  /\ pending_flag = [c \in Clients |-> 0]
  /\ callback_result = [c \in Clients |-> 0]
  /\ vals = [c \in Clients |-> [v \in Vars |-> NoValue]]
  /\ result = [c \in Clients |-> -1]
  /\ calls = [c \in Clients |-> 0]

-----------------------------------------------------------------------------
(* The analyzer: an event, then thservone and thcallback (engine.f).       *)

\* Nothing is pending and the setup says to wait for a request.
Waiting == rpc_pend = 0 /\ rpc_control = 0

NextEvent ==
  /\ spc = "event"
  /\ Len(held) < MaxEvents
  /\ \E holds \in SUBSET Conditions : held' = Append(held, holds)
  /\ spc' = IF Waiting THEN "block" ELSE "serve"
  /\ UNCHANGED <<queue, at, pending, processed, rpc_pend, rpc_control, accepted, answered,
                 netVars, clientVars>>

\* A client's request reaches the analyzer: it is put at the head of the list
\* and acknowledged.
TakeRequest(c) ==
  /\ spc \in {"serve", "block"}
  /\ net[c] # <<>>
  /\ LET r == Head(net[c]) IN
       /\ queue' = <<[r EXCEPT !.since = Len(held)]>> \o queue
       /\ accepted' = accepted \union {<<c, r.call>>}
       /\ acked' = [acked EXCEPT ![c] = r.call]
  /\ net' = [net EXCEPT ![c] = Tail(@)]
  /\ spc' = "serve"
  /\ UNCHANGED <<held, at, pending, processed, rpc_pend, rpc_control, answered, inbox, clientVars>>

\* Something else ends the wait: a connection, a request that is answered at
\* once.
TakeOther ==
  /\ spc = "block"
  /\ spc' = "serve"
  /\ UNCHANGED <<held, queue, at, pending, processed, rpc_pend, rpc_control, accepted, answered,
                 netVars, clientVars>>

\* daVarCallBack begins.
BeginScan ==
  /\ spc = "serve"
  /\ spc' = "scan"
  /\ at' = 1 /\ pending' = 0 /\ processed' = 0
  /\ UNCHANGED <<held, queue, rpc_pend, rpc_control, accepted, answered, netVars, clientVars>>

\* The value of a variable in the current event, or an error.
Reading(v) == IF v \in Registered THEN <<v, Len(held)>> ELSE NoValue

\* What is sent back: the values, or nothing when the wait was in vain.
Values(r) == IF r.test \in held[Len(held)] THEN [i \in DOMAIN r.list |-> Reading(r.list[i])] ELSE <<>>

\* The call back is made while the client's service is there; otherwise
\* "Callback to %s failed" and the answer is dropped.
Send(r) ==
  inbox' = IF cpc[r.client] = "idle" THEN inbox
           ELSE [inbox EXCEPT ![r.client] = @ \union {[call |-> r.call, values |-> Values(r)]}]

\* (UnlinkAll: a mutant, the entries before the one answered are lost.)
UnlinkAll(n) == SubSeq(queue, n + 1, Len(queue))

Unlink(n) == RemoveAt(queue, n)

\* (Unhurried: a mutant, the limit on the events is not counted down.)
Unhurried(r) == r

CountDown(r) == [r EXCEPT !.left = @ - 1]

\* One pass of daVarCallBack's loop; late is the test of max_time_wait.
CallBack ==
  /\ spc = "scan"
  /\ at <= Len(queue)
  /\ LET r == CountDown(queue[at])
         testresult == r.test \in held[Len(held)]
     IN  \E late \in BOOLEAN :
           IF testresult \/ r.left < 0 \/ late
           THEN /\ Send(r)
                /\ queue' = Unlink(at)
                /\ answered' = Append(answered, <<r.client, r.call>>)
                /\ processed' = processed + 1
                /\ UNCHANGED <<at, pending>>
           ELSE /\ queue' = [queue EXCEPT ![at] = r]
                /\ at' = at + 1
                /\ pending' = pending + 1
                /\ UNCHANGED <<inbox, processed, answered>>
  /\ UNCHANGED <<spc, held, rpc_pend, rpc_control, accepted, net, acked, clientVars>>

\* (ReturnedDone: a mutant, -1 says that something was processed.)
ReturnedDone == IF processed > 0 THEN -1 ELSE pending

\* daVarCallBack's result.
Returned == IF processed > 0 /\ pending = 0 THEN -1 ELSE pending

\* What the loop makes of it: the number of requests outstanding.
Outstanding(ret) == IF ret < 0 THEN 0 ELSE ret

EndScan ==
  /\ spc = "scan"
  /\ at > Len(queue)
  /\ IF Waiting /\ Returned = 0
     THEN spc' = "block" /\ UNCHANGED <<rpc_pend, rpc_control>>
     ELSE /\ spc' = "event"
          /\ rpc_pend' = Outstanding(Returned)
          /\ rpc_control' = IF rpc_control > 0 THEN rpc_control - 1 ELSE rpc_control
  /\ UNCHANGED <<held, queue, at, pending, processed, accepted, answered, netVars, clientVars>>

\* The analyzer's run is over.
EndOfRun ==
  /\ spc = "event"
  /\ spc' = "ended"
  /\ UNCHANGED <<held, queue, at, pending, processed, rpc_pend, rpc_control, accepted, answered,
                 netVars, clientVars>>

-----------------------------------------------------------------------------
(* A client: revdis_getev, thGetList_test and the service it offers        *)
(* meanwhile.                                                              *)

\* thGetList_test: the arguments are kept for the call back and sent.
Call(c) ==
  /\ cpc[c] = "idle"
  /\ calls[c] < MaxCalls[c]
  /\ calls' = [calls EXCEPT ![c] = @ + 1]
  /\ \E list \in Lists[c], test \in Tests[c], wait \in Waits :
       /\ arg' = [arg EXCEPT ![c] = [list |-> list, test |-> test]]
       /\ net' = [net EXCEPT ![c] =
                    Append(@, [client |-> c, call |-> calls[c] + 1, list |-> list, test |-> test,
                               wait |-> wait, left |-> wait, since |-> 0])]
  /\ pending_flag' = [pending_flag EXCEPT ![c] = 1]
  /\ cpc' = [cpc EXCEPT ![c] = "asking"]
  /\ UNCHANGED <<serverVars, acked, inbox, callback_result, vals, result>>

Acknowledged(c) ==
  /\ cpc[c] = "asking"
  /\ acked[c] = calls[c]
  /\ cpc' = [cpc EXCEPT ![c] = "waiting"]
  /\ UNCHANGED <<serverVars, netVars, arg, pending_flag, callback_result, vals, result, calls>>

\* thservunset: what has not been accepted yet is lost.
GoIdle(c, res) ==
  /\ cpc' = [cpc EXCEPT ![c] = "idle"]
  /\ result' = [result EXCEPT ![c] = res]
  /\ \E kept \in SUBSET inbox[c] : inbox' = [inbox EXCEPT ![c] = kept]

\* clnt_call gave up, 25 s after the request; the request is on its way.
CallFails(c) ==
  /\ cpc[c] = "asking"
  /\ GoIdle(c, -1)
  /\ UNCHANGED <<serverVars, net, acked, arg, pending_flag, callback_result, vals, calls>>

\* (LengthUnchecked: a mutant, any answer is taken for the values.)
LengthUnchecked(c, values) == TRUE

Fits(c, values) == Len(values) = Len(arg[c].list)

\* davar_readmultiple_test_cb_1: an answer is stored in the variables of the
\* list that the client is waiting for.
ServeCallback(c) ==
  /\ cpc[c] = "waiting"
  /\ \E m \in inbox[c] :
       /\ inbox' = [inbox EXCEPT ![c] = @ \ {m}]
       /\ IF Fits(c, m.values)
          THEN LET good == {i \in DOMAIN m.values : m.values[i] # NoValue} IN
               /\ vals' = [vals EXCEPT ![c] = [v \in Vars |->
                             IF \E i \in good : arg[c].list[i] = v
                             THEN m.values[CHOOSE i \in good : arg[c].list[i] = v]
                             ELSE @[v]]]
               /\ callback_result' =
                    [callback_result EXCEPT ![c] = Len(m.values) - Cardinality(good)]
          ELSE /\ callback_result' =
                    [callback_result EXCEPT ![c] = IF m.values # <<>> THEN -1 ELSE -2]
               /\ UNCHANGED vals
  /\ pending_flag' = [pending_flag EXCEPT ![c] = 0]
  /\ UNCHANGED <<serverVars, net, acked, cpc, arg, result, calls>>

\* The wait ends, with an answer or after max_time_wait+10 s of silence.
Return(c) ==
  /\ cpc[c] = "waiting"
  /\ pending_flag[c] = 0
  /\ GoIdle(c, callback_result[c])
  /\ UNCHANGED <<serverVars, net, acked, arg, pending_flag, callback_result, vals, calls>>

TimeOut(c) ==
  /\ cpc[c] = "waiting"
  /\ pending_flag[c] = 1 /\ inbox[c] = {}
  /\ GoIdle(c, -2)
  /\ callback_result' = [callback_result EXCEPT ![c] = -2]
  /\ UNCHANGED <<serverVars, net, acked, arg, pending_flag, vals, calls>>

-----------------------------------------------------------------------------

Server == NextEvent \/ TakeOther \/ BeginScan \/ CallBack \/ EndScan \/ EndOfRun
Client(c) == Call(c) \/ Acknowledged(c) \/ CallFails(c) \/ ServeCallback(c) \/ Return(c) \/ TimeOut(c)

Next == Server \/ \E c \in Clients : TakeRequest(c) \/ Client(c)

Spec == Init /\ [][Next]_vars

-----------------------------------------------------------------------------
(* Properties.                                                             *)

Requests == [client : Clients, call : Nat, list : Seq(Vars), test : Conditions,
             wait : Nat, left : Int, since : Nat]
Readings == (Vars \X Nat) \union {NoValue}

\* The state is of its types.
ServerTypeOK ==
  /\ spc \in {"event", "block", "serve", "scan", "ended"}
  /\ held \in Seq(SUBSET Conditions)
  /\ queue \in Seq(Requests)
  /\ at \in Nat /\ pending \in Nat /\ processed \in Nat /\ rpc_pend \in Nat /\ rpc_control \in Int
  /\ accepted \subseteq Clients \X Nat /\ answered \in Seq(Clients \X Nat)
NetTypeOK ==
  /\ net \in [Clients -> Seq(Requests)] /\ acked \in [Clients -> Nat]
  /\ inbox \in [Clients -> SUBSET [call : Nat, values : Seq(Readings)]]
ClientTypeOK ==
  /\ cpc \in [Clients -> {"idle", "asking", "waiting"}]
  /\ arg \in [Clients -> [list : Seq(Vars), test : Conditions \union {"none"}]]
  /\ pending_flag \in [Clients -> {0, 1}] /\ callback_result \in [Clients -> Int]
  /\ vals \in [Clients -> [Vars -> Readings]]
  /\ result \in [Clients -> Int] /\ calls \in [Clients -> Nat]
TypeOK == ServerTypeOK /\ NetTypeOK /\ ClientTypeOK

Ids(s) == {<<s[i].client, s[i].call>> : i \in DOMAIN s}

\* Every request accepted is in the list or has been called back, once,
\* however requests come in and leave the list (daVarCallBack's relinking), and
\* none outlives the number of events its client allowed.
InTime ==
  /\ accepted = Ids(queue) \union ToSet(answered)
  /\ Ids(queue) \intersect ToSet(answered) = {}
  /\ Cardinality(Ids(queue)) = Len(queue) /\ IsInjective(answered)
  /\ spc = "event" => \A r \in ToSet(queue) : Len(held) - r.since + 1 <= r.wait

\* The loop never waits for a new request while one is pending
\* (engine.f:493-503): rpc_pend is the length of the list after each event,
\* in spite of daVarCallBack's two ways to say that it is empty.
WaitsForFirst ==
  /\ spc = "block" => queue = <<>>
  /\ spc = "event" => rpc_pend = Len(queue)

\* The variables of the client's list are those of one event in which its test
\* was true.
Delivered(c) ==
  \E e \in DOMAIN held :
    /\ arg[c].test \in held[e]
    /\ \A v \in ToSet(arg[c].list) : vals[c][v] = <<v, e>>

\* thClient.c:426, "Returns 0 for total success": a call that returned 0 has
\* set all variables of its list to their values in one event, and the test
\* was true in it.
OneEvent == \A c \in Clients : cpc[c] = "idle" /\ result[c] = 0 => Delivered(c)

-----------------------------------------------------------------------------
(* What every step preserves, and what the proofs rest on (RpcProofs).     *)

\* Where the scan is in the list, and what the loop knows of its length.
ScanInv ==
  /\ spc = "block" => queue = <<>>
  /\ spc = "event" => rpc_pend = Len(queue)
  /\ spc = "scan" => at \in 1 .. Len(queue) + 1 /\ pending = at - 1
  /\ spc \in {"block", "serve", "scan"} => held # <<>>

\* A request is known by its client and the number of the call.
Id(r) == <<r.client, r.call>>

\* Each request accepted is in the list or answered, in one place only.
IdInv ==
  /\ \A i, j \in DOMAIN queue : Id(queue[i]) = Id(queue[j]) => i = j
  /\ accepted = Ids(queue) \union ToSet(answered)
  /\ Ids(queue) \intersect ToSet(answered) = {}
  /\ IsInjective(answered)
  /\ \A id \in accepted : id[2] <= calls[id[1]]

\* What is on its way to the analyzer is not there yet, in the order of the calls.
NetInv ==
  \A c \in Clients : \A i \in DOMAIN net[c] :
    LET r == net[c][i] IN
      /\ r.client = c /\ r.call <= calls[c] /\ r.left = r.wait
      /\ Id(r) \notin accepted
      /\ \A j \in DOMAIN net[c] : i < j => r.call < net[c][j].call

\* The event has been looked at for the i-th request of the list.
Looked(i) == spc \in {"event", "ended"} \/ (spc = "scan" /\ i < at)

\* The limit of a request counts the events since it was accepted.
LimitInv ==
  \A i \in DOMAIN queue :
    LET r == queue[i] IN
      /\ r.since <= Len(held) /\ r.left >= 0
      /\ r.wait - r.left = Len(held) - r.since + (IF Looked(i) THEN 1 ELSE 0)

\* The values of a list in an event.
ReadingsIn(list, e) ==
  [i \in DOMAIN list |-> IF list[i] \in Registered THEN <<list[i], e>> ELSE NoValue]

\* Requests ask for what their client may ask for, and an answer with values
\* has those of one event in which the test was true.
AnswerInv ==
  /\ \A c \in Clients : \A i \in DOMAIN net[c] :
       net[c][i].list \in Lists[c] /\ net[c][i].test \in Tests[c]
  /\ \A i \in DOMAIN queue :
       queue[i].list \in Lists[queue[i].client] /\ queue[i].test \in Tests[queue[i].client]
  /\ \A c \in Clients : \A m \in inbox[c] :
       m.values # <<>> =>
         \E list \in Lists[c], test \in Tests[c], e \in DOMAIN held :
           test \in held[e] /\ m.values = ReadingsIn(list, e)

Inductive == TypeOK /\ ScanInv /\ IdInv /\ NetInv /\ LimitInv /\ AnswerInv

\* A client keeps to one test, and its lists are of different lengths: an answer
\* that comes late cannot be taken for one to another question.
OneQuestion ==
  \A c \in Clients :
    /\ \A l1, l2 \in Lists[c] : Len(l1) = Len(l2) => l1 = l2
    /\ \A t1, t2 \in Tests[c] : t1 = t2

\* What a client has when it is about to return 0, and after.
DeliveryInv ==
  \A c \in Clients :
    /\ cpc[c] # "idle" => arg[c].list \in Lists[c] /\ arg[c].test \in Tests[c]
    /\ cpc[c] = "asking" => pending_flag[c] = 1
    /\ cpc[c] = "waiting" /\ pending_flag[c] = 0 /\ callback_result[c] = 0 => Delivered(c)
    /\ cpc[c] = "idle" /\ result[c] = 0 => Delivered(c)
=============================================================================
