------------------------------ MODULE RpcProofs -------------------------------
(***************************************************************************)
(* Rpc keeps its invariants for every set of clients, every list, test and *)
(* limit they ask with, and every number of calls and events.  Inductive,  *)
(* in Rpc, is what every step preserves; what a successful call delivers   *)
(* (OneEvent) needs one more fact of the clients, OneQuestion.             *)
(***************************************************************************)
EXTENDS Rpc, SequenceTheorems, FiniteSetTheorems, TLAPS

\* The request taken out of the list (daVarCallBack's relinking) is gone, the
\* others keep their order.
LEMMA RemoveAtProperties ==
  ASSUME NEW S, NEW s \in Seq(S), NEW n \in 1 .. Len(s)
  PROVE  /\ RemoveAt(s, n) \in Seq(S)
         /\ Len(RemoveAt(s, n)) = Len(s) - 1
         /\ \A i \in 1 .. Len(s) - 1 : RemoveAt(s, n)[i] = IF i < n THEN s[i] ELSE s[i + 1]
<1>0. Len(s) \in Nat /\ n \in Nat /\ 1 <= n /\ n <= Len(s)
  OBVIOUS
<1> DEFINE left == SubSeq(s, 1, n - 1)
           right == SubSeq(s, n + 1, Len(s))
<1>1. /\ left \in Seq(S) /\ Len(left) = n - 1
      /\ \A i \in 1 .. n - 1 : left[i] = s[i]
  <2>1. \A i \in 1 .. n - 1 : s[i] \in S
    OBVIOUS
  <2>2. 1 \in Int /\ n - 1 \in Int
    OBVIOUS
  <2>3. /\ left \in Seq(S)
        /\ Len(left) = IF 1 <= n - 1 THEN (n - 1) - 1 + 1 ELSE 0
        /\ \A i \in 1 .. (n - 1) - 1 + 1 : left[i] = s[1 + i - 1]
    BY <2>1, <2>2, SubSeqProperties
  <2>4. QED
    BY <2>3
<1>2. /\ right \in Seq(S) /\ Len(right) = Len(s) - n
      /\ \A i \in 1 .. Len(s) - n : right[i] = s[n + i]
  <2>1. \A i \in n + 1 .. Len(s) : s[i] \in S
    OBVIOUS
  <2>2. n + 1 \in Int /\ Len(s) \in Int
    OBVIOUS
  <2>3. /\ right \in Seq(S)
        /\ Len(right) = IF n + 1 <= Len(s) THEN Len(s) - (n + 1) + 1 ELSE 0
        /\ \A i \in 1 .. Len(s) - (n + 1) + 1 : right[i] = s[(n + 1) + i - 1]
    BY <2>1, <2>2, SubSeqProperties
  <2>4. QED
    BY <2>3
<1> HIDE DEF left, right
<1>3. /\ left \o right \in Seq(S)
      /\ Len(left \o right) = Len(left) + Len(right)
      /\ \A i \in 1 .. Len(left) + Len(right) : (left \o right)[i] =
           IF i <= Len(left) THEN left[i] ELSE right[i - Len(left)]
  BY <1>1, <1>2, ConcatProperties
<1>4. RemoveAt(s, n) = left \o right
  BY DEF RemoveAt, left, right
<1>5. ASSUME NEW i \in 1 .. Len(s) - 1
      PROVE  (left \o right)[i] = IF i < n THEN s[i] ELSE s[i + 1]
  <2>1. CASE i < n
    BY <1>1, <1>2, <1>3, <2>1
  <2>2. CASE i >= n
    <3>1. i - (n - 1) \in 1 .. Len(s) - n /\ n + (i - (n - 1)) = i + 1
      BY <2>2
    <3>2. right[i - (n - 1)] = s[i + 1]
      BY <1>2, <3>1
    <3>3. (left \o right)[i] = right[i - (n - 1)]
      BY <1>1, <1>2, <1>3, <2>2
    <3>4. QED
      BY <2>2, <3>2, <3>3
  <2>3. i < n \/ i >= n
    BY <1>0
  <2>4. QED
    BY <2>1, <2>2, <2>3, Zenon
<1>6. Len(left) + Len(right) = Len(s) - 1
  BY <1>0, <1>1, <1>2
<1>7. QED
  BY <1>3, <1>4, <1>5, <1>6, Zenon

\* A request put at the head of the list (davar_readmultiple_test_1) moves the
\* others by one.
LEMMA AtHeadProperties ==
  ASSUME NEW S, NEW s \in Seq(S), NEW e \in S
  PROVE  /\ <<e>> \o s \in Seq(S)
         /\ Len(<<e>> \o s) = Len(s) + 1
         /\ (<<e>> \o s)[1] = e
         /\ \A i \in 1 .. Len(s) : (<<e>> \o s)[i + 1] = s[i]
<1>1. <<e>> \in Seq(S) /\ Len(<<e>>) = 1 /\ <<e>>[1] = e
  OBVIOUS
<1>2. /\ <<e>> \o s \in Seq(S)
      /\ Len(<<e>> \o s) = 1 + Len(s)
      /\ \A i \in 1 .. 1 + Len(s) : (<<e>> \o s)[i] = IF i <= 1 THEN <<e>>[i] ELSE s[i - 1]
  BY <1>1, ConcatProperties
<1>3. QED
  BY <1>1, <1>2

\* The groups of variables are always expanded.
USE DEF serverVars, netVars, clientVars

\* The fields of a request.
LEMMA RequestFields ==
  ASSUME NEW r \in Requests
  PROVE  /\ r.client \in Clients /\ r.call \in Nat /\ r.list \in Seq(Vars) /\ r.test \in Conditions
         /\ r.wait \in Nat /\ r.left \in Int /\ r.since \in Nat
BY DEF Requests

\* A request whose limit is counted down, or that is accepted, is a request.
LEMMA RequestUpdates ==
  ASSUME NEW r \in Requests, NEW e \in Nat
  PROVE  /\ CountDown(r) \in Requests
         /\ CountDown(r) = [r EXCEPT !.left = r.left - 1]
         /\ CountDown(r).left = r.left - 1
         /\ [r EXCEPT !.since = e] \in Requests
BY DEF Requests, CountDown

\* An answer is made of the readings of the variables (daVarReadVar), as many
\* as the list has, or is empty.
LEMMA ValuesType ==
  ASSUME NEW r \in Requests, held # <<>>, Len(held) \in Nat
  PROVE  /\ Values(r) \in Seq(Readings)
         /\ Values(r) # <<>> => r.test \in held[Len(held)] /\ Values(r) = ReadingsIn(r.list, Len(held))
<1>1. /\ r.list \in Seq(Vars) /\ Len(r.list) \in Nat
      /\ DOMAIN r.list = 1 .. Len(r.list)
      /\ \A i \in DOMAIN r.list : r.list[i] \in Vars
  BY DEF Requests
<1>2. [i \in DOMAIN r.list |-> Reading(r.list[i])] \in [1 .. Len(r.list) -> Readings]
  BY <1>1 DEF Reading, Readings
<1>3. [i \in DOMAIN r.list |-> Reading(r.list[i])] \in Seq(Readings)
  BY <1>1, <1>2
<1>4. [i \in DOMAIN r.list |-> Reading(r.list[i])] = ReadingsIn(r.list, Len(held))
  BY DEF Reading, ReadingsIn
<1>5. QED
  BY <1>3, <1>4 DEF Values

\* One pass of the scan: the request looked at is answered and unlinked, or
\* stays with its limit counted down.
LEMMA CallBackCases ==
  ASSUME CallBack, ServerTypeOK, ScanInv
  PROVE  /\ spc = "scan" /\ at \in 1 .. Len(queue) /\ held # <<>> /\ Len(held) \in Nat \ {0}
         /\ queue[at] \in Requests /\ CountDown(queue[at]) \in Requests
         /\ UNCHANGED <<spc, held, rpc_pend, rpc_control, accepted, net, acked, clientVars>>
         /\ \/ /\ Send(CountDown(queue[at]))
               /\ queue' = Unlink(at)
               /\ answered' = Append(answered, Id(queue[at]))
               /\ processed' = processed + 1
               /\ UNCHANGED <<at, pending>>
            \/ /\ CountDown(queue[at]).left >= 0
               /\ queue' = [queue EXCEPT ![at] = CountDown(queue[at])]
               /\ at' = at + 1
               /\ pending' = pending + 1
               /\ UNCHANGED <<inbox, processed, answered>>
<1> DEFINE r == CountDown(queue[at])
<1>1. /\ spc = "scan" /\ at \in 1 .. Len(queue) /\ held # <<>> /\ Len(held) \in Nat \ {0}
      /\ queue[at] \in Requests
  BY DEF CallBack, ServerTypeOK, ScanInv
<1>2. r \in Requests /\ r.left \in Int /\ <<r.client, r.call>> = Id(queue[at])
  BY <1>1 DEF Requests, CountDown, Id
<1>3. PICK late \in BOOLEAN :
        IF r.test \in held[Len(held)] \/ r.left < 0 \/ late
        THEN /\ Send(r)
             /\ queue' = Unlink(at)
             /\ answered' = Append(answered, <<r.client, r.call>>)
             /\ processed' = processed + 1
             /\ UNCHANGED <<at, pending>>
        ELSE /\ queue' = [queue EXCEPT ![at] = r]
             /\ at' = at + 1
             /\ pending' = pending + 1
             /\ UNCHANGED <<inbox, processed, answered>>
  BY Zenon DEF CallBack
<1>4. UNCHANGED <<spc, held, rpc_pend, rpc_control, accepted, net, acked, clientVars>>
  BY DEF CallBack
<1> HIDE DEF r
<1>5. (~ r.left < 0) => r.left >= 0
  BY <1>2
<1>6. \/ /\ Send(r)
         /\ queue' = Unlink(at)
         /\ answered' = Append(answered, Id(queue[at]))
         /\ processed' = processed + 1
         /\ UNCHANGED <<at, pending>>
      \/ /\ r.left >= 0
         /\ queue' = [queue EXCEPT ![at] = r]
         /\ at' = at + 1
         /\ pending' = pending + 1
         /\ UNCHANGED <<inbox, processed, answered>>
  BY <1>2, <1>3, <1>5, Zenon
<1>7. QED
  BY <1>1, <1>2, <1>4, <1>6 DEF r

\* What is taken off the network is a request, and so is what goes into the list.
LEMMA TakeRequestCases ==
  ASSUME ServerTypeOK, NetTypeOK, NEW c \in Clients, TakeRequest(c)
  PROVE  LET m == Head(net[c])
             r == [m EXCEPT !.since = Len(held)]
         IN /\ net[c] # <<>> /\ net[c] \in Seq(Requests)
            /\ Len(held) \in Nat
            /\ m \in Requests /\ r \in Requests
            /\ m = net[c][1]
            /\ Tail(net[c]) \in Seq(Requests)
            /\ Id(r) = Id(m) /\ Id(r) = <<r.client, r.call>>
            /\ r.list = m.list /\ r.test = m.test /\ r.since = Len(held)
            /\ r.left = m.left /\ r.wait = m.wait
            /\ queue' = <<r>> \o queue
            /\ queue' \in Seq(Requests) /\ Len(queue') = Len(queue) + 1
            /\ queue'[1] = r
            /\ \A i \in 1 .. Len(queue) : queue'[i + 1] = queue[i]
            /\ net' = [net EXCEPT ![c] = Tail(net[c])]
            /\ accepted' = accepted \union {<<c, m.call>>}
            /\ acked' = [acked EXCEPT ![c] = m.call]
            /\ spc' = "serve"
<1> DEFINE m == Head(net[c])
           r == [m EXCEPT !.since = Len(held)]
<1>1. /\ net[c] \in Seq(Requests) /\ net[c] # <<>> /\ Len(held) \in Nat
  BY DEF TakeRequest, NetTypeOK, ServerTypeOK
<1>2. m \in Requests /\ Tail(net[c]) \in Seq(Requests) /\ m = net[c][1]
  BY <1>1
<1>3. /\ r \in Requests /\ Id(r) = Id(m) /\ Id(r) = <<r.client, r.call>>
      /\ r.list = m.list /\ r.test = m.test /\ r.since = Len(held)
      /\ r.left = m.left /\ r.wait = m.wait
  BY <1>1, <1>2 DEF Requests, Id
<1>4. /\ queue' = <<r>> \o queue
      /\ net' = [net EXCEPT ![c] = Tail(net[c])]
      /\ accepted' = accepted \union {<<c, r.call>>} /\ r.call = m.call
      /\ acked' = [acked EXCEPT ![c] = r.call]
      /\ spc' = "serve"
  BY <1>2 DEF TakeRequest, Requests
<1> HIDE DEF r
<1>5. queue \in Seq(Requests)
  BY DEF ServerTypeOK
<1>6. /\ queue' \in Seq(Requests) /\ Len(queue') = Len(queue) + 1
      /\ queue'[1] = r
      /\ \A i \in 1 .. Len(queue) : queue'[i + 1] = queue[i]
  BY <1>3, <1>4, <1>5, AtHeadProperties
<1>7. QED
  BY <1>1, <1>2, <1>3, <1>4, <1>6 DEF r

\* What a call sends (thGetList_test).
LEMMA CallCases ==
  ASSUME NetTypeOK, ClientTypeOK, NEW c \in Clients, Call(c)
  PROVE  \E r \in Requests :
           /\ r.client = c /\ r.call = calls[c] + 1 /\ r.left = r.wait
           /\ r.list \in Lists[c] /\ r.test \in Tests[c]
           /\ net[c] \in Seq(Requests)
           /\ net' = [net EXCEPT ![c] = Append(net[c], r)]
           /\ arg' = [arg EXCEPT ![c] = [list |-> r.list, test |-> r.test]]
           /\ calls' = [calls EXCEPT ![c] = calls[c] + 1]
           /\ calls[c] \in Nat
           /\ [list |-> r.list, test |-> r.test]
                \in [list : Seq(Vars), test : Conditions \union {"none"}]
<1>1. PICK list \in Lists[c], test \in Tests[c], wait \in Waits :
        /\ arg' = [arg EXCEPT ![c] = [list |-> list, test |-> test]]
        /\ net' = [net EXCEPT ![c] =
                     Append(@, [client |-> c, call |-> calls[c] + 1, list |-> list, test |-> test,
                                wait |-> wait, left |-> wait, since |-> 0])]
  BY DEF Call
<1>2. /\ list \in Seq(Vars) /\ test \in Conditions /\ wait \in Nat
      /\ calls[c] \in Nat /\ net[c] \in Seq(Requests)
  BY RpcAssumption DEF NetTypeOK, ClientTypeOK
<1> DEFINE r == [client |-> c, call |-> calls[c] + 1, list |-> list, test |-> test,
                 wait |-> wait, left |-> wait, since |-> 0]
<1>3. /\ r \in Requests
      /\ r.client = c /\ r.call = calls[c] + 1 /\ r.left = r.wait
      /\ r.list = list /\ r.test = test
  BY <1>2 DEF Requests
<1>4. calls' = [calls EXCEPT ![c] = calls[c] + 1]
  BY DEF Call
<1>5. net' = [net EXCEPT ![c] = Append(net[c], r)]
  BY <1>1
<1> HIDE DEF r
<1>6. arg' = [arg EXCEPT ![c] = [list |-> r.list, test |-> r.test]]
  BY <1>1, <1>3
<1>7. [list |-> r.list, test |-> r.test] \in [list : Seq(Vars), test : Conditions \union {"none"}]
  BY <1>2, <1>3
<1>8. QED
  BY <1>2, <1>3, <1>4, <1>5, <1>6, <1>7

\* The good values of an answer: those that are not an error code.
Good(values) == {i \in DOMAIN values : values[i] # NoValue}

\* The variables of a client with those values stored that are good.
Stored(c, values) ==
  [v \in Vars |-> IF \E i \in Good(values) : arg[c].list[i] = v
                  THEN values[CHOOSE i \in Good(values) : arg[c].list[i] = v]
                  ELSE vals[c][v]]

\* There are finitely many good values; with none missing all are.
LEMMA GoodCount ==
  ASSUME NEW values \in Seq(Readings)
  PROVE  /\ Cardinality(Good(values)) \in Nat
         /\ Len(values) - Cardinality(Good(values)) = 0 => Good(values) = DOMAIN values
<1>1. Good(values) \in SUBSET (1 .. Len(values)) /\ Len(values) \in Nat /\ DOMAIN values = 1 .. Len(values)
  BY DEF Good
<1>2. IsFiniteSet(1 .. Len(values)) /\ Cardinality(1 .. Len(values)) = Len(values)
  <2>1. /\ IsFiniteSet(1 .. Len(values))
        /\ Cardinality(1 .. Len(values)) = IF 1 > Len(values) THEN 0 ELSE Len(values) - 1 + 1
    BY <1>1, FS_Interval
  <2>2. QED
    BY <1>1, <2>1
<1>3. /\ IsFiniteSet(Good(values))
      /\ Cardinality(1 .. Len(values)) = Cardinality(Good(values)) => 1 .. Len(values) = Good(values)
  BY <1>1, <1>2, FS_Subset
<1>4. Cardinality(Good(values)) \in Nat
  BY <1>3, FS_CardinalityType
<1>5. QED
  BY <1>1, <1>2, <1>3, <1>4

\* An answer is stored, or refused (davar_readmultiple_test_cb_1).
LEMMA ServeCallbackCases ==
  ASSUME NetTypeOK, NEW c \in Clients, ServeCallback(c)
  PROVE  \E m \in inbox[c] :
           /\ m.values \in Seq(Readings)
           /\ inbox' = [inbox EXCEPT ![c] = inbox[c] \ {m}]
           /\ \/ /\ Len(m.values) = Len(arg[c].list)
                 /\ vals' = [vals EXCEPT ![c] = Stored(c, m.values)]
                 /\ callback_result' =
                      [callback_result EXCEPT ![c] = Len(m.values) - Cardinality(Good(m.values))]
              \/ /\ \E res \in {-1, -2} : callback_result' = [callback_result EXCEPT ![c] = res]
                 /\ UNCHANGED vals
<1>1. PICK m \in inbox[c] :
        /\ inbox' = [inbox EXCEPT ![c] = @ \ {m}]
        /\ IF Fits(c, m.values)
           THEN LET good == {i \in DOMAIN m.values : m.values[i] # NoValue} IN
                /\ vals' = [vals EXCEPT ![c] = [v \in Vars |->
                              IF \E i \in good : arg[c].list[i] = v
                              THEN m.values[CHOOSE i \in good : arg[c].list[i] = v]
                              ELSE @[v]]]
                /\ callback_result' =
                     [callback_result EXCEPT ![c] = Len(m.values) - Cardinality(good)]
           ELSE /\ callback_result' =
                     [callback_result EXCEPT ![c] = IF m.values # <<>> THEN -1 ELSE -2]
                /\ UNCHANGED vals
  BY DEF ServeCallback
<1>2. m.values \in Seq(Readings)
  BY DEF NetTypeOK
<1>3. CASE Fits(c, m.values)
  BY <1>1, <1>2, <1>3 DEF Fits, Good, Stored
<1>4. CASE ~ Fits(c, m.values)
  BY <1>1, <1>2, <1>4
<1>5. QED
  BY <1>3, <1>4

\* The analyzer, the network and the clients keep their types.
LEMMA TypeStep == TypeOK /\ ScanInv /\ [Next]_vars => TypeOK'
<1> SUFFICES ASSUME TypeOK, ScanInv, [Next]_vars
             PROVE  TypeOK'
  OBVIOUS
<1>0. ServerTypeOK /\ NetTypeOK /\ ClientTypeOK
  BY DEF TypeOK
<1>1. CASE NextEvent
  BY <1>0, <1>1, SMTT(30) DEF NextEvent, TypeOK, ServerTypeOK, NetTypeOK, ClientTypeOK
<1>2. CASE TakeOther \/ BeginScan \/ EndOfRun
  <2>1. ServerTypeOK'
    BY <1>0, <1>2 DEF TakeOther, BeginScan, EndOfRun, ServerTypeOK
  <2>2. NetTypeOK' /\ ClientTypeOK'
    BY <1>0, <1>2 DEF TakeOther, BeginScan, EndOfRun, NetTypeOK, ClientTypeOK
  <2>3. QED
    BY <2>1, <2>2 DEF TypeOK
<1>3. CASE CallBack
  <2> DEFINE r == CountDown(queue[at])
  <2>1. /\ spc = "scan" /\ at \in 1 .. Len(queue) /\ held # <<>> /\ Len(held) \in Nat
        /\ queue[at] \in Requests /\ r \in Requests
        /\ UNCHANGED <<spc, held, rpc_pend, rpc_control, accepted, net, acked, clientVars>>
    BY <1>0, <1>3, CallBackCases
  <2> HIDE DEF r
  <2>2. CASE /\ Send(r)
             /\ queue' = Unlink(at)
             /\ answered' = Append(answered, Id(queue[at]))
             /\ processed' = processed + 1
             /\ UNCHANGED <<at, pending>>
    <3>1. queue' \in Seq(Requests)
      BY <1>0, <2>1, <2>2, RemoveAtProperties DEF Unlink, ServerTypeOK
    <3>2. Id(queue[at]) \in Clients \X Nat /\ r.client \in Clients /\ r.call \in Nat
      BY <2>1 DEF Requests, Id
    <3>3. Values(r) \in Seq(Readings)
      BY <2>1, ValuesType
    <3>4. [call |-> r.call, values |-> Values(r)] \in [call : Nat, values : Seq(Readings)]
      BY <3>2, <3>3
    <3>5. inbox' \in [Clients -> SUBSET [call : Nat, values : Seq(Readings)]]
      BY <1>0, <2>2, <3>2, <3>4 DEF Send, NetTypeOK
    <3>6. ServerTypeOK'
      BY <1>0, <2>1, <2>2, <3>1, <3>2 DEF ServerTypeOK
    <3>7. NetTypeOK' /\ ClientTypeOK'
      BY <1>0, <2>1, <3>5 DEF NetTypeOK, ClientTypeOK
    <3>8. QED
      BY <3>6, <3>7 DEF TypeOK
  <2>3. CASE /\ queue' = [queue EXCEPT ![at] = r]
             /\ at' = at + 1
             /\ pending' = pending + 1
             /\ UNCHANGED <<inbox, processed, answered>>
    <3>1. ServerTypeOK'
      BY <1>0, <2>1, <2>3 DEF ServerTypeOK
    <3>2. QED
      BY <1>0, <2>1, <2>3, <3>1 DEF TypeOK, NetTypeOK, ClientTypeOK
  <2>4. QED
    BY <1>0, <1>3, <2>2, <2>3, CallBackCases DEF r
<1>4. CASE EndScan
  BY <1>0, <1>4, SMTT(30) DEF EndScan, Outstanding, Returned, TypeOK, ServerTypeOK, NetTypeOK, ClientTypeOK
<1>5. ASSUME NEW c \in Clients, TakeRequest(c)
      PROVE  TypeOK'
  <2> DEFINE m == Head(net[c])
  <2>1. /\ m \in Requests /\ Tail(net[c]) \in Seq(Requests)
        /\ queue' \in Seq(Requests)
        /\ net' = [net EXCEPT ![c] = Tail(net[c])]
        /\ accepted' = accepted \union {<<c, m.call>>}
        /\ acked' = [acked EXCEPT ![c] = m.call]
        /\ spc' = "serve"
    BY <1>0, <1>5, TakeRequestCases
  <2> HIDE DEF m
  <2>2. m.call \in Nat
    BY <2>1 DEF Requests
  <2>3. ServerTypeOK'
    BY <1>0, <1>5, <2>1, <2>2 DEF TakeRequest, ServerTypeOK
  <2>4. NetTypeOK' /\ ClientTypeOK'
    BY <1>0, <1>5, <2>1, <2>2 DEF TakeRequest, NetTypeOK, ClientTypeOK
  <2>5. QED
    BY <2>3, <2>4 DEF TypeOK
<1>6. ASSUME NEW c \in Clients, Call(c)
      PROVE  TypeOK'
  <2>1. PICK r \in Requests :
          /\ net[c] \in Seq(Requests)
          /\ net' = [net EXCEPT ![c] = Append(net[c], r)]
          /\ arg' = [arg EXCEPT ![c] = [list |-> r.list, test |-> r.test]]
          /\ calls' = [calls EXCEPT ![c] = calls[c] + 1]
          /\ calls[c] \in Nat
          /\ [list |-> r.list, test |-> r.test]
                \in [list : Seq(Vars), test : Conditions \union {"none"}]
    BY <1>0, <1>6, CallCases
  <2>2. Append(net[c], r) \in Seq(Requests)
    BY <2>1
  <2>3. ServerTypeOK' /\ NetTypeOK'
    BY <1>0, <1>6, <2>1, <2>2 DEF Call, ServerTypeOK, NetTypeOK
  <2>4. ClientTypeOK'
    BY <1>0, <1>6, <2>1 DEF Call, ClientTypeOK
  <2>5. QED
    BY <2>3, <2>4 DEF TypeOK
<1>7. ASSUME NEW c \in Clients, Acknowledged(c)
      PROVE  TypeOK'
  BY <1>0, <1>7 DEF Acknowledged, TypeOK, ServerTypeOK, NetTypeOK, ClientTypeOK
<1>8. ASSUME NEW c \in Clients, CallFails(c) \/ Return(c) \/ TimeOut(c)
      PROVE  TypeOK'
  <2>1. PICK res \in Int : GoIdle(c, res)
    BY <1>0, <1>8 DEF CallFails, Return, TimeOut, ClientTypeOK
  <2>2. /\ UNCHANGED <<serverVars, net, acked, arg, pending_flag, vals, calls>>
        /\ callback_result' \in {callback_result, [callback_result EXCEPT ![c] = -2]}
    BY <1>8 DEF CallFails, Return, TimeOut
  <2>3. ServerTypeOK' /\ NetTypeOK'
    BY <1>0, <2>1, <2>2 DEF GoIdle, ServerTypeOK, NetTypeOK
  <2>4. ClientTypeOK'
    BY <1>0, <2>1, <2>2 DEF GoIdle, ClientTypeOK
  <2>5. QED
    BY <2>3, <2>4 DEF TypeOK
<1>9. ASSUME NEW c \in Clients, ServeCallback(c)
      PROVE  TypeOK'
  <2>1. PICK m \in inbox[c] :
          /\ m.values \in Seq(Readings)
          /\ inbox' = [inbox EXCEPT ![c] = inbox[c] \ {m}]
          /\ \/ /\ Len(m.values) = Len(arg[c].list)
                /\ vals' = [vals EXCEPT ![c] = Stored(c, m.values)]
                /\ callback_result' =
                     [callback_result EXCEPT ![c] = Len(m.values) - Cardinality(Good(m.values))]
             \/ /\ \E res \in {-1, -2} : callback_result' = [callback_result EXCEPT ![c] = res]
                /\ UNCHANGED vals
    BY <1>0, <1>9, ServeCallbackCases
  <2>2. Stored(c, m.values) \in [Vars -> Readings]
    <3>1. ASSUME NEW v \in Vars, \E i \in Good(m.values) : arg[c].list[i] = v
          PROVE  m.values[CHOOSE i \in Good(m.values) : arg[c].list[i] = v] \in Readings
      BY <2>1, <3>1 DEF Good
    <3>2. \A v \in Vars : vals[c][v] \in Readings
      BY <1>0 DEF ClientTypeOK
    <3>3. QED
      BY <3>1, <3>2 DEF Stored
  <2>3. vals' \in [Clients -> [Vars -> Readings]]
    BY <1>0, <2>1, <2>2 DEF ClientTypeOK
  <2>4. callback_result' \in [Clients -> Int]
    BY <1>0, <2>1, GoodCount DEF ClientTypeOK
  <2>5. ServerTypeOK' /\ NetTypeOK'
    BY <1>0, <1>9, <2>1 DEF ServeCallback, ServerTypeOK, NetTypeOK
  <2>6. ClientTypeOK'
    BY <1>0, <1>9, <2>3, <2>4 DEF ServeCallback, ClientTypeOK
  <2>7. QED
    BY <2>5, <2>6 DEF TypeOK
<1>10. CASE UNCHANGED vars
  BY <1>0, <1>10 DEF vars, TypeOK, ServerTypeOK, NetTypeOK, ClientTypeOK
<1>11. QED
  BY <1>1, <1>2, <1>3, <1>4, <1>5, <1>6, <1>7, <1>8, <1>9, <1>10, Zenon DEF Next, Server, Client

\* What a client does leaves the analyzer alone (and the other way round but
\* for the network).
LEMMA ClientSteps ==
  ASSUME NEW c \in Clients, Client(c)
  PROVE  /\ UNCHANGED serverVars
         /\ Call(c) \/ UNCHANGED <<net, calls>>
<1>1. CASE Call(c)
  BY <1>1 DEF Call
<1>2. CASE Acknowledged(c) \/ CallFails(c) \/ ServeCallback(c) \/ Return(c) \/ TimeOut(c)
  BY <1>2 DEF Acknowledged, CallFails, ServeCallback, Return, TimeOut
<1>3. QED
  BY <1>1, <1>2 DEF Client

\* The scan over the list and the number of requests outstanding.
LEMMA ScanStep == ServerTypeOK /\ NetTypeOK /\ ScanInv /\ [Next]_vars => ScanInv'
<1> SUFFICES ASSUME ServerTypeOK, NetTypeOK, ScanInv, [Next]_vars
             PROVE  ScanInv'
  OBVIOUS
<1>1. CASE NextEvent
  <2>1. Len(queue) = 0 => queue = <<>>
    BY DEF ServerTypeOK
  <2>2. held' # <<>>
    BY <1>1 DEF NextEvent, ServerTypeOK
  <2>3. QED
    BY <1>1, <2>1, <2>2 DEF NextEvent, Waiting, ScanInv
<1>2. CASE TakeOther
  BY <1>2 DEF TakeOther, ScanInv
<1>3. CASE BeginScan
  <2>1. Len(queue) \in Nat
    BY DEF ServerTypeOK
  <2>2. QED
    BY <1>3, <2>1 DEF BeginScan, ScanInv
<1>4. CASE CallBack
  <2>1. /\ spc = "scan" /\ at \in 1 .. Len(queue) /\ held # <<>> /\ Len(queue) \in Nat /\ pending = at - 1
        /\ UNCHANGED <<spc, held, rpc_pend>>
    BY <1>4, CallBackCases DEF ScanInv, ServerTypeOK
  <2>2. CASE queue' = Unlink(at) /\ UNCHANGED <<at, pending>>
    <3>1. Len(queue') = Len(queue) - 1
      BY <2>1, <2>2, RemoveAtProperties DEF Unlink, ServerTypeOK
    <3>2. QED
      BY <2>1, <2>2, <3>1 DEF ScanInv
  <2>3. CASE /\ queue' = [queue EXCEPT ![at] = CountDown(queue[at])]
             /\ at' = at + 1
             /\ pending' = pending + 1
    <3>1. Len(queue') = Len(queue)
      BY <2>3 DEF ServerTypeOK
    <3>2. QED
      BY <2>1, <2>3, <3>1 DEF ScanInv
  <2>4. QED
    BY <1>4, <2>2, <2>3, CallBackCases
<1>5. CASE EndScan
  <2>1. /\ spc = "scan" /\ at = Len(queue) + 1 /\ pending = Len(queue) /\ Len(queue) \in Nat
        /\ held # <<>> /\ processed \in Nat
    BY <1>5 DEF EndScan, ScanInv, ServerTypeOK
  <2>2. Returned = 0 => queue = <<>>
    BY <2>1 DEF Returned, ServerTypeOK
  <2>3. Outstanding(Returned) = Len(queue)
    BY <2>1 DEF Returned, Outstanding
  <2>4. QED
    BY <1>5, <2>1, <2>2, <2>3 DEF EndScan, ScanInv
<1>6. CASE EndOfRun
  BY <1>6 DEF EndOfRun, ScanInv
<1>7. ASSUME NEW c \in Clients, TakeRequest(c)
      PROVE  ScanInv'
  BY <1>7 DEF TakeRequest, ScanInv
<1>8. ASSUME NEW c \in Clients, Client(c)
      PROVE  ScanInv'
  BY <1>8, ClientSteps DEF ScanInv
<1>9. CASE UNCHANGED vars
  BY <1>9 DEF vars, ScanInv
<1>10. QED
  BY <1>1, <1>2, <1>3, <1>4, <1>5, <1>6, <1>7, <1>8, <1>9, Zenon DEF Next, Server

\* Taking a request out of the list takes its identity out of the list's.
LEMMA IdsRemoved ==
  ASSUME NEW s \in Seq(Requests), NEW n \in 1 .. Len(s),
         \A i, j \in DOMAIN s : Id(s[i]) = Id(s[j]) => i = j
  PROVE  /\ Ids(RemoveAt(s, n)) = Ids(s) \ {Id(s[n])}
         /\ \A i, j \in DOMAIN RemoveAt(s, n) : Id(RemoveAt(s, n)[i]) = Id(RemoveAt(s, n)[j]) => i = j
<1> DEFINE t == RemoveAt(s, n)
           Old(i) == IF i < n THEN i ELSE i + 1
<1>1. /\ DOMAIN s = 1 .. Len(s) /\ DOMAIN t = 1 .. Len(s) - 1 /\ Len(s) \in Nat /\ n \in Nat
      /\ \A i \in DOMAIN t : t[i] = s[Old(i)]
  <2>1. /\ t \in Seq(Requests) /\ Len(t) = Len(s) - 1
        /\ \A i \in 1 .. Len(s) - 1 : t[i] = IF i < n THEN s[i] ELSE s[i + 1]
    BY RemoveAtProperties
  <2>2. QED
    BY <2>1
<1> HIDE DEF t
<1>2. /\ \A i \in DOMAIN t : Old(i) \in DOMAIN s /\ Old(i) # n
      /\ \A i, j \in DOMAIN t : Old(i) = Old(j) => i = j
  BY <1>1
<1>3. \A k \in DOMAIN s : k # n => \E i \in DOMAIN t : k = Old(i)
  <2> SUFFICES ASSUME NEW k \in DOMAIN s, k # n
               PROVE  \E i \in DOMAIN t : k = Old(i)
    OBVIOUS
  <2>1. CASE k < n
    BY <1>1, <2>1
  <2>2. CASE k > n
    <3>1. k - 1 \in DOMAIN t /\ Old(k - 1) = k
      BY <1>1, <2>2
    <3>2. QED
      BY <3>1
  <2>3. QED
    BY <1>1, <2>1, <2>2
<1> HIDE DEF Old
<1>4. Ids(s) = {Id(s[k]) : k \in DOMAIN s} /\ Ids(t) = {Id(t[i]) : i \in DOMAIN t}
  BY DEF Ids, Id
<1>5. Ids(t) = Ids(s) \ {Id(s[n])}
  <2>1. ASSUME NEW id \in Ids(t)
        PROVE  id \in Ids(s) \ {Id(s[n])}
    <3>1. PICK i \in DOMAIN t : id = Id(s[Old(i)])
      BY <1>1, <1>4
    <3>2. Old(i) \in DOMAIN s /\ n \in DOMAIN s /\ Old(i) # n
      BY <1>1, <1>2
    <3>3. QED
      BY <1>4, <3>1, <3>2
  <2>2. ASSUME NEW id \in Ids(s), id # Id(s[n])
        PROVE  id \in Ids(t)
    <3>1. PICK k \in DOMAIN s : id = Id(s[k])
      BY <1>4
    <3>2. PICK i \in DOMAIN t : k = Old(i)
      BY <1>3, <2>2, <3>1
    <3>3. QED
      BY <1>1, <1>4, <3>1, <3>2
  <2>3. QED
    BY <2>1, <2>2
<1>6. \A i, j \in DOMAIN t : Id(t[i]) = Id(t[j]) => i = j
  BY <1>1, <1>2
<1>7. QED
  BY <1>5, <1>6 DEF t

\* What one more element adds to the set of a sequence's elements.
LEMMA AppendedSet ==
  ASSUME NEW S, NEW s \in Seq(S), NEW e \in S
  PROVE  /\ ToSet(Append(s, e)) = ToSet(s) \union {e}
         /\ IsInjective(s) /\ e \notin ToSet(s) => IsInjective(Append(s, e))
<1>1. /\ DOMAIN s = 1 .. Len(s) /\ Len(s) \in Nat
      /\ DOMAIN Append(s, e) = 1 .. Len(s) + 1
      /\ \A i \in DOMAIN s : Append(s, e)[i] = s[i]
      /\ Append(s, e)[Len(s) + 1] = e
  OBVIOUS
<1> DEFINE t == Append(s, e)
<1> HIDE DEF t
<1>2. /\ \A i \in DOMAIN t : i \in DOMAIN s \/ i = Len(s) + 1
      /\ \A i \in DOMAIN s : i \in DOMAIN t /\ t[i] = s[i]
      /\ Len(s) + 1 \in DOMAIN t /\ t[Len(s) + 1] = e
  BY <1>1 DEF t
<1>3. ToSet(t) = ToSet(s) \union {e}
  BY <1>2 DEF ToSet
<1>4. IsInjective(s) /\ e \notin ToSet(s) => IsInjective(t)
  BY <1>2 DEF ToSet, IsInjective
<1>5. QED
  BY <1>3, <1>4 DEF t

\* An answer is given for a request of the list, and to nobody twice.
LEMMA IdStep ==
  ServerTypeOK /\ NetTypeOK /\ ClientTypeOK /\ ScanInv /\ NetInv /\ IdInv /\ [Next]_vars => IdInv'
<1> SUFFICES ASSUME ServerTypeOK, NetTypeOK, ClientTypeOK, ScanInv, NetInv, IdInv, [Next]_vars
             PROVE  IdInv'
  OBVIOUS
<1>1. CASE UNCHANGED <<queue, accepted, answered, calls>>
  BY <1>1 DEF IdInv, Ids
<1>2. CASE NextEvent \/ TakeOther \/ BeginScan \/ EndScan \/ EndOfRun
  BY <1>1, <1>2 DEF NextEvent, TakeOther, BeginScan, EndScan, EndOfRun
<1>3. CASE CallBack
  <2>1. /\ at \in 1 .. Len(queue) /\ queue[at] \in Requests
        /\ UNCHANGED <<accepted, calls>> /\ queue \in Seq(Requests)
    BY <1>3, CallBackCases DEF ServerTypeOK
  <2>2. CASE queue' = Unlink(at) /\ answered' = Append(answered, Id(queue[at]))
    <3> DEFINE id == Id(queue[at])
    <3>1. /\ Ids(queue)' = Ids(queue) \ {id}
          /\ \A i, j \in DOMAIN queue' : Id(queue'[i]) = Id(queue'[j]) => i = j
      <4>1. \A i, j \in DOMAIN queue : Id(queue[i]) = Id(queue[j]) => i = j
        BY DEF IdInv
      <4>2. /\ Ids(RemoveAt(queue, at)) = Ids(queue) \ {id}
            /\ \A i, j \in DOMAIN RemoveAt(queue, at) :
                 Id(RemoveAt(queue, at)[i]) = Id(RemoveAt(queue, at)[j]) => i = j
        BY <2>1, <4>1, IdsRemoved
      <4>3. queue' = RemoveAt(queue, at)
        BY <2>2 DEF Unlink
      <4>4. Ids(queue)' = Ids(queue')
        BY DEF Ids
      <4>5. QED
        BY <4>2, <4>3, <4>4
    <3>2. id \in Ids(queue) /\ id \in Clients \X Nat
      <4>1. at \in DOMAIN queue /\ queue[at].client \in Clients /\ queue[at].call \in Nat
        BY <2>1, SMTT(30) DEF Requests
      <4>2. QED
        BY <4>1 DEF Ids, Id
    <3>3. answered \in Seq(Clients \X Nat) /\ id \notin ToSet(answered)
      <4>1. Ids(queue) \intersect ToSet(answered) = {}
        BY DEF IdInv
      <4>2. QED
        BY <3>2, <4>1 DEF ServerTypeOK
    <3> HIDE DEF id
    <3>4. answered' = Append(answered, id)
      BY <2>2 DEF id
    <3>5. ToSet(answered)' = ToSet(answered) \union {id}
      BY <3>2, <3>3, <3>4, AppendedSet
    <3>6. IsInjective(answered)'
      BY <3>2, <3>3, <3>4, AppendedSet DEF IdInv
    <3>7. /\ accepted' = Ids(queue)' \union ToSet(answered)'
          /\ Ids(queue)' \intersect ToSet(answered)' = {}
      BY <2>1, <3>1, <3>2, <3>5 DEF IdInv
    <3>8. QED
      BY <2>1, <3>1, <3>6, <3>7 DEF IdInv
  <2>3. CASE queue' = [queue EXCEPT ![at] = CountDown(queue[at])] /\ UNCHANGED answered
    <3>1. /\ DOMAIN queue' = DOMAIN queue
          /\ \A i \in DOMAIN queue : Id(queue'[i]) = Id(queue[i])
      BY <2>1, <2>3, RequestUpdates DEF Id, Requests, CountDown
    <3>2. Ids(queue)' = Ids(queue)
      BY <3>1 DEF Ids, Id
    <3>3. \A i, j \in DOMAIN queue' : Id(queue'[i]) = Id(queue'[j]) => i = j
      BY <3>1 DEF IdInv
    <3>4. ToSet(answered)' = ToSet(answered) /\ (IsInjective(answered)' <=> IsInjective(answered))
      BY <2>3
    <3>5. QED
      BY <2>1, <3>2, <3>3, <3>4 DEF IdInv
  <2>4. QED
    BY <1>3, <2>2, <2>3, CallBackCases
<1>4. ASSUME NEW c \in Clients, TakeRequest(c)
      PROVE  IdInv'
  <2> DEFINE m == Head(net[c])
             r == [m EXCEPT !.since = Len(held)]
  <2>1. /\ m \in Requests /\ r \in Requests /\ m = net[c][1] /\ net[c] \in Seq(Requests)
        /\ net[c] # <<>> /\ Id(r) = Id(m)
        /\ Len(queue') = Len(queue) + 1
        /\ queue' \in Seq(Requests)
        /\ queue'[1] = r
        /\ \A i \in 1 .. Len(queue) : queue'[i + 1] = queue[i]
        /\ accepted' = accepted \union {<<c, m.call>>}
    BY <1>4, TakeRequestCases
  <2>2. 1 \in DOMAIN net[c]
    BY <2>1
  <2>3. UNCHANGED <<answered, calls>> /\ queue \in Seq(Requests) /\ Len(queue) \in Nat
    BY <1>4 DEF TakeRequest, ServerTypeOK
  <2> HIDE DEF r, m
  <2>4. /\ <<c, m.call>> = Id(m) /\ Id(m) \notin accepted /\ m.call <= calls[c]
    BY <2>1, <2>2 DEF NetInv, Id
  <2>5. DOMAIN queue = 1 .. Len(queue) /\ DOMAIN queue' = 1 .. Len(queue) + 1
    BY <2>1, <2>3
  <2>6. Ids(queue)' = Ids(queue) \union {Id(m)}
    <3>1. Ids(queue) = {Id(queue[i]) : i \in DOMAIN queue} /\ Ids(queue)' = {Id(queue'[i]) : i \in DOMAIN queue'}
      BY DEF Ids, Id
    <3>2. \A i \in DOMAIN queue' : i = 1 \/ (i - 1 \in DOMAIN queue /\ queue'[i] = queue[i - 1])
      BY <2>1, <2>3, <2>5
    <3>3. \A i \in DOMAIN queue : i + 1 \in DOMAIN queue' /\ queue'[i + 1] = queue[i]
      BY <2>1, <2>3, <2>5
    <3>4. 1 \in DOMAIN queue'
      BY <2>3, <2>5
    <3>5. ASSUME NEW id \in Ids(queue)'
          PROVE  id \in Ids(queue) \union {Id(m)}
      BY <2>1, <3>1, <3>2, <3>5
    <3>6. ASSUME NEW id \in Ids(queue) \union {Id(m)}
          PROVE  id \in Ids(queue)'
      BY <2>1, <3>1, <3>3, <3>4, <3>6
    <3>7. QED
      BY <3>5, <3>6
  <2>7. ASSUME NEW i \in DOMAIN queue', NEW j \in DOMAIN queue', Id(queue'[i]) = Id(queue'[j])
        PROVE  i = j
    <3>1. \A k \in DOMAIN queue : Id(queue[k]) # Id(m)
      BY <2>4 DEF IdInv, Ids, Id
    <3>2. \A k \in DOMAIN queue' : k # 1 => k - 1 \in DOMAIN queue /\ queue'[k] = queue[k - 1]
      BY <2>1, <2>3, <2>5
    <3>3. i \in Nat /\ j \in Nat
      BY <2>5
    <3>4. CASE i = 1 \/ j = 1
      BY <2>1, <2>7, <3>1, <3>2, <3>4
    <3>5. CASE i # 1 /\ j # 1
      <4>1. i - 1 = j - 1
        BY <2>7, <3>2, <3>5 DEF IdInv
      <4>2. QED
        BY <3>3, <4>1
    <3>6. QED
      BY <3>4, <3>5
  <2>8. /\ accepted' = Ids(queue)' \union ToSet(answered)'
        /\ Ids(queue)' \intersect ToSet(answered)' = {}
    BY <2>1, <2>3, <2>4, <2>6 DEF IdInv
  <2>9. \A id \in accepted' : id[2] <= calls'[id[1]]
    <3>1. ASSUME NEW id \in accepted', id \notin accepted
          PROVE  id[2] <= calls[id[1]]
      <4>1. id = <<c, m.call>>
        BY <2>1, <3>1
      <4>2. QED
        BY <2>4, <4>1
    <3>2. QED
      BY <2>3, <3>1 DEF IdInv
  <2>10. QED
    BY <2>3, <2>7, <2>8, <2>9 DEF IdInv
<1>5. ASSUME NEW c \in Clients, Client(c)
      PROVE  IdInv'
  <2>1. CASE Call(c)
    <3>1. UNCHANGED <<queue, accepted, answered>> /\ calls' = [calls EXCEPT ![c] = calls[c] + 1]
      BY <2>1 DEF Call
    <3>2. \A d \in Clients : calls[d] \in Nat /\ calls'[d] \in {calls[d], calls[d] + 1}
      BY <3>1 DEF ClientTypeOK
    <3>3. \A id \in accepted : id[1] \in Clients /\ id[2] \in Nat
      BY DEF ServerTypeOK
    <3>4. \A id \in accepted : id[2] <= calls'[id[1]]
      BY <3>2, <3>3 DEF IdInv
    <3>5. Ids(queue)' = Ids(queue)
      BY <3>1 DEF Ids
    <3>6. QED
      BY <3>1, <3>4, <3>5 DEF IdInv
  <2>2. QED
    BY <1>1, <1>5, <2>1, ClientSteps
<1>6. CASE UNCHANGED vars
  BY <1>1, <1>6 DEF vars
<1>7. QED
  BY <1>2, <1>3, <1>4, <1>5, <1>6, Zenon DEF Next, Server

\* Requests reach the analyzer in the order of the calls, each once.
LEMMA NetStep ==
  ServerTypeOK /\ NetTypeOK /\ ClientTypeOK /\ ScanInv /\ IdInv /\ NetInv /\ [Next]_vars => NetInv'
<1> SUFFICES ASSUME ServerTypeOK, NetTypeOK, ClientTypeOK, ScanInv, IdInv, NetInv, [Next]_vars
             PROVE  NetInv'
  OBVIOUS
<1>1. CASE UNCHANGED <<net, accepted, calls>>
  BY <1>1 DEF NetInv
<1>2. CASE NextEvent \/ TakeOther \/ BeginScan \/ CallBack \/ EndScan \/ EndOfRun
  BY <1>1, <1>2 DEF NextEvent, TakeOther, BeginScan, CallBack, EndScan, EndOfRun
<1>3. ASSUME NEW c \in Clients, TakeRequest(c)
      PROVE  NetInv'
  <2> DEFINE m == Head(net[c])
  <2>1. /\ m = net[c][1] /\ net[c] \in Seq(Requests) /\ net[c] # <<>>
        /\ net' = [net EXCEPT ![c] = Tail(net[c])]
        /\ accepted' = accepted \union {<<c, m.call>>}
    BY <1>3, TakeRequestCases
  <2>2. UNCHANGED calls /\ net \in [Clients -> Seq(Requests)]
    BY <1>3 DEF TakeRequest, NetTypeOK
  <2> HIDE DEF m
  <2>3. ASSUME NEW d \in Clients, d # c, NEW i \in DOMAIN net[d]
        PROVE  Id(net[d][i]) \notin accepted'
    BY <2>1, <2>3 DEF NetInv, Id
  <2>4. /\ Len(net[c]) \in Nat \ {0} /\ DOMAIN net[c] = 1 .. Len(net[c])
        /\ DOMAIN Tail(net[c]) = 1 .. Len(net[c]) - 1
        /\ \A i \in DOMAIN Tail(net[c]) : Tail(net[c])[i] = net[c][i + 1]
    BY <2>1
  <2>5. \A i \in DOMAIN net[c] : net[c][i].call \in Nat
    <3>1. \A i \in DOMAIN net[c] : net[c][i] \in Requests
      BY <2>1
    <3>2. QED
      BY <3>1, RequestFields
  <2>6. ASSUME NEW i \in DOMAIN Tail(net[c])
        PROVE  LET r == Tail(net[c])[i] IN
                 /\ r.client = c /\ r.call <= calls[c] /\ r.left = r.wait
                 /\ Id(r) \notin accepted'
                 /\ \A j \in DOMAIN Tail(net[c]) : i < j => r.call < Tail(net[c])[j].call
    <3>1. i \in Nat /\ i + 1 \in DOMAIN net[c] /\ 1 \in DOMAIN net[c] /\ 1 < i + 1
      BY <2>4
    <3>2. /\ net[c][i + 1].client = c /\ net[c][i + 1].call <= calls[c]
          /\ net[c][i + 1].left = net[c][i + 1].wait
          /\ Id(net[c][i + 1]) \notin accepted
          /\ net[c][1].call < net[c][i + 1].call
      BY <3>1 DEF NetInv
    <3>3. Id(net[c][i + 1]) # <<c, m.call>>
      BY <2>1, <2>5, <3>1, <3>2 DEF Id
    <3>4. \A j \in DOMAIN Tail(net[c]) : i < j => i + 1 < j + 1 /\ j + 1 \in DOMAIN net[c]
      BY <2>4, <3>1
    <3>5. \A j \in DOMAIN Tail(net[c]) : i < j => net[c][i + 1].call < net[c][j + 1].call
      BY <3>1, <3>4 DEF NetInv
    <3>6. QED
      BY <2>1, <2>4, <3>2, <3>3, <3>5
  <2>7. ASSUME NEW d \in Clients, NEW i \in DOMAIN net'[d]
        PROVE  LET r == net'[d][i] IN
                 /\ r.client = d /\ r.call <= calls'[d] /\ r.left = r.wait
                 /\ Id(r) \notin accepted'
                 /\ \A j \in DOMAIN net'[d] : i < j => r.call < net'[d][j].call
    <3>1. CASE d = c
      <4>1. net'[d] = Tail(net[c])
        BY <2>1, <2>2, <3>1
      <4>2. QED
        BY <2>2, <2>6, <3>1, <4>1
    <3>2. CASE d # c
      <4>1. net'[d] = net[d]
        BY <2>1, <2>2, <3>2
      <4>2. QED
        BY <2>2, <2>3, <3>2, <4>1 DEF NetInv
    <3>3. QED
      BY <3>1, <3>2
  <2>8. QED
    BY <2>7 DEF NetInv
<1>4. ASSUME NEW c \in Clients, Call(c)
      PROVE  NetInv'
  <2>1. PICK r \in Requests :
          /\ r.client = c /\ r.call = calls[c] + 1 /\ r.left = r.wait
          /\ net[c] \in Seq(Requests)
          /\ net' = [net EXCEPT ![c] = Append(net[c], r)]
          /\ calls' = [calls EXCEPT ![c] = calls[c] + 1]
          /\ calls[c] \in Nat
    BY <1>4, CallCases
  <2>2. UNCHANGED accepted /\ net \in [Clients -> Seq(Requests)] /\ calls \in [Clients -> Nat]
    BY <1>4 DEF Call, NetTypeOK, ClientTypeOK
  <2>3. /\ Len(net[c]) \in Nat /\ DOMAIN net[c] = 1 .. Len(net[c])
        /\ DOMAIN Append(net[c], r) = 1 .. Len(net[c]) + 1
        /\ \A i \in DOMAIN net[c] : Append(net[c], r)[i] = net[c][i]
        /\ Append(net[c], r)[Len(net[c]) + 1] = r
    BY <2>1
  <2>4. Id(r) \notin accepted
    <3>1. Id(r) \in accepted => calls[c] + 1 <= calls[c]
      BY <2>1 DEF IdInv, Id
    <3>2. QED
      BY <2>1, <3>1
  <2>5. \A i \in DOMAIN net[c] : net[c][i].call \in Nat /\ net[c][i].call <= calls[c]
    <3>1. \A i \in DOMAIN net[c] : net[c][i] \in Requests
      BY <2>1
    <3>2. \A i \in DOMAIN net[c] : net[c][i].call <= calls[c]
      BY DEF NetInv
    <3>3. QED
      BY <3>1, <3>2, RequestFields
  <2>6. ASSUME NEW i \in DOMAIN Append(net[c], r)
        PROVE  LET m == Append(net[c], r)[i] IN
                 /\ m.client = c /\ m.call <= calls[c] + 1 /\ m.left = m.wait
                 /\ Id(m) \notin accepted
                 /\ \A j \in DOMAIN Append(net[c], r) : i < j => m.call < Append(net[c], r)[j].call
    <3>1. CASE i \in DOMAIN net[c]
      <4>1. /\ net[c][i].client = c /\ net[c][i].call <= calls[c] + 1
            /\ net[c][i].left = net[c][i].wait /\ Id(net[c][i]) \notin accepted
            /\ \A j \in DOMAIN net[c] : i < j => net[c][i].call < net[c][j].call
            /\ net[c][i].call < calls[c] + 1
        BY <2>1, <2>5, <3>1 DEF NetInv
      <4>2. \A j \in DOMAIN Append(net[c], r) : j \in DOMAIN net[c] \/ j = Len(net[c]) + 1
        BY <2>3
      <4>3. QED
        BY <2>1, <2>3, <3>1, <4>1, <4>2
    <3>2. CASE i = Len(net[c]) + 1
      <4>1. \A j \in DOMAIN Append(net[c], r) : ~ i < j
        BY <2>3, <3>2
      <4>2. QED
        BY <2>1, <2>3, <2>4, <3>2, <4>1
    <3>3. QED
      BY <2>3, <3>1, <3>2
  <2>7. ASSUME NEW d \in Clients, NEW i \in DOMAIN net'[d]
        PROVE  LET m == net'[d][i] IN
                 /\ m.client = d /\ m.call <= calls'[d] /\ m.left = m.wait
                 /\ Id(m) \notin accepted'
                 /\ \A j \in DOMAIN net'[d] : i < j => m.call < net'[d][j].call
    <3>1. CASE d = c
      <4>1. net'[d] = Append(net[c], r) /\ calls'[d] = calls[c] + 1
        BY <2>1, <2>2, <3>1
      <4>2. QED
        BY <2>2, <2>6, <3>1, <4>1
    <3>2. CASE d # c
      <4>1. net'[d] = net[d] /\ calls'[d] = calls[d]
        BY <2>1, <2>2, <3>2
      <4>2. QED
        BY <2>2, <3>2, <4>1 DEF NetInv
    <3>3. QED
      BY <3>1, <3>2
  <2>8. QED
    BY <2>7 DEF NetInv
<1>5. ASSUME NEW c \in Clients, Client(c)
      PROVE  NetInv'
  BY <1>1, <1>4, <1>5, ClientSteps
<1>6. CASE UNCHANGED vars
  BY <1>1, <1>6 DEF vars
<1>7. QED
  BY <1>2, <1>3, <1>5, <1>6, Zenon DEF Next, Server

\* The limit of a request is counted down once in each event.
LEMMA LimitStep ==
  ServerTypeOK /\ NetTypeOK /\ ScanInv /\ NetInv /\ LimitInv /\ [Next]_vars => LimitInv'
<1> SUFFICES ASSUME ServerTypeOK, NetTypeOK, ScanInv, NetInv, LimitInv, [Next]_vars
             PROVE  LimitInv'
  OBVIOUS
<1>0. /\ queue \in Seq(Requests) /\ Len(queue) \in Nat /\ DOMAIN queue = 1 .. Len(queue)
      /\ Len(held) \in Nat /\ at \in Nat
      /\ \A i \in DOMAIN queue : queue[i].since \in Nat /\ queue[i].left \in Int /\ queue[i].wait \in Nat
  <2>1. queue \in Seq(Requests) /\ Len(held) \in Nat /\ at \in Nat
    BY DEF ServerTypeOK
  <2>2. \A i \in DOMAIN queue : queue[i] \in Requests
    BY <2>1
  <2>3. QED
    BY <2>1, <2>2, RequestFields
<1>1. ASSUME UNCHANGED <<queue, held>>, \A i \in DOMAIN queue : Looked(i)' <=> Looked(i)
      PROVE  LimitInv'
  BY <1>1 DEF LimitInv
<1>2. CASE NextEvent
  <2>1. spc = "event" /\ Len(held') = Len(held) + 1 /\ spc' \in {"block", "serve"} /\ UNCHANGED queue
    BY <1>2 DEF NextEvent, ServerTypeOK
  <2>2. \A i : Looked(i) /\ ~ Looked(i)'
    BY <2>1 DEF Looked
  <2>3. QED
    BY <1>0, <2>1, <2>2, SMTT(30) DEF LimitInv
<1>3. CASE TakeOther \/ EndOfRun
  BY <1>1, <1>3 DEF TakeOther, EndOfRun, Looked
<1>4. CASE BeginScan
  <2>1. \A i \in DOMAIN queue : ~ i < 1
    BY <1>0
  <2>2. QED
    BY <1>1, <1>4, <2>1 DEF BeginScan, Looked
<1>5. CASE CallBack
  <2>1. /\ spc = "scan" /\ spc' = "scan" /\ at \in 1 .. Len(queue) /\ UNCHANGED held
        /\ queue[at] \in Requests
    BY <1>5, CallBackCases
  <2>2. CASE queue' = Unlink(at) /\ UNCHANGED at
    <3>1. /\ DOMAIN queue' = 1 .. Len(queue) - 1
          /\ \A i \in DOMAIN queue' : queue'[i] = IF i < at THEN queue[i] ELSE queue[i + 1]
      <4>1. /\ queue' \in Seq(Requests) /\ Len(queue') = Len(queue) - 1
            /\ \A i \in 1 .. Len(queue) - 1 : queue'[i] = IF i < at THEN queue[i] ELSE queue[i + 1]
        BY <1>0, <2>1, <2>2, RemoveAtProperties DEF Unlink
      <4>2. QED
        BY <4>1
    <3>2. ASSUME NEW i \in DOMAIN queue'
          PROVE  \E j \in DOMAIN queue : queue'[i] = queue[j] /\ (Looked(i)' <=> Looked(j))
      <4>1. CASE i < at
        BY <1>0, <2>1, <2>2, <3>1, <4>1 DEF Looked
      <4>2. CASE ~ i < at
        <5>1. i + 1 \in DOMAIN queue /\ ~ i + 1 < at
          BY <1>0, <3>1, <4>2
        <5>2. QED
          BY <2>1, <2>2, <3>1, <4>2, <5>1 DEF Looked
      <4>3. QED
        BY <4>1, <4>2
    <3>3. QED
      BY <2>1, <3>2 DEF LimitInv
  <2>3. CASE /\ CountDown(queue[at]).left >= 0
             /\ queue' = [queue EXCEPT ![at] = CountDown(queue[at])]
             /\ at' = at + 1
    <3>0. PICK k \in DOMAIN queue : k = at
      BY <1>0, <2>1
    <3>1. ASSUME NEW i \in DOMAIN queue, i # k
          PROVE  queue'[i] = queue[i] /\ (Looked(i)' <=> Looked(i))
      <4>1. queue'[i] = queue[i] /\ i \in Nat
        BY <1>0, <2>3, <3>0, <3>1
      <4>2. i < at + 1 <=> i < at
        BY <1>0, <3>0, <3>1, <4>1
      <4>3. QED
        BY <2>1, <2>3, <4>1, <4>2 DEF Looked
    <3>2. ~ Looked(k) /\ Looked(k)'
      BY <1>0, <2>1, <2>3, <3>0 DEF Looked
    <3>3. /\ queue'[k] = CountDown(queue[k])
          /\ queue'[k].since = queue[k].since /\ queue'[k].wait = queue[k].wait
          /\ queue'[k].left = queue[k].left - 1 /\ queue'[k].left >= 0
      BY <1>0, <2>1, <2>3, <3>0 DEF CountDown, Requests
    <3>4. DOMAIN queue' = DOMAIN queue
      BY <1>0, <2>1, <2>3
    <3>5. LET r == queue'[k] IN
            /\ r.since <= Len(held) /\ r.left >= 0
            /\ r.wait - r.left = Len(held) - r.since + 1
      BY <1>0, <3>2, <3>3 DEF LimitInv
    <3>6. ASSUME NEW i \in DOMAIN queue', i # k
          PROVE  LET r == queue'[i] IN
                   /\ r.since <= Len(held) /\ r.left >= 0
                   /\ r.wait - r.left = Len(held) - r.since + (IF Looked(i)' THEN 1 ELSE 0)
      BY <3>1, <3>4, <3>6 DEF LimitInv
    <3>7. QED
      BY <2>1, <3>2, <3>5, <3>6 DEF LimitInv
  <2>4. QED
    BY <1>5, <2>2, <2>3, CallBackCases
<1>6. CASE EndScan
  <2>1. /\ spc = "scan" /\ at > Len(queue) /\ UNCHANGED <<queue, held>>
        /\ spc' = "event" \/ (spc' = "block" /\ Returned = 0)
    BY <1>6 DEF EndScan
  <2>2. spc' = "block" => queue = <<>>
    BY <1>0, <2>1 DEF Returned, ScanInv, ServerTypeOK
  <2>3. \A i \in DOMAIN queue : i < at
    BY <1>0, <2>1
  <2>4. CASE spc' = "event"
    BY <1>1, <2>1, <2>3, <2>4 DEF Looked
  <2>5. CASE spc' = "block"
    BY <2>1, <2>2, <2>5 DEF LimitInv
  <2>6. QED
    BY <2>1, <2>4, <2>5
<1>7. ASSUME NEW c \in Clients, TakeRequest(c)
      PROVE  LimitInv'
  <2> DEFINE m == Head(net[c])
             r == [m EXCEPT !.since = Len(held)]
  <2>1. /\ m \in Requests /\ m = net[c][1] /\ net[c] \in Seq(Requests) /\ net[c] # <<>>
        /\ r.since = Len(held) /\ r.left = m.left /\ r.wait = m.wait
        /\ queue' \in Seq(Requests) /\ Len(queue') = Len(queue) + 1
        /\ queue'[1] = r
        /\ \A i \in 1 .. Len(queue) : queue'[i + 1] = queue[i]
        /\ spc' = "serve"
    BY <1>7, TakeRequestCases
  <2> HIDE DEF r, m
  <2>2. m.left = m.wait /\ m.wait \in Nat
    <3>1. 1 \in DOMAIN net[c]
      BY <2>1
    <3>2. m.left = m.wait
      BY <2>1, <3>1 DEF NetInv
    <3>3. QED
      BY <2>1, <3>2, RequestFields
  <2>3. spc \in {"serve", "block"} /\ UNCHANGED held
    BY <1>7 DEF TakeRequest
  <2>4. \A i : ~ Looked(i) /\ ~ Looked(i)'
    BY <2>1, <2>3 DEF Looked
  <2>5. ASSUME NEW i \in DOMAIN queue'
        PROVE  LET q == queue'[i] IN
                 /\ q.since <= Len(held) /\ q.left >= 0
                 /\ q.wait - q.left = Len(held) - q.since
    <3>1. CASE i = 1
      BY <1>0, <2>1, <2>2, <3>1
    <3>2. CASE i # 1
      <4>1. i - 1 \in DOMAIN queue /\ queue'[i] = queue[i - 1]
        BY <1>0, <2>1, <3>2
      <4>2. QED
        BY <1>0, <2>4, <4>1 DEF LimitInv
    <3>3. QED
      BY <3>1, <3>2
  <2>6. ASSUME NEW i \in DOMAIN queue'
        PROVE  queue'[i].wait \in Nat /\ queue'[i].left \in Int /\ queue'[i].since \in Nat
    <3>1. queue'[i] \in Requests
      BY <2>1
    <3>2. QED
      BY <3>1, RequestFields
  <2>7. QED
    BY <1>0, <2>3, <2>4, <2>5, <2>6 DEF LimitInv
<1>8. ASSUME NEW c \in Clients, Client(c)
      PROVE  LimitInv'
  BY <1>1, <1>8, ClientSteps DEF Looked
<1>9. CASE UNCHANGED vars
  BY <1>1, <1>9 DEF vars, Looked
<1>10. QED
  BY <1>2, <1>3, <1>4, <1>5, <1>6, <1>7, <1>8, <1>9, Zenon DEF Next, Server

\* More events take nothing from an answer that was right.
LEMMA AnswersLast ==
  ASSUME NEW c \in Clients, NEW m,
         held \in Seq(SUBSET Conditions), held' \in Seq(SUBSET Conditions),
         Len(held) <= Len(held'), \A e \in DOMAIN held : held'[e] = held[e],
         \E list \in Lists[c], test \in Tests[c], e \in DOMAIN held :
           test \in held[e] /\ m = ReadingsIn(list, e)
  PROVE  \E list \in Lists[c], test \in Tests[c], e \in DOMAIN held' :
           test \in held'[e] /\ m = ReadingsIn(list, e)
<1>1. PICK list \in Lists[c], test \in Tests[c], e \in DOMAIN held :
        test \in held[e] /\ m = ReadingsIn(list, e)
  OBVIOUS
<1>2. e \in DOMAIN held' /\ test \in held'[e]
  BY <1>1
<1>3. QED
  BY <1>1, <1>2

\* What is asked is what a client may ask, and what is answered is read in one
\* event.
LEMMA AnswerStep == TypeOK /\ ScanInv /\ NetInv /\ AnswerInv /\ [Next]_vars => AnswerInv'
<1> SUFFICES ASSUME TypeOK, ScanInv, NetInv, AnswerInv, [Next]_vars
             PROVE  AnswerInv'
  OBVIOUS
<1>0. ServerTypeOK /\ NetTypeOK /\ ClientTypeOK
  BY DEF TypeOK
<1>1. CASE UNCHANGED <<net, queue, inbox, held>>
  BY <1>1 DEF AnswerInv
<1>2. CASE NextEvent
  <2>1. UNCHANGED <<net, queue, inbox>>
    BY <1>2 DEF NextEvent
  <2>2. /\ held \in Seq(SUBSET Conditions) /\ held' \in Seq(SUBSET Conditions)
        /\ Len(held) <= Len(held') /\ \A e \in DOMAIN held : held'[e] = held[e]
    BY <1>0, <1>2 DEF NextEvent, ServerTypeOK
  <2>3. ASSUME NEW c \in Clients, NEW m \in inbox[c], m.values # <<>>
        PROVE  \E list \in Lists[c], test \in Tests[c], e \in DOMAIN held' :
                 test \in held'[e] /\ m.values = ReadingsIn(list, e)
    <3>1. \E list \in Lists[c], test \in Tests[c], e \in DOMAIN held :
            test \in held[e] /\ m.values = ReadingsIn(list, e)
      BY <2>3 DEF AnswerInv
    <3>2. QED
      BY <2>2, <3>1, AnswersLast
  <2>4. QED
    BY <2>1, <2>3 DEF AnswerInv
<1>3. CASE TakeOther \/ BeginScan \/ EndScan \/ EndOfRun
  BY <1>1, <1>3 DEF TakeOther, BeginScan, EndScan, EndOfRun
<1>4. CASE CallBack
  <2> DEFINE r == CountDown(queue[at])
  <2>1. /\ at \in 1 .. Len(queue) /\ queue[at] \in Requests /\ r \in Requests
        /\ held # <<>> /\ Len(held) \in Nat \ {0}
        /\ UNCHANGED <<net, held>>
        /\ queue \in Seq(Requests)
    BY <1>0, <1>4, CallBackCases DEF ServerTypeOK
  <2>2. r.client = queue[at].client /\ r.list = queue[at].list /\ r.test = queue[at].test
    BY <2>1 DEF CountDown, Requests
  <2> HIDE DEF r
  <2>3. at \in DOMAIN queue /\ DOMAIN queue = 1 .. Len(queue)
    BY <2>1
  <2>4. CASE Send(r) /\ queue' = Unlink(at)
    <3>1. \A i \in DOMAIN queue' : \E j \in DOMAIN queue : queue'[i] = queue[j]
      <4>1. /\ queue' \in Seq(Requests) /\ Len(queue') = Len(queue) - 1
            /\ \A i \in 1 .. Len(queue) - 1 : queue'[i] = IF i < at THEN queue[i] ELSE queue[i + 1]
        BY <2>1, <2>4, RemoveAtProperties DEF Unlink
      <4>2. DOMAIN queue' = 1 .. Len(queue) - 1 /\ Len(queue) \in Nat
        BY <2>1, <4>1
      <4>3. \A i \in DOMAIN queue' : i \in DOMAIN queue /\ i + 1 \in DOMAIN queue
        BY <2>3, <4>2
      <4>4. QED
        BY <4>1, <4>2, <4>3
    <3>2. ASSUME NEW c \in Clients, NEW m \in inbox'[c], m.values # <<>>
          PROVE  \E list \in Lists[c], test \in Tests[c], e \in DOMAIN held :
                   test \in held[e] /\ m.values = ReadingsIn(list, e)
      <4>1. CASE m \in inbox[c]
        BY <3>2, <4>1 DEF AnswerInv
      <4>2. CASE m \notin inbox[c]
        <5>1. c = r.client /\ m = [call |-> r.call, values |-> Values(r)]
          BY <1>0, <2>4, <4>2 DEF Send, NetTypeOK
        <5>2. m.values = Values(r)
          BY <5>1
        <5>3. r.test \in held[Len(held)] /\ m.values = ReadingsIn(r.list, Len(held))
          BY <2>1, <3>2, <5>2, ValuesType
        <5>4. r.list \in Lists[c] /\ r.test \in Tests[c]
          BY <2>2, <2>3, <5>1 DEF AnswerInv
        <5>5. Len(held) \in DOMAIN held
          BY <1>0, <2>1 DEF ServerTypeOK
        <5>6. QED
          BY <5>3, <5>4, <5>5
      <4>3. QED
        BY <4>1, <4>2
    <3>3. \A i \in DOMAIN queue' :
            queue'[i].list \in Lists[queue'[i].client] /\ queue'[i].test \in Tests[queue'[i].client]
      BY <3>1 DEF AnswerInv
    <3>4. QED
      BY <2>1, <3>2, <3>3 DEF AnswerInv
  <2>5. CASE queue' = [queue EXCEPT ![at] = r] /\ UNCHANGED inbox
    <3>1. DOMAIN queue' = DOMAIN queue
      BY <2>1, <2>5
    <3>2. ASSUME NEW i \in DOMAIN queue
          PROVE  /\ queue'[i].client = queue[i].client /\ queue'[i].list = queue[i].list
                 /\ queue'[i].test = queue[i].test
      BY <2>1, <2>2, <2>5
    <3>3. \A i \in DOMAIN queue' :
            queue'[i].list \in Lists[queue'[i].client] /\ queue'[i].test \in Tests[queue'[i].client]
      BY <3>1, <3>2 DEF AnswerInv
    <3>4. QED
      BY <2>1, <2>5, <3>3 DEF AnswerInv
  <2>6. QED
    BY <1>0, <1>4, <2>4, <2>5, CallBackCases DEF r
<1>5. ASSUME NEW c \in Clients, TakeRequest(c)
      PROVE  AnswerInv'
  <2> DEFINE m == Head(net[c])
             r == [m EXCEPT !.since = Len(held)]
  <2>1. /\ m = net[c][1] /\ net[c] \in Seq(Requests) /\ net[c] # <<>>
        /\ m \in Requests /\ Id(r) = Id(m) /\ r.list = m.list /\ r.test = m.test
        /\ Id(r) = <<r.client, r.call>>
        /\ queue' \in Seq(Requests) /\ Len(queue') = Len(queue) + 1
        /\ queue'[1] = r
        /\ \A i \in 1 .. Len(queue) : queue'[i + 1] = queue[i]
        /\ net' = [net EXCEPT ![c] = Tail(net[c])]
    BY <1>0, <1>5, TakeRequestCases
  <2>2. UNCHANGED <<held, inbox>> /\ queue \in Seq(Requests)
    BY <1>0, <1>5 DEF TakeRequest, ServerTypeOK
  <2>3. ASSUME NEW d \in Clients, NEW i \in DOMAIN net'[d]
        PROVE  net'[d][i].list \in Lists[d] /\ net'[d][i].test \in Tests[d]
    <3>1. CASE d = c
      <4>1. net'[d] = Tail(net[c])
        BY <1>0, <2>1, <3>1 DEF NetTypeOK
      <4>2. /\ Len(net[c]) \in Nat \ {0} /\ DOMAIN net[c] = 1 .. Len(net[c])
            /\ DOMAIN Tail(net[c]) = 1 .. Len(net[c]) - 1
            /\ \A k \in DOMAIN Tail(net[c]) : Tail(net[c])[k] = net[c][k + 1]
        BY <2>1
      <4>3. i + 1 \in DOMAIN net[c] /\ net'[d][i] = net[c][i + 1]
        BY <4>1, <4>2
      <4>4. QED
        BY <3>1, <4>3 DEF AnswerInv
    <3>2. CASE d # c
      <4>1. net'[d] = net[d]
        BY <1>0, <2>1, <3>2 DEF NetTypeOK
      <4>2. QED
        BY <4>1 DEF AnswerInv
    <3>3. QED
      BY <3>1, <3>2
  <2>4. r.list \in Lists[r.client] /\ r.test \in Tests[r.client]
    <3>1. 1 \in DOMAIN net[c]
      BY <2>1
    <3>2. m.list \in Lists[c] /\ m.test \in Tests[c]
      BY <2>1, <3>1 DEF AnswerInv
    <3>3. r.client = m.client
      BY <2>1 DEF Id
    <3>4. m.client = c
      BY <2>1, <3>1 DEF NetInv
    <3>5. QED
      BY <2>1, <3>2, <3>3, <3>4
  <2> HIDE DEF r, m
  <2>5. ASSUME NEW i \in DOMAIN queue'
        PROVE  queue'[i].list \in Lists[queue'[i].client] /\ queue'[i].test \in Tests[queue'[i].client]
    <3>1. CASE i = 1
      BY <2>1, <2>4, <3>1
    <3>2. CASE i # 1
      <4>1. DOMAIN queue = 1 .. Len(queue) /\ DOMAIN queue' = 1 .. Len(queue) + 1 /\ Len(queue) \in Nat
        BY <2>1, <2>2
      <4>2. i - 1 \in 1 .. Len(queue) /\ (i - 1) + 1 = i
        BY <3>2, <4>1
      <4>3. i - 1 \in DOMAIN queue /\ queue'[i] = queue[i - 1]
        BY <2>1, <4>1, <4>2
      <4>4. QED
        BY <4>3 DEF AnswerInv
    <3>3. QED
      BY <3>1, <3>2
  <2>6. QED
    BY <2>2, <2>3, <2>5 DEF AnswerInv
<1>6. ASSUME NEW c \in Clients, Call(c)
      PROVE  AnswerInv'
  <2>1. PICK r \in Requests :
          /\ r.list \in Lists[c] /\ r.test \in Tests[c]
          /\ net[c] \in Seq(Requests)
          /\ net' = [net EXCEPT ![c] = Append(net[c], r)]
    BY <1>0, <1>6, CallCases
  <2>2. UNCHANGED <<queue, held, inbox>>
    BY <1>6 DEF Call
  <2>3. ASSUME NEW d \in Clients, NEW i \in DOMAIN net'[d]
        PROVE  net'[d][i].list \in Lists[d] /\ net'[d][i].test \in Tests[d]
    <3>1. CASE d = c
      <4>1. net'[d] = Append(net[c], r)
        BY <1>0, <2>1, <3>1 DEF NetTypeOK
      <4>2. net'[d][i] = r \/ (i \in DOMAIN net[c] /\ net'[d][i] = net[c][i])
        BY <2>1, <4>1
      <4>3. QED
        BY <2>1, <3>1, <4>2 DEF AnswerInv
    <3>2. CASE d # c
      <4>1. net'[d] = net[d]
        BY <1>0, <2>1, <3>2 DEF NetTypeOK
      <4>2. QED
        BY <4>1 DEF AnswerInv
    <3>3. QED
      BY <3>1, <3>2
  <2>4. QED
    BY <2>2, <2>3 DEF AnswerInv
<1>7. ASSUME NEW c \in Clients,
             Acknowledged(c) \/ CallFails(c) \/ ServeCallback(c) \/ Return(c) \/ TimeOut(c)
      PROVE  AnswerInv'
  <2>1. UNCHANGED <<queue, held, net>>
    BY <1>7 DEF Acknowledged, CallFails, ServeCallback, Return, TimeOut
  <2>2. \A d \in Clients : inbox'[d] \subseteq inbox[d]
    <3>1. CASE Acknowledged(c)
      BY <3>1 DEF Acknowledged
    <3>2. CASE ServeCallback(c)
      <4>1. PICK m \in inbox[c] : inbox' = [inbox EXCEPT ![c] = inbox[c] \ {m}]
        BY <1>0, <3>2, ServeCallbackCases
      <4>2. QED
        BY <1>0, <4>1 DEF NetTypeOK
    <3>3. CASE CallFails(c) \/ Return(c) \/ TimeOut(c)
      <4>1. PICK kept \in SUBSET inbox[c] : inbox' = [inbox EXCEPT ![c] = kept]
        BY <3>3 DEF CallFails, Return, TimeOut, GoIdle
      <4>2. QED
        BY <1>0, <4>1 DEF NetTypeOK
    <3>4. QED
      BY <1>7, <3>1, <3>2, <3>3
  <2>3. QED
    BY <2>1, <2>2 DEF AnswerInv
<1>8. CASE UNCHANGED vars
  BY <1>1, <1>8 DEF vars
<1>9. QED
  BY <1>2, <1>3, <1>4, <1>5, <1>6, <1>7, <1>8, Zenon DEF Next, Server, Client

\* What was delivered stays delivered while the client's variables are left alone.
LEMMA DeliveredLasts ==
  ASSUME NEW c \in Clients, Delivered(c),
         held \in Seq(SUBSET Conditions), held' \in Seq(SUBSET Conditions),
         Len(held) <= Len(held'), \A e \in DOMAIN held : held'[e] = held[e],
         arg'[c] = arg[c], vals'[c] = vals[c]
  PROVE  Delivered(c)'
<1>1. PICK e \in DOMAIN held :
        /\ arg[c].test \in held[e]
        /\ \A v \in ToSet(arg[c].list) : vals[c][v] = <<v, e>>
  BY DEF Delivered
<1>2. e \in DOMAIN held' /\ held'[e] = held[e]
  BY <1>1
<1>3. QED
  BY <1>1, <1>2 DEF Delivered

\* The values of an answer that has no error, to the question the client has
\* asked, are stored in all the variables of its list.
LEMMA StoredIsDelivered ==
  ASSUME TypeOK, NEW c \in Clients, NEW e \in DOMAIN held,
         arg[c].list # <<>>, arg[c].test \in held[e],
         Good(ReadingsIn(arg[c].list, e)) = DOMAIN ReadingsIn(arg[c].list, e)
  PROVE  \A v \in ToSet(arg[c].list) : Stored(c, ReadingsIn(arg[c].list, e))[v] = <<v, e>>
<1> DEFINE list == arg[c].list
           values == ReadingsIn(list, e)
           stored == Stored(c, values)
<1>1. list \in Seq(Vars)
  BY DEF TypeOK, ClientTypeOK
<1>2. DOMAIN values = DOMAIN list
  BY DEF ReadingsIn
<1>3. ASSUME NEW i \in DOMAIN list
      PROVE  i \in Good(values) /\ values[i] = <<list[i], e>>
  <2>1. i \in Good(values)
    BY <1>2
  <2>2. values[i] # NoValue
    BY <2>1 DEF Good
  <2>3. QED
    BY <2>1, <2>2 DEF ReadingsIn
<1>4. ASSUME NEW v \in ToSet(list)
      PROVE  stored[v] = <<v, e>>
  <2>1. PICK i \in DOMAIN list : list[i] = v
    BY <1>4 DEF ToSet
  <2>2. v \in Vars
    BY <1>1, <2>1
  <2>3. i \in Good(values)
    BY <1>3
  <2> DEFINE k == CHOOSE j \in Good(values) : list[j] = v
  <2>4. k \in Good(values) /\ list[k] = v
    BY <2>1, <2>3
  <2>5. k \in DOMAIN list
    BY <1>2, <2>4 DEF Good
  <2>6. values[k] = <<v, e>>
    BY <1>3, <2>4, <2>5
  <2>7. stored[v] = values[k]
    BY <2>1, <2>2, <2>3 DEF Stored
  <2>8. QED
    BY <2>6, <2>7
<1>5. QED
  BY <1>4

\* A client that keeps to one question returns 0 with the values of one event.
LEMMA DeliveryStep ==
  TypeOK /\ TypeOK' /\ AnswerInv /\ OneQuestion /\ DeliveryInv /\ [Next]_vars => DeliveryInv'
<1> SUFFICES ASSUME TypeOK, TypeOK', AnswerInv, OneQuestion, DeliveryInv, [Next]_vars
             PROVE  DeliveryInv'
  OBVIOUS
<1>0. /\ ServerTypeOK /\ NetTypeOK /\ ClientTypeOK
      /\ held \in Seq(SUBSET Conditions) /\ held' \in Seq(SUBSET Conditions)
  BY DEF TypeOK, ServerTypeOK
<1> DEFINE OfClient(c) ==
      /\ cpc[c] # "idle" => arg[c].list \in Lists[c] /\ arg[c].test \in Tests[c]
      /\ cpc[c] = "asking" => pending_flag[c] = 1
      /\ cpc[c] = "waiting" /\ pending_flag[c] = 0 /\ callback_result[c] = 0 => Delivered(c)
      /\ cpc[c] = "idle" /\ result[c] = 0 => Delivered(c)
<1>1. \A c \in Clients : OfClient(c)
  BY DEF DeliveryInv
<1>2. ASSUME NEW d \in Clients, Len(held) <= Len(held'), \A e \in DOMAIN held : held'[e] = held[e],
             cpc'[d] = cpc[d], arg'[d] = arg[d], pending_flag'[d] = pending_flag[d],
             callback_result'[d] = callback_result[d], result'[d] = result[d], vals'[d] = vals[d]
      PROVE  OfClient(d)'
  <2>1. Delivered(d) => Delivered(d)'
    BY <1>0, <1>2, DeliveredLasts
  <2>2. QED
    BY <1>1, <1>2, <2>1
<1>3. UNCHANGED held => Len(held) <= Len(held') /\ \A e \in DOMAIN held : held'[e] = held[e]
  BY <1>0
<1>4. CASE NextEvent
  <2>1. Len(held) <= Len(held') /\ \A e \in DOMAIN held : held'[e] = held[e]
    BY <1>0, <1>4 DEF NextEvent
  <2>2. UNCHANGED clientVars
    BY <1>4 DEF NextEvent
  <2>3. \A d \in Clients : OfClient(d)'
    BY <1>2, <2>1, <2>2
  <2>4. QED
    BY <2>3 DEF DeliveryInv
<1>5. ASSUME UNCHANGED <<held, clientVars>>
      PROVE  DeliveryInv'
  <2>1. \A d \in Clients : OfClient(d)'
    BY <1>2, <1>3, <1>5
  <2>2. QED
    BY <2>1 DEF DeliveryInv
<1>6. CASE TakeOther \/ BeginScan \/ CallBack \/ EndScan \/ EndOfRun
  BY <1>5, <1>6 DEF TakeOther, BeginScan, CallBack, EndScan, EndOfRun
<1>7. ASSUME NEW c \in Clients, TakeRequest(c)
      PROVE  DeliveryInv'
  BY <1>5, <1>7 DEF TakeRequest
<1>8. ASSUME NEW c \in Clients, Client(c)
      PROVE  DeliveryInv'
  <2>1. UNCHANGED held
    BY <1>8, ClientSteps
  <2>2. ASSUME NEW d \in Clients, d # c
        PROVE  OfClient(d)'
    <3>1. /\ cpc'[d] = cpc[d] /\ arg'[d] = arg[d] /\ pending_flag'[d] = pending_flag[d]
          /\ callback_result'[d] = callback_result[d] /\ result'[d] = result[d]
          /\ vals'[d] = vals[d]
      BY <1>0, <1>8, <2>2, ZenonT(40)
      DEF Client, Call, Acknowledged, CallFails, ServeCallback, Return, TimeOut, GoIdle, ClientTypeOK
    <3>2. QED
      BY <1>2, <1>3, <2>1, <3>1
  <2>3. OfClient(c)'
    <3>1. CASE Call(c)
      <4>1. PICK r \in Requests :
              /\ r.list \in Lists[c] /\ r.test \in Tests[c]
              /\ arg' = [arg EXCEPT ![c] = [list |-> r.list, test |-> r.test]]
        BY <1>0, <3>1, CallCases
      <4>2. arg'[c].list \in Lists[c] /\ arg'[c].test \in Tests[c]
        BY <1>0, <4>1 DEF ClientTypeOK
      <4>3. cpc'[c] = "asking" /\ pending_flag'[c] = 1
        BY <1>0, <3>1 DEF Call, ClientTypeOK
      <4>4. QED
        BY <4>2, <4>3
    <3>2. CASE Acknowledged(c)
      <4>1. cpc[c] = "asking" /\ cpc'[c] = "waiting" /\ UNCHANGED <<arg, pending_flag>>
        BY <1>0, <3>2 DEF Acknowledged, ClientTypeOK
      <4>2. QED
        BY <1>1, <4>1
    <3>3. CASE CallFails(c) \/ TimeOut(c)
      <4>1. cpc'[c] = "idle" /\ result'[c] # 0
        BY <1>0, <3>3 DEF CallFails, TimeOut, GoIdle, ClientTypeOK
      <4>2. QED
        BY <4>1
    <3>4. CASE Return(c)
      <4>1. /\ cpc[c] = "waiting" /\ pending_flag[c] = 0
            /\ cpc'[c] = "idle" /\ result'[c] = callback_result[c]
            /\ UNCHANGED <<held, arg, vals>>
        BY <1>0, <3>4 DEF Return, GoIdle, ClientTypeOK
      <4>2. Delivered(c) => Delivered(c)'
        BY <1>0, <1>3, <4>1, DeliveredLasts
      <4>3. QED
        BY <1>1, <4>1, <4>2
    <3>5. CASE ServeCallback(c)
      <4>1. /\ cpc[c] = "waiting" /\ UNCHANGED <<held, cpc, arg>>
        BY <3>5 DEF ServeCallback
      <4>2. PICK m \in inbox[c] :
              /\ m.values \in Seq(Readings)
              /\ \/ /\ Len(m.values) = Len(arg[c].list)
                    /\ vals' = [vals EXCEPT ![c] = Stored(c, m.values)]
                    /\ callback_result' =
                         [callback_result EXCEPT ![c] = Len(m.values) - Cardinality(Good(m.values))]
                 \/ /\ \E res \in {-1, -2} : callback_result' = [callback_result EXCEPT ![c] = res]
                    /\ UNCHANGED vals
        BY <1>0, <3>5, ServeCallbackCases
      <4>3. arg[c].list \in Lists[c] /\ arg[c].test \in Tests[c] /\ arg[c].list # <<>>
            /\ arg[c].list \in Seq(Vars)
        BY <1>0, <1>1, <4>1, RpcAssumption DEF ClientTypeOK
      <4>4. ASSUME callback_result'[c] = 0
            PROVE  Delivered(c)'
        <5>1. /\ Len(m.values) = Len(arg[c].list)
              /\ vals' = [vals EXCEPT ![c] = Stored(c, m.values)]
              /\ Len(m.values) - Cardinality(Good(m.values)) = 0
          <6>1. callback_result \in [Clients -> Int]
            BY <1>0 DEF ClientTypeOK
          <6>2. \A res \in {-1, -2} : callback_result' # [callback_result EXCEPT ![c] = res]
            BY <4>4, <6>1
          <6>3. QED
            BY <4>2, <4>4, <6>1, <6>2
        <5>2. Good(m.values) = DOMAIN m.values
          BY <4>2, <5>1, GoodCount
        <5>3. m.values # <<>>
          BY <4>2, <4>3, <5>1
        <5>4. PICK list \in Lists[c], test \in Tests[c], e \in DOMAIN held :
                test \in held[e] /\ m.values = ReadingsIn(list, e)
          BY <5>3 DEF AnswerInv
        <5>5. list \in Seq(Vars)
          BY RpcAssumption
        <5>6. Len(list) = Len(m.values)
          BY <4>2, <5>4, <5>5 DEF ReadingsIn
        <5>7. list = arg[c].list /\ test = arg[c].test
          BY <4>3, <5>1, <5>6 DEF OneQuestion
        <5>8. \A v \in ToSet(arg[c].list) : vals'[c][v] = <<v, e>>
          <6>1. m.values = ReadingsIn(arg[c].list, e)
            BY <5>4, <5>7
          <6>2. vals'[c] = Stored(c, ReadingsIn(arg[c].list, e))
            BY <1>0, <5>1, <6>1 DEF ClientTypeOK
          <6>3. arg[c].test \in held[e]
            BY <5>4, <5>7
          <6>4. Good(ReadingsIn(arg[c].list, e)) = DOMAIN ReadingsIn(arg[c].list, e)
            BY <5>2, <6>1
          <6>5. QED
            BY <4>3, <6>2, <6>3, <6>4, StoredIsDelivered
        <5>9. QED
          BY <4>1, <5>4, <5>7, <5>8 DEF Delivered
      <4>5. QED
        BY <4>1, <4>3, <4>4
    <3>6. QED
      BY <1>8, <3>1, <3>2, <3>3, <3>4, <3>5 DEF Client
  <2>4. QED
    BY <2>2, <2>3 DEF DeliveryInv
<1>9. CASE UNCHANGED vars
  BY <1>5, <1>9 DEF vars
<1>10. QED
  BY <1>4, <1>6, <1>7, <1>8, <1>9, Zenon DEF Next, Server

\* Nothing has been asked yet.
LEMMA InitInductive == Init => Inductive /\ DeliveryInv
<1> SUFFICES ASSUME Init
             PROVE  Inductive /\ DeliveryInv
  OBVIOUS
<1>1. TypeOK
  <2>1. ServerTypeOK
    BY RpcAssumption DEF Init, ServerTypeOK
  <2>2. NetTypeOK
    BY DEF Init, NetTypeOK
  <2>3. ClientTypeOK
    <3>1. NoValue \in Readings
      BY DEF Readings
    <3>2. [list |-> <<>>, test |-> "none"] \in [list : Seq(Vars), test : Conditions \union {"none"}]
      OBVIOUS
    <3>3. arg \in [Clients -> [list : Seq(Vars), test : Conditions \union {"none"}]]
      BY <3>2 DEF Init
    <3>4. vals \in [Clients -> [Vars -> Readings]]
      BY <3>1 DEF Init
    <3>5. QED
      BY <3>3, <3>4 DEF Init, ClientTypeOK
  <2>4. QED
    BY <2>1, <2>2, <2>3 DEF TypeOK
<1>2. ScanInv
  BY DEF Init, ScanInv
<1>3. IdInv
  BY DEF Init, IdInv, Ids, ToSet, IsInjective
<1>4. NetInv /\ LimitInv /\ AnswerInv /\ DeliveryInv
  BY DEF Init, NetInv, LimitInv, AnswerInv, DeliveryInv
<1>5. QED
  BY <1>1, <1>2, <1>3, <1>4 DEF Inductive

\* Each part of the invariant is kept by every step.
LEMMA InductiveStep == Inductive /\ [Next]_vars => Inductive'
BY TypeStep, ScanStep, IdStep, NetStep, LimitStep, AnswerStep, Zenon DEF Inductive, TypeOK

\* Requests, answers and what is under way keep their shape and their order,
\* whatever the network and the time-outs do.
THEOREM Preserved == Spec => []Inductive
<1>1. Init => Inductive
  BY InitInductive
<1>2. Inductive /\ [Next]_vars => Inductive'
  BY InductiveStep
<1>3. QED
  BY <1>1, <1>2, PTL DEF Spec

\* The analyzer, the network and the clients are of their types.
THEOREM TypeCorrect == Spec => []TypeOK
<1>1. Inductive => TypeOK
  BY DEF Inductive
<1>2. QED
  BY <1>1, Preserved, PTL

\* The list has as many entries as there are requests in it.
LEMMA CountIds ==
  ASSUME NEW s \in Seq(Requests), \A i, j \in DOMAIN s : Id(s[i]) = Id(s[j]) => i = j
  PROVE  Cardinality(Ids(s)) = Len(s)
<1> DEFINE f == [i \in 1 .. Len(s) |-> Id(s[i])]
<1>1. DOMAIN s = 1 .. Len(s) /\ Len(s) \in Nat
  OBVIOUS
<1>2. Ids(s) = {Id(s[i]) : i \in 1 .. Len(s)}
  BY <1>1 DEF Ids, Id
<1>3. f \in Bijection(1 .. Len(s), Ids(s))
  BY <1>1, <1>2 DEF Bijection, Injection, Surjection, IsInjective
<1>4. ExistsBijection(1 .. Len(s), Ids(s))
  BY <1>3 DEF ExistsBijection
<1>5. QED
  BY <1>1, <1>4, FS_CountingElements

\* No request is lost or answered twice, however they enter and leave the list
\* (daVarCallBack's relinking), and none outlives the events its client allowed.
THEOREM RequestsInTime == Spec => []InTime
<1>1. Inductive => InTime
  <2> SUFFICES ASSUME Inductive
               PROVE  InTime
    OBVIOUS
  <2>1. queue \in Seq(Requests) /\ IdInv /\ LimitInv
    BY DEF Inductive, TypeOK, ServerTypeOK
  <2>2. Cardinality(Ids(queue)) = Len(queue)
    BY <2>1, CountIds DEF IdInv
  <2>3. ASSUME spc = "event", NEW r \in ToSet(queue)
        PROVE  Len(held) - r.since + 1 <= r.wait
    <3>1. PICK i \in DOMAIN queue : r = queue[i]
      BY DEF ToSet
    <3>2. Len(held) \in Nat /\ r.since \in Nat /\ r.wait \in Nat /\ r.left \in Int
      <4>1. r \in Requests
        BY <2>1, <3>1
      <4>2. QED
        BY <4>1, RequestFields DEF Inductive, TypeOK, ServerTypeOK
    <3>3. r.left >= 0 /\ r.wait - r.left = Len(held) - r.since + 1
      BY <2>1, <2>3, <3>1 DEF LimitInv, Looked
    <3>4. QED
      BY <3>2, <3>3
  <2>4. QED
    BY <2>1, <2>2, <2>3 DEF InTime, IdInv
<1>2. QED
  BY <1>1, Preserved, PTL

\* The event loop never waits for a new request while one is pending.
THEOREM NeverWaitsWithOnePending == Spec => []WaitsForFirst
<1>1. Inductive => WaitsForFirst
  BY DEF Inductive, ScanInv, WaitsForFirst
<1>2. QED
  BY <1>1, Preserved, PTL

\* "Returns 0 for total success": it does for a client that keeps to one test and
\* whose lists are of different lengths, as the event displays' are; without
\* that an answer that comes late is taken for one to the next call.
THEOREM SuccessIsOneEvent ==
  ASSUME OneQuestion
  PROVE  Spec => []OneEvent
<1>1. Init => Inductive /\ DeliveryInv
  BY InitInductive
<1>2. Inductive /\ DeliveryInv /\ [Next]_vars => Inductive' /\ DeliveryInv'
  <2>1. Inductive /\ [Next]_vars => Inductive'
    BY InductiveStep
  <2>2. Inductive /\ Inductive' /\ DeliveryInv /\ [Next]_vars => DeliveryInv'
    BY OneQuestion, DeliveryStep DEF Inductive
  <2>3. QED
    BY <2>1, <2>2
<1>3. Inductive /\ DeliveryInv => OneEvent
  BY DEF DeliveryInv, OneEvent
<1>4. QED
  BY <1>1, <1>2, <1>3, PTL DEF Spec
=============================================================================
