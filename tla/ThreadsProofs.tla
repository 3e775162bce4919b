---------------------------- MODULE ThreadsProofs ----------------------------
(***************************************************************************)
(* Proofs that functions are conserved and stay in their threads, and that   *)
(* the rings of channels are bounded queues, for any finite set of threads,  *)
(* any channels, capacities and roles.                                      *)
(***************************************************************************)
EXTENDS Threads, FiniteSetTheorems, SequenceTheorems, TLAPS

Elems(q) == {q[i] : i \in 1 .. Len(q)}

\* No two scripts of q belong to the same function.
Alone(q) == \A i, j \in 1 .. Len(q) : q[i][2] = q[j][2] => i = j

LEMMA AloneAppend ==
  ASSUME NEW S, NEW q \in Seq(S), NEW e \in S, Alone(q),
         \A x \in Elems(q) : x[2] # e[2]
  PROVE  /\ Append(q, e) \in Seq(S) /\ Alone(Append(q, e))
         /\ Elems(Append(q, e)) = Elems(q) \union {e}
  <1> DEFINE r == Append(q, e)
  <1>1. /\ r \in Seq(S) /\ Len(r) = Len(q) + 1 /\ Len(q) \in Nat
        /\ \A i \in 1 .. Len(q) : r[i] = q[i]
        /\ r[Len(q) + 1] = e
    OBVIOUS
  <1>2. /\ \A i \in 1 .. Len(r) : i \in 1 .. Len(q) \/ i = Len(q) + 1
        /\ \A i \in 1 .. Len(q) : i \in 1 .. Len(r)
        /\ Len(q) + 1 \in 1 .. Len(r)
    BY <1>1
  <1>3. \A i \in 1 .. Len(q) : q[i][2] # e[2]
    BY DEF Elems
  <1> HIDE DEF r
  <1>4. Elems(r) = Elems(q) \union {e}
    BY <1>1, <1>2 DEF Elems
  <1>5. Alone(r)
    BY <1>1, <1>2, <1>3 DEF Alone
  <1> QED
    BY <1>1, <1>4, <1>5 DEF r

LEMMA AloneTail ==
  ASSUME NEW S, NEW q \in Seq(S), q # <<>>, Alone(q)
  PROVE  /\ Tail(q) \in Seq(S) /\ Alone(Tail(q)) /\ Head(q) \in S
         /\ Elems(q) = Elems(Tail(q)) \union {Head(q)}
         /\ \A x \in Elems(Tail(q)) : x[2] # Head(q)[2]
  <1> DEFINE r == Tail(q)
  <1>1. /\ r \in Seq(S) /\ Len(r) = Len(q) - 1 /\ Len(q) \in Nat \ {0}
        /\ \A i \in 1 .. Len(r) : r[i] = q[i + 1]
        /\ Head(q) = q[1] /\ q[1] \in S
    OBVIOUS
  <1>2. /\ 1 \in 1 .. Len(q)
        /\ \A i \in 1 .. Len(r) : i + 1 \in 1 .. Len(q) /\ i + 1 # 1
        /\ \A i \in 1 .. Len(q) : i # 1 => i - 1 \in 1 .. Len(r) /\ (i - 1) + 1 = i
        /\ \A i, j \in 1 .. Len(r) : i + 1 = j + 1 => i = j
    BY <1>1
  <1> HIDE DEF r
  <1>3. \A i \in 1 .. Len(q) : i # 1 => r[i - 1] = q[i]
    BY <1>1, <1>2
  <1>4. Elems(q) = Elems(r) \union {q[1]}
    BY <1>1, <1>2, <1>3 DEF Elems
  <1>5. Alone(r)
    BY <1>1, <1>2 DEF Alone
  <1>6. ASSUME NEW x \in Elems(r) PROVE x[2] # q[1][2]
    BY <1>1, <1>2 DEF Elems, Alone
  <1> QED
    BY <1>1, <1>4, <1>5, <1>6 DEF r
------------------------------------------------------------------------------
Scripts == {"main", "fn"} \X ThreadIds

\* The scripts that thread u runs or will run.
At(u) == Elems(queue[u]) \union (IF Active(u) THEN {script[u]} ELSE {})

\* The function of t has begun and not returned.
Alive(t) == pc[t] \notin {<<"start">>, <<"over">>}

\* A function is in one place.
Spread ==
  /\ \A u \in ThreadIds : Alone(queue[u])
  /\ \A u \in ThreadIds : Active(u) => \A x \in Elems(queue[u]) : x[2] # script[u][2]
  /\ \A u, v \in ThreadIds : \A x \in At(u), y \in At(v) : x[2] = y[2] => u = v
  /\ \A t \in ThreadIds : Alive(t) <=> \E u \in ThreadIds : \E x \in At(u) : x[2] = t

\* OwnThread, and its part about a thread that starts.
Home ==
  /\ \A u \in ThreadIds : \A x \in At(u) : x[1] = "main" => x[2] = u
  /\ \A t \in ThreadIds : pc[t] = <<"start">> => script[t] = Main(t)
  /\ \A t, u \in ThreadIds : mutex = <<Main(t), u>> => u = t

\* A function that sends has counted the call.
Counts == \A t \in ThreadIds, c \in Channels : pc[t] = <<"send", c>> => calls[t] >= 1

Messages == ThreadIds \X Nat

\* The remainder, whose arithmetic is in the lemma Around only.
Rest(a, n) == a % n

\* A ring of n cells m, with f messages from cell r on and the next one going to w,
\* and the messages in it.
RingOK(n, f, r, w, m) ==
  /\ f \in 0 .. n /\ r \in 0 .. n - 1 /\ w = Rest(r + f, n) /\ w \in 0 .. n - 1
  /\ m \in [0 .. n - 1 -> Messages]

Store(n, f, r, m) == [i \in 1 .. f |-> m[Rest(r + i - 1, n)]]

Ring(c) == RingOK(Size[c], fill[c], read[c], write[c], messages[c])
Content(c) == Store(Size[c], fill[c], read[c], messages[c])

Rings ==
  /\ fill \in [Channels -> Nat] /\ read \in [Channels -> Nat]
  /\ write \in [Channels -> Nat] /\ messages = [c \in Channels |-> messages[c]]
  /\ \A c \in Channels : Ring(c)

\* Types of the rest.
Types ==
  /\ role \in Roles /\ pc \in [ThreadIds -> Locations]
  /\ script \in [ThreadIds -> Scripts] /\ queue \in [ThreadIds -> Seq(Scripts)]
  /\ calls \in [ThreadIds -> 0 .. MaxCalls] /\ asleep \subseteq ThreadIds
  /\ got \in [ThreadIds -> ThreadIds \X Nat]
  /\ mutex \in {Free} \union (Scripts \X ThreadIds)

TInv == Types /\ Spread /\ Home /\ Counts /\ Rings
------------------------------------------------------------------------------
\* What is where the threads do, told apart by its name.
LEMMA Places1 ==
  /\ \A t : <<"join", t>> \notin {<<"start">>, <<"loop">>, <<"over">>, <<"run">>, <<"lock">>}
  /\ \A c : <<"send", c>> \notin {<<"start">>, <<"loop">>, <<"over">>, <<"run">>, <<"lock">>}
  /\ \A cs : <<"recv", cs>> \notin {<<"start">>, <<"loop">>, <<"over">>, <<"run">>, <<"lock">>}
  /\ \A t, c : <<"join", t>> # <<"send", c>> /\ <<"recv", t>> # <<"send", c>>
  /\ <<"run">> \notin {<<"start">>, <<"loop">>, <<"over">>, <<"lock">>}
  /\ <<"lock">> \notin {<<"start">>, <<"loop">>, <<"over">>}
  /\ <<"loop">> \notin {<<"start">>, <<"over">>} /\ <<"start">> # <<"over">>
  <1>1. \A t : <<"join", t>>[1] = "join" /\ <<"send", t>>[1] = "send" /\ <<"recv", t>>[1] = "recv"
    OBVIOUS
  <1>2. /\ <<"start">>[1] = "start" /\ <<"loop">>[1] = "loop" /\ <<"over">>[1] = "over"
        /\ <<"run">>[1] = "run" /\ <<"lock">>[1] = "lock"
    OBVIOUS
  <1> QED
    BY <1>1, <1>2

\* Remainders in a ring of n places.
LEMMA Around ==
  ASSUME NEW n \in Nat \ {0}, NEW a \in 0 .. n - 1, NEW i \in 0 .. n
  PROVE  Rest(a + i, n) = IF a + i < n THEN a + i ELSE a + i - n
  <1>1. CASE a + i < n
    BY <1>1 DEF Rest
  <1>2. CASE a + i >= n
    <2>1. /\ a + i - n \in 0 .. n - 1 /\ a + i \in Nat
          /\ a + i = n * 1 + (a + i - n)
      BY <1>2
    <2>2. (a + i) % n = a + i - n
      BY <2>1, SMTT(30)
    <2> QED
      BY <1>2, <2>2 DEF Rest
  <1> QED
    BY <1>1, <1>2

LEMMA InitT == Init => TInv
  <1> SUFFICES ASSUME Init PROVE TInv
    OBVIOUS
  <1>1. Types
    BY ThreadsAssumption DEF Init, Types, Scripts, Main, Free, NoMessage, Locations
  <1>2. \A u \in ThreadIds : Elems(queue[u]) = {} /\ Alone(queue[u])
    BY DEF Init, Elems, Alone
  <1>3. \A u \in ThreadIds : Active(u) <=> u = First
    BY Places1 DEF Init, Active
  <1>4. \A u \in ThreadIds : At(u) = IF u = First THEN {Main(First)} ELSE {}
    BY <1>2, <1>3 DEF At, Init
  <1>5. \A t \in ThreadIds : Alive(t) <=> t = First
    BY Places1 DEF Init, Alive
  <1>6. Spread
    <2>1. \A u \in ThreadIds : \A x \in At(u) : u = First /\ x = Main(First)
      BY <1>4
    <2>2. Main(First) \in At(First) /\ Main(First)[2] = First /\ First \in ThreadIds
      BY <1>4, ThreadsAssumption DEF Main
    <2> QED
      BY <1>2, <1>5, <2>1, <2>2 DEF Spread
  <1>7. Home
    BY <1>4 DEF Home, Init, Main, Free
  <1>8. Counts
    BY Places1 DEF Counts, Init
  <1>9. Rings
    <2>1. \A c \in Channels : Size[c] \in Nat \ {0}
      BY ThreadsAssumption
    <2>2. ASSUME NEW c \in Channels PROVE Ring(c)
      <3>1. Rest(0 + 0, Size[c]) = 0
        BY <2>1, Around
      <3> QED
        BY <2>1, <3>1, ThreadsAssumption DEF Init, Ring, RingOK, Messages, NoMessage
    <2> QED
      BY <2>2 DEF Init, Rings
  <1> QED
    BY <1>1, <1>6, <1>7, <1>8, <1>9 DEF TInv
------------------------------------------------------------------------------
\* What a step needs to know of the scripts and of what the threads do.
LEMMA Parts ==
  ASSUME TInv
  PROVE  /\ Types /\ Spread /\ Home /\ Counts /\ Rings
         /\ \A u \in ThreadIds : At(u) \subseteq Scripts /\ Elems(queue[u]) \subseteq At(u)
         /\ \A u \in ThreadIds : Active(u) => script[u] \in At(u) /\ Alive(u)
         /\ \A u \in ThreadIds : queue[u] \in Seq(Scripts) /\ script[u] \in Scripts
         /\ \A u \in ThreadIds : script[u][2] \in ThreadIds
  <1>1. \A u \in ThreadIds : queue[u] \in Seq(Scripts) /\ script[u] \in Scripts
    BY DEF TInv, Types
  <1>2. \A u \in ThreadIds : Elems(queue[u]) \subseteq Scripts
    BY <1>1 DEF Elems
  <1> QED
    BY <1>1, <1>2 DEF TInv, At, Active, Alive, Scripts

\* A step after which every script is where it was.
LEMMA Same ==
  ASSUME TInv, UNCHANGED <<script, queue>>,
         \A u \in ThreadIds : Active(u)' = Active(u) /\ Alive(u)' = Alive(u),
         \A u \in ThreadIds : pc'[u] = <<"start">> => pc[u] = <<"start">>,
         \A u, v \in ThreadIds : mutex' = <<Main(u), v>> => v = u
  PROVE  Spread' /\ Home'
  <1>1. \A u \in ThreadIds : At(u)' = At(u)
    BY DEF At
  <1>2. Spread'
    BY <1>1, Parts DEF Spread
  <1>3. Home'
    BY <1>1, Parts DEF Home
  <1> QED
    BY <1>2, <1>3

\* Thread t goes on to another thing that its script does.
LEMMA Quiet ==
  ASSUME TInv, NEW t \in ThreadIds, Active(t), UNCHANGED <<script, queue>>,
         NEW where \in Locations, where \notin {<<"start">>, <<"loop">>, <<"over">>},
         Goes(t, where),
         \A u, v \in ThreadIds : mutex' = <<Main(u), v>> => v = u
  PROVE  Spread' /\ Home' /\ pc' \in [ThreadIds -> Locations]
  <1>1. /\ pc' \in [ThreadIds -> Locations] /\ pc'[t] = where
        /\ \A u \in ThreadIds : u # t => pc'[u] = pc[u]
    BY Parts DEF Types, Goes
  <1>2. \A u \in ThreadIds : Active(u)' = Active(u) /\ Alive(u)' = Alive(u)
    BY <1>1 DEF Active, Alive
  <1>3. \A u \in ThreadIds : pc'[u] = <<"start">> => pc[u] = <<"start">>
    BY <1>1
  <1> QED
    BY <1>1, <1>2, <1>3, Same

\* The counts stay above what the pending sends say.
LEMMA CountsKept ==
  ASSUME TInv, calls' \in [ThreadIds -> 0 .. MaxCalls],
         \A u \in ThreadIds : calls'[u] >= calls[u],
         \A u \in ThreadIds : \A c \in Channels : pc'[u] = <<"send", c>> =>
           pc[u] = <<"send", c>> \/ calls'[u] >= 1
  PROVE  Counts'
  <1>1. \A u \in ThreadIds : calls[u] \in Nat /\ calls'[u] \in Nat
    BY Parts, ThreadsAssumption DEF Types
  <1> QED
    BY <1>1, Parts DEF Counts

\* A script ends in thread t, and one of the same function is queued for u.
LEMMA Moves ==
  ASSUME TInv, NEW t \in ThreadIds, NEW u \in ThreadIds, Active(t), Goes(t, <<"loop">>),
         NEW e \in Scripts, e[2] = script[t][2], e[1] = "main" => e[2] = u,
         queue' = [queue EXCEPT ![u] = Append(@, e)], UNCHANGED <<script, mutex>>
  PROVE  /\ Spread' /\ Home' /\ pc' \in [ThreadIds -> Locations]
         /\ queue' \in [ThreadIds -> Seq(Scripts)]
  <1> DEFINE s == script[t][2]
  <1>1. /\ pc' \in [ThreadIds -> Locations] /\ pc'[t] = <<"loop">>
        /\ \A v \in ThreadIds : v # t => pc'[v] = pc[v]
    BY Parts DEF Types, Goes, Locations
  <1>2. /\ ~ Active(t)' /\ \A v \in ThreadIds : v # t => Active(v)' = Active(v)
        /\ \A v \in ThreadIds : Alive(v)' = Alive(v)
    BY <1>1, Places1 DEF Active, Alive
  <1>3. /\ s \in ThreadIds /\ Alive(s)
        /\ script[t] \in At(t)
    BY Parts DEF Spread
  <1>4. \A v \in ThreadIds : \A x \in Elems(queue[v]) : x[2] # s
    BY <1>3, Parts DEF Spread
  <1>5. \A v \in ThreadIds : Active(v) /\ v # t => script[v][2] # s
    BY <1>3, Parts DEF Spread
  <1>6. /\ queue[u] \in Seq(Scripts) /\ Alone(queue[u])
        /\ \A x \in Elems(queue[u]) : x[2] # e[2]
    BY <1>4, Parts DEF Spread
  <1>7. /\ queue'[u] \in Seq(Scripts) /\ Alone(queue'[u])
        /\ Elems(queue'[u]) = Elems(queue[u]) \union {e}
    BY <1>6, AloneAppend, Parts DEF Types
  <1>8. \A v \in ThreadIds : v # u => queue'[v] = queue[v]
    BY Parts DEF Types
  <1>9. queue' \in [ThreadIds -> Seq(Scripts)]
    BY <1>7, <1>8, Parts DEF Types
  <1>10. \A v \in ThreadIds : Alone(queue'[v])
    BY <1>7, <1>8, Parts DEF Spread
  <1>11. \A v \in ThreadIds : \A x \in Elems(queue'[v]) :
           x \in Elems(queue[v]) \/ (v = u /\ x = e)
    BY <1>7, <1>8
  <1>12. \A v \in ThreadIds : \A x \in At(v)' :
           (v = u /\ x = e) \/ (x \in At(v) /\ x[2] # s)
    <2> TAKE v \in ThreadIds
    <2> TAKE x \in At(v)'
    <2>1. x \in Elems(queue'[v]) \/ (Active(v)' /\ x = script[v])
      BY DEF At
    <2>2. CASE x \in Elems(queue'[v])
      BY <1>4, <1>11, <2>2, Parts
    <2>3. CASE Active(v)' /\ x = script[v]
      BY <1>2, <1>5, <2>3, Parts
    <2> QED
      BY <2>1, <2>2, <2>3
  <1>13. \A v \in ThreadIds : \A x \in At(v) : x[2] # s => x \in At(v)'
    <2> TAKE v \in ThreadIds
    <2> TAKE x \in At(v)
    <2>1. Elems(queue[v]) \subseteq Elems(queue'[v])
      BY <1>7, <1>8
    <2>2. x # script[t] \/ x[2] = s
      OBVIOUS
    <2> QED
      BY <1>2, <2>1, <2>2 DEF At
  <1>14. e \in At(u)'
    BY <1>7 DEF At
  <1>15. \A v \in ThreadIds : Active(v)' => \A x \in Elems(queue'[v]) : x[2] # script'[v][2]
    <2> SUFFICES ASSUME NEW v \in ThreadIds, Active(v)', NEW x \in Elems(queue'[v])
                 PROVE  x[2] # script[v][2]
      OBVIOUS
    <2>1. v # t /\ Active(v)
      BY <1>2
    <2>2. x[2] = s \/ x \in Elems(queue[v])
      BY <1>11
    <2> QED
      BY <1>5, <2>1, <2>2, Parts DEF Spread
  <1>16. \A v, w \in ThreadIds : \A x \in At(v)', y \in At(w)' : x[2] = y[2] => v = w
    BY <1>12, Parts DEF Spread
  <1>17. ASSUME NEW w \in ThreadIds
         PROVE  Alive(w)' <=> \E v \in ThreadIds : \E x \in At(v)' : x[2] = w
    <2>1. CASE w = s
      BY <1>2, <1>3, <1>14, <2>1
    <2>2. CASE w # s
      BY <1>2, <1>12, <1>13, <2>2, Parts DEF Spread
    <2> QED
      BY <2>1, <2>2
  <1>18. Spread'
    BY <1>10, <1>15, <1>16, <1>17 DEF Spread
  <1>19. Home'
    BY <1>1, <1>12, Places1, Parts DEF Home
  <1> QED
    BY <1>1, <1>9, <1>18, <1>19
------------------------------------------------------------------------------
\* The steps of Next keep Spread and Home, and the types of what they use.
Kept == Spread' /\ Home' /\ Types' /\ Counts'

\* The function of t, which runs, has made one more call.
LEMMA Doing ==
  ASSUME TInv, NEW t \in ThreadIds, NEW call, Does(t, call)
  PROVE  /\ calls' \in [ThreadIds -> 0 .. MaxCalls] /\ calls'[t] >= 1
         /\ \A u \in ThreadIds : calls'[u] >= calls[u]
         /\ Active(t) /\ pc[t] = <<"run">> /\ script[t] = Main(t)
  <1>1. calls \in [ThreadIds -> 0 .. MaxCalls] /\ MaxCalls \in Nat
    BY Parts, ThreadsAssumption DEF Types
  <1>2. calls' = [calls EXCEPT ![t] = @ + 1] /\ calls[t] < MaxCalls
    BY DEF Does
  <1>3. calls' \in [ThreadIds -> 0 .. MaxCalls] /\ calls'[t] >= 1
        /\ \A u \in ThreadIds : calls'[u] >= calls[u]
    BY <1>1, <1>2
  <1>4. pc[t] = <<"run">> /\ script[t] = Main(t)
    BY DEF Does, RunsMain, Running
  <1> QED
    BY <1>3, <1>4, Places1 DEF Active

LEMMA Busy ==
  ASSUME TInv, NEW t \in ThreadIds
  PROVE  /\ Running(t) => Active(t)
         /\ pc[t] = <<"lock">> => Active(t)
         /\ pc[t][1] = "join" => Active(t)
         /\ pc[t][1] = "recv" => Active(t)
         /\ \A c : pc[t] = <<"send", c>> => Active(t)
  <1>1. /\ <<"start">>[1] = "start" /\ <<"loop">>[1] = "loop" /\ <<"over">>[1] = "over"
    OBVIOUS
  <1> QED
    BY <1>1, Places1 DEF Active, Running

\* A thread does something else and has counted a call, or not.
LEMMA Proceeds ==
  ASSUME TInv, NEW t \in ThreadIds, Active(t), NEW where \in Locations, Goes(t, where),
         where \notin {<<"start">>, <<"loop">>, <<"over">>},
         \A c \in Channels : where = <<"send", c>> => calls'[t] >= 1,
         \/ UNCHANGED calls
         \/ \E call : Does(t, call),
         UNCHANGED <<role, script, queue>>, asleep' \subseteq ThreadIds,
         got' \in [ThreadIds -> ThreadIds \X Nat],
         mutex' \in {Free} \union (Scripts \X ThreadIds),
         \A u, v \in ThreadIds : mutex' = <<Main(u), v>> => v = u
  PROVE  Kept
  <1>1. Spread' /\ Home' /\ pc' \in [ThreadIds -> Locations]
    BY Quiet
  <1>2. /\ calls' \in [ThreadIds -> 0 .. MaxCalls]
        /\ \A u \in ThreadIds : calls'[u] >= calls[u]
    BY Doing, Parts, ThreadsAssumption DEF Types
  <1>3. pc'[t] = where /\ \A u \in ThreadIds : u # t => pc'[u] = pc[u]
    BY Parts DEF Types, Goes
  <1>4. Counts'
    BY <1>2, <1>3, CountsKept
  <1>5. Types'
    BY <1>1, <1>2, Parts DEF Types
  <1> QED
    BY <1>1, <1>4, <1>5 DEF Kept

LEMMA Untouched ==
  ASSUME TInv
  PROVE  /\ <<"run">> \in Locations /\ <<"lock">> \in Locations
         /\ UNCHANGED asleep => asleep' \subseteq ThreadIds
         /\ UNCHANGED got => got' \in [ThreadIds -> ThreadIds \X Nat]
         /\ UNCHANGED mutex => /\ mutex' \in {Free} \union (Scripts \X ThreadIds)
                              /\ \A u, v \in ThreadIds : mutex' = <<Main(u), v>> => v = u
  BY Parts DEF Types, Home, Locations

LEMMA KeptByCreate ==
  ASSUME TInv, NEW t \in ThreadIds, NEW u \in ThreadIds, Create(t, u), UNCHANGED role
  PROVE  Kept
  <1>1. /\ pc' \in [ThreadIds -> Locations] /\ pc'[u] = <<"run">> /\ pc[u] = <<"start">>
        /\ \A v \in ThreadIds : v # u => pc'[v] = pc[v]
        /\ UNCHANGED <<script, queue, calls, channels, mutex>>
    BY Parts DEF Types, Create, Goes, Locations
  <1>2. /\ ~ Active(u) /\ Active(u)' /\ ~ Alive(u) /\ Alive(u)'
        /\ \A v \in ThreadIds : v # u => Active(v)' = Active(v) /\ Alive(v)' = Alive(v)
    BY <1>1, Places1 DEF Active, Alive
  <1>3. script[u] = Main(u) /\ Main(u)[2] = u
    BY <1>1, Parts DEF Home, Main
  <1>4. \A v \in ThreadIds : \A x \in At(v) : x[2] # u
    BY <1>2, Parts DEF Spread
  <1>5. \A v \in ThreadIds : At(v)' = At(v) \union (IF v = u THEN {Main(u)} ELSE {})
    BY <1>1, <1>2, <1>3 DEF At
  <1>6. \A v \in ThreadIds : Active(v)' => \A x \in Elems(queue'[v]) : x[2] # script'[v][2]
    BY <1>1, <1>2, <1>3, <1>4, Parts DEF Spread
  <1>7. \A v, w \in ThreadIds : \A x \in At(v)', y \in At(w)' : x[2] = y[2] => v = w
    BY <1>3, <1>4, <1>5, Parts DEF Spread
  <1>8. ASSUME NEW w \in ThreadIds
        PROVE  Alive(w)' <=> \E v \in ThreadIds : \E x \in At(v)' : x[2] = w
    <2>1. CASE w = u
      BY <1>2, <1>3, <1>5, <2>1
    <2>2. CASE w # u
      BY <1>2, <1>3, <1>5, <2>2, Parts DEF Spread
    <2> QED
      BY <2>1, <2>2
  <1>9. Spread'
    BY <1>1, <1>6, <1>7, <1>8, Parts DEF Spread
  <1>10. Home'
    BY <1>1, <1>3, <1>5, Places1, Parts DEF Home
  <1>11. Counts'
    BY <1>1, Places1, Parts DEF Counts
  <1>12. Types'
    BY <1>1, Parts DEF Types, channels
  <1> QED
    BY <1>9, <1>10, <1>11, <1>12 DEF Kept

LEMMA KeptByFinish ==
  ASSUME TInv, NEW t \in ThreadIds, Finish(t), UNCHANGED role
  PROVE  Kept
  <1>1. /\ pc' \in [ThreadIds -> Locations] /\ pc'[t] = <<"over">> /\ pc[t] = <<"run">>
        /\ \A v \in ThreadIds : v # t => pc'[v] = pc[v]
        /\ script[t] = Main(t) /\ Main(t)[2] = t
        /\ UNCHANGED <<script, queue, calls, channels, mutex>>
    BY Parts DEF Types, Finish, Goes, Locations, RunsMain, Running, Main
  <1>2. /\ Active(t) /\ ~ Active(t)' /\ ~ Alive(t)'
        /\ \A v \in ThreadIds : v # t => Active(v)' = Active(v) /\ Alive(v)' = Alive(v)
    BY <1>1, Places1 DEF Active, Alive
  <1>3. script[t] \in At(t) /\ \A x \in Elems(queue[t]) : x[2] # t
    BY <1>1, <1>2, Parts DEF Spread
  <1>4. \A v \in ThreadIds : At(v)' = {x \in At(v) : x[2] # t}
    <2>1. At(t)' = {x \in At(t) : x[2] # t}
      BY <1>1, <1>2, <1>3 DEF At
    <2>2. ASSUME NEW v \in ThreadIds, v # t PROVE At(v)' = {x \in At(v) : x[2] # t}
      <3>1. \A x \in At(v) : x[2] # t
        BY <1>1, <1>3, <2>2, Parts DEF Spread
      <3>2. At(v)' = At(v)
        BY <1>1, <1>2, <2>2 DEF At
      <3> QED
        BY <3>1, <3>2
    <2> QED
      BY <2>1, <2>2
  <1>5. \A v \in ThreadIds : Active(v)' => \A x \in Elems(queue'[v]) : x[2] # script'[v][2]
    BY <1>1, <1>2, Parts DEF Spread
  <1>6. \A v, w \in ThreadIds : \A x \in At(v)', y \in At(w)' : x[2] = y[2] => v = w
    BY <1>4, Parts DEF Spread
  <1>7. ASSUME NEW w \in ThreadIds
        PROVE  Alive(w)' <=> \E v \in ThreadIds : \E x \in At(v)' : x[2] = w
    <2>1. CASE w = t
      BY <1>2, <1>4, <2>1
    <2>2. CASE w # t
      BY <1>2, <1>4, <2>2, Parts DEF Spread
    <2> QED
      BY <2>1, <2>2
  <1>8. Spread'
    BY <1>1, <1>5, <1>6, <1>7, Parts DEF Spread
  <1>9. Home'
    BY <1>1, <1>4, Places1, Parts DEF Home
  <1>10. Counts'
    BY <1>1, Places1, Parts DEF Counts
  <1>11. Types'
    BY <1>1, Parts DEF Types, channels
  <1> QED
    BY <1>8, <1>9, <1>10, <1>11 DEF Kept

LEMMA KeptByRunQueued ==
  ASSUME TInv, NEW t \in ThreadIds, RunQueued(t), UNCHANGED role
  PROVE  Kept
  <1>1. /\ pc' \in [ThreadIds -> Locations] /\ pc'[t] = <<"run">> /\ pc[t] = <<"loop">>
        /\ \A v \in ThreadIds : v # t => pc'[v] = pc[v]
        /\ UNCHANGED <<calls, channels, mutex>>
    BY Parts DEF Types, RunQueued, Goes, Locations
  <1>2. /\ ~ Active(t) /\ Active(t)' /\ Alive(t) /\ Alive(t)'
        /\ \A v \in ThreadIds : v # t => Active(v)' = Active(v) /\ Alive(v)' = Alive(v)
    BY <1>1, Places1 DEF Active, Alive
  <1>3. /\ Tail(queue[t]) \in Seq(Scripts) /\ Alone(Tail(queue[t])) /\ Head(queue[t]) \in Scripts
        /\ Elems(queue[t]) = Elems(Tail(queue[t])) \union {Head(queue[t])}
        /\ \A x \in Elems(Tail(queue[t])) : x[2] # Head(queue[t])[2]
    BY AloneTail, Parts DEF Spread, RunQueued
  <1>4. /\ queue' \in [ThreadIds -> Seq(Scripts)] /\ queue'[t] = Tail(queue[t])
        /\ script' \in [ThreadIds -> Scripts] /\ script'[t] = Head(queue[t])
        /\ \A v \in ThreadIds : v # t => queue'[v] = queue[v] /\ script'[v] = script[v]
    BY <1>3, Parts DEF Types, RunQueued
  <1>5. \A v \in ThreadIds : At(v)' = At(v)
    BY <1>2, <1>3, <1>4 DEF At
  <1>6. \A v \in ThreadIds : Alone(queue'[v])
    <2>1. \A v \in ThreadIds : Alone(queue[v])
      BY Parts DEF Spread
    <2>2. ASSUME NEW v \in ThreadIds PROVE Alone(queue'[v])
      <3>1. CASE v = t
        BY <1>3, <1>4, <3>1
      <3>2. CASE v # t
        BY <1>4, <2>1, <3>2
      <3> QED
        BY <3>1, <3>2
    <2> QED
      BY <2>2
  <1>7. \A v \in ThreadIds : Active(v)' => \A x \in Elems(queue'[v]) : x[2] # script'[v][2]
    BY <1>2, <1>3, <1>4, Parts DEF Spread
  <1>8. \A v \in ThreadIds : Alive(v)' <=> Alive(v)
    BY <1>2, Zenon
  <1>9. Spread'
    BY <1>5, <1>6, <1>7, <1>8, Parts DEF Spread
  <1>10. Home'
    <2>1. \A u \in ThreadIds : \A x \in At(u)' : x[1] = "main" => x[2] = u
      BY <1>5, Parts DEF Home
    <2>2. \A u \in ThreadIds : pc'[u] = <<"start">> => script'[u] = Main(u)
      BY <1>1, <1>4, Places1, Parts DEF Home
    <2>3. \A u, v \in ThreadIds : mutex' = <<Main(u), v>> => v = u
      BY <1>1, Parts DEF Home
    <2> QED
      BY <2>1, <2>2, <2>3 DEF Home
  <1>11. Counts'
    BY <1>1, Places1, Parts DEF Counts
  <1>12. Types'
    BY <1>1, <1>4, Parts DEF Types, channels
  <1> QED
    BY <1>9, <1>10, <1>11, <1>12 DEF Kept
------------------------------------------------------------------------------
LEMMA KeptByStep ==
  ASSUME TInv, NEW t \in ThreadIds, Step(t), UNCHANGED role
  PROVE  Kept
  <1>1. CASE Joined(t)
    <2>1. /\ Active(t) /\ Goes(t, <<"run">>)
          /\ UNCHANGED <<script, queue, calls, channels, mutex>>
      BY <1>1, Busy DEF Joined
    <2> QED
      BY <2>1, Places1, Untouched, Proceeds DEF channels
  <1>2. CASE RunQueued(t)
    BY <1>2, KeptByRunQueued
  <1>3. CASE MessageDone(t)
    <2> DEFINE s == script[t][2]
    <2>1. /\ Active(t) /\ Goes(t, <<"loop">>) /\ s \in ThreadIds
          /\ queue' = [queue EXCEPT ![s] = Append(@, Main(s))]
          /\ UNCHANGED <<script, calls, channels, mutex>>
      BY <1>3, Busy, Parts DEF MessageDone, Answer
    <2>2. Main(s) \in Scripts /\ Main(s)[2] = s
      BY <2>1 DEF Main, Scripts
    <2>3. /\ Spread' /\ Home' /\ pc' \in [ThreadIds -> Locations]
          /\ queue' \in [ThreadIds -> Seq(Scripts)]
      BY <2>1, <2>2, Moves
    <2>4. Counts'
      <3>1. pc'[t] = <<"loop">> /\ \A u \in ThreadIds : u # t => pc'[u] = pc[u]
        BY <2>1, Parts DEF Types, Goes, Locations
      <3> QED
        BY <2>1, <3>1, Places1, Parts DEF Counts
    <2>5. Types'
      BY <2>1, <2>3, Parts DEF Types, channels
    <2> QED
      BY <2>3, <2>4, <2>5 DEF Kept
  <1>4. CASE Locked(t)
    <2>1. /\ Active(t) /\ Goes(t, <<"run">>) /\ UNCHANGED <<script, queue, calls, channels>>
          /\ mutex' = <<script[t], t>>
      BY <1>4, Busy DEF Locked
    <2>2. mutex' \in Scripts \X ThreadIds
      BY <2>1, Parts
    <2>3. ASSUME NEW u \in ThreadIds, NEW v \in ThreadIds, mutex' = <<Main(u), v>> PROVE v = u
      <3>1. v = t /\ script[t][1] = "main" /\ script[t][2] = u
        BY <2>1, <2>3 DEF Main
      <3> QED
        BY <2>1, <3>1, Parts DEF Home
    <2> QED
      BY <2>1, <2>2, <2>3, Places1, Untouched, Proceeds DEF channels
  <1>5. CASE Unlock(t)
    <2>1. mutex' = Free /\ UNCHANGED <<pc, script, queue, calls, channels>>
      BY <1>5 DEF Unlock
    <2>2. \A u, v \in ThreadIds : mutex' = <<Main(u), v>> => v = u
      BY <2>1 DEF Main, Free
    <2>3. Spread' /\ Home'
      <3>1. \A u \in ThreadIds : Active(u)' = Active(u) /\ Alive(u)' = Alive(u)
        BY <2>1 DEF Active, Alive
      <3> QED
        BY <2>1, <2>2, <3>1, Same
    <2>4. Counts' /\ Types'
      BY <2>1, Parts DEF Counts, Types, channels
    <2> QED
      BY <2>3, <2>4 DEF Kept
  <1>6. CASE Recv(t)
    <2>1. Active(t) /\ pc[t] \in Locations /\ UNCHANGED <<script, queue, calls, mutex>>
      BY <1>6, Busy, Parts DEF Recv, Types
    <2>2. CASE Sleep(t)
      <3>1. Goes(t, pc[t])
        BY <2>2, Parts DEF Sleep, Goes, Types
      <3>2. pc[t] \notin {<<"start">>, <<"loop">>, <<"over">>}
        BY <2>1 DEF Active
      <3>3. \A c \in Channels : pc[t] = <<"send", c>> => calls'[t] >= 1
        BY <2>1, Parts DEF Counts
      <3>4. asleep' \subseteq ThreadIds /\ UNCHANGED got
        BY <2>2, Parts DEF Sleep, Types
      <3> QED
        BY <2>1, <3>1, <3>2, <3>3, <3>4, Untouched, Proceeds
    <2>3. CASE \E c \in pc[t][2] : /\ fill[c] # 0
                                   /\ got' = [got EXCEPT ![t] = messages[c][read[c]]]
                                   /\ Goes(t, <<"run">>) /\ UNCHANGED <<write, asleep>>
      <3>1. PICK c \in pc[t][2] : /\ fill[c] # 0
                                  /\ got' = [got EXCEPT ![t] = messages[c][read[c]]]
                                  /\ Goes(t, <<"run">>) /\ UNCHANGED <<write, asleep>>
        BY <2>3
      <3>2. c \in Channels
        <4>1. pc[t] \in {"recv"} \X (SUBSET Channels \ {{}})
          <5>1. pc[t][1] = "recv"
            BY <1>6 DEF Recv
          <5> QED
            BY <2>1, <5>1 DEF Locations
        <4> QED
          BY <3>1, <4>1
      <3>3. messages[c][read[c]] \in ThreadIds \X Nat
        BY <3>2, Parts DEF Rings, Ring, RingOK, Messages
      <3>4. got' \in [ThreadIds -> ThreadIds \X Nat]
        BY <3>1, <3>3, Parts DEF Types
      <3> QED
        BY <2>1, <3>1, <3>4, Places1, Untouched, Proceeds
    <2> QED
      BY <1>6, <2>2, <2>3 DEF Recv
  <1>7. ASSUME NEW c \in Channels, Send(t, c) PROVE Kept
    <2>1. /\ Active(t) /\ pc[t] = <<"send", c>> /\ pc[t] \in Locations
          /\ UNCHANGED <<script, queue, calls, mutex>>
      BY <1>7, Busy, Parts DEF Send, Types
    <2>2. CASE Sleep(t)
      <3>1. Goes(t, pc[t])
        BY <2>2, Parts DEF Sleep, Goes, Types
      <3>2. pc[t] \notin {<<"start">>, <<"loop">>, <<"over">>}
        BY <2>1 DEF Active
      <3>3. \A d \in Channels : pc[t] = <<"send", d>> => calls'[t] >= 1
        BY <2>1, Parts DEF Counts
      <3>4. asleep' \subseteq ThreadIds /\ UNCHANGED got
        BY <2>2, Parts DEF Sleep, Types
      <3> QED
        BY <2>1, <3>1, <3>2, <3>3, <3>4, Untouched, Proceeds
    <2>3. CASE ~ Full(c)
      <3>1. Goes(t, <<"run">>) /\ asleep' = {} /\ UNCHANGED got
        BY <1>7, <2>3 DEF Send, Wakes
      <3> QED
        BY <2>1, <3>1, Places1, Untouched, Proceeds
    <2> QED
      BY <1>7, <2>2, <2>3 DEF Send
  <1> QED
    BY <1>1, <1>2, <1>3, <1>4, <1>5, <1>6, <1>7 DEF Step

LEMMA KeptByChoose ==
  ASSUME TInv, NEW t \in ThreadIds, Choose(t), UNCHANGED role
  PROVE  Kept
  <1>1. ASSUME NEW u \in ThreadIds, Create(t, u) PROVE Kept
    BY <1>1, KeptByCreate
  <1>2. ASSUME NEW u \in ThreadIds, Join(t, u) PROVE Kept
    <2>1. /\ Does(t, "join") /\ Goes(t, <<"join", u>>) /\ <<"join", u>> \in Locations
          /\ UNCHANGED <<script, queue, channels, mutex>>
      BY <1>2 DEF Join, Locations
    <2>2. Active(t)
      BY <2>1, Doing
    <2> QED
      BY <2>1, <2>2, Places1, Untouched, Proceeds DEF channels
  <1>3. ASSUME NEW u \in ThreadIds, CallPort(t, u) PROVE Kept
    <2>1. /\ Does(t, "port") /\ Goes(t, <<"loop">>)
          /\ queue' = [queue EXCEPT ![u] = Append(@, Fn(t))]
          /\ UNCHANGED <<script, channels, mutex>>
      BY <1>3 DEF CallPort, Suspends
    <2>2. /\ Active(t) /\ script[t] = Main(t) /\ calls' \in [ThreadIds -> 0 .. MaxCalls]
          /\ \A v \in ThreadIds : calls'[v] >= calls[v]
      BY <2>1, Doing
    <2>3. Fn(t) \in Scripts /\ Fn(t)[2] = script[t][2] /\ Fn(t)[1] # "main"
      BY <2>2 DEF Fn, Main, Scripts
    <2>4. /\ Spread' /\ Home' /\ pc' \in [ThreadIds -> Locations]
          /\ queue' \in [ThreadIds -> Seq(Scripts)]
      BY <2>1, <2>2, <2>3, Moves
    <2>5. Counts'
      <3>1. pc'[t] = <<"loop">> /\ \A v \in ThreadIds : v # t => pc'[v] = pc[v]
        BY <2>1, Parts DEF Types, Goes, Locations
      <3> QED
        BY <2>2, <3>1, Places1, CountsKept
    <2>6. Types'
      BY <2>1, <2>2, <2>4, Parts DEF Types, channels
    <2> QED
      BY <2>4, <2>5, <2>6 DEF Kept
  <1>4. CASE Use(t)
    <2>1. Active(t) /\ Goes(t, <<"lock">>) /\ UNCHANGED <<script, queue, channels, mutex>>
      BY <1>4, Busy DEF Use
    <2>2. UNCHANGED calls \/ \E call : Does(t, call)
      BY <1>4 DEF Use
    <2> QED
      BY <2>1, <2>2, Places1, Untouched, Proceeds DEF channels
  <1>5. CASE Finish(t)
    BY <1>5, KeptByFinish
  <1>6. ASSUME NEW c \in Channels, StartSend(t, c) PROVE Kept
    <2>1. /\ Does(t, "send") /\ Goes(t, <<"send", c>>) /\ <<"send", c>> \in Locations
          /\ UNCHANGED <<script, queue, channels, mutex>>
      BY <1>6 DEF StartSend, Locations
    <2>2. Active(t) /\ calls'[t] >= 1
      BY <2>1, Doing
    <2> QED
      BY <2>1, <2>2, Places1, Untouched, Proceeds DEF channels
  <1>7. ASSUME NEW cs \in SUBSET Channels \ {{}}, StartRecv(t, cs) PROVE Kept
    <2>1. /\ Does(t, "recv") /\ Goes(t, <<"recv", cs>>) /\ <<"recv", cs>> \in Locations
          /\ UNCHANGED <<script, queue, channels, mutex>>
      BY <1>7 DEF StartRecv, Locations
    <2>2. Active(t)
      BY <2>1, Doing
    <2> QED
      BY <2>1, <2>2, Places1, Untouched, Proceeds DEF channels
  <1> QED
    BY <1>1, <1>2, <1>3, <1>4, <1>5, <1>6, <1>7 DEF Choose
------------------------------------------------------------------------------
(* The rings as queues. *)

\* Where the cells of a ring are when w is the first free one.
FreeCell(n, r, f, w) ==
  /\ Rest(w + 1, n) \in 0 .. n - 1 /\ Rest(w + 1, n) = Rest(r + (f + 1), n)
  /\ Rest(r + (f + 1) - 1, n) = w
  /\ \A i \in 1 .. f : Rest(r + i - 1, n) \in 0 .. n - 1 /\ Rest(r + i - 1, n) # w

LEMMA Writing ==
  ASSUME NEW n \in Nat \ {0}, NEW r \in 0 .. n - 1, NEW f \in 0 .. n - 1,
         NEW w, w = Rest(r + f, n)
  PROVE  FreeCell(n, r, f, w)
  <1>1. w = (IF r + f < n THEN r + f ELSE r + f - n) /\ w \in 0 .. n - 1
    <2>1. Rest(r + f, n) = IF r + f < n THEN r + f ELSE r + f - n
      BY Around
    <2> QED
      BY <2>1
  <1>2. Rest(w + 1, n) = IF w + 1 < n THEN w + 1 ELSE w + 1 - n
    BY <1>1, Around
  <1>3. Rest(r + (f + 1), n) = IF r + (f + 1) < n THEN r + (f + 1) ELSE r + (f + 1) - n
    <2>1. f + 1 \in 0 .. n
      OBVIOUS
    <2> QED
      BY <2>1, Around
  <1>4. r + (f + 1) - 1 = r + f
    OBVIOUS
  <1>5. ASSUME NEW i \in 1 .. f
        PROVE  Rest(r + i - 1, n) \in 0 .. n - 1 /\ Rest(r + i - 1, n) # w
    <2>1. i - 1 \in 0 .. n /\ r + i - 1 = r + (i - 1)
      OBVIOUS
    <2>2. Rest(r + (i - 1), n) = IF r + (i - 1) < n THEN r + (i - 1) ELSE r + (i - 1) - n
      BY <2>1, Around
    <2> QED
      BY <1>1, <2>1, <2>2
  <1>6. Rest(w + 1, n) \in 0 .. n - 1 /\ Rest(w + 1, n) = Rest(r + (f + 1), n)
    BY <1>1, <1>2, <1>3
  <1> QED
    BY <1>1, <1>4, <1>5, <1>6 DEF FreeCell

\* Where they are when the first one is taken.
LEMMA Reading ==
  ASSUME NEW n \in Nat \ {0}, NEW r \in 0 .. n - 1, NEW f \in 1 .. n,
         NEW s, s = Rest(r + 1, n)
  PROVE  /\ s \in 0 .. n - 1 /\ Rest(s + (f - 1), n) = Rest(r + f, n)
         /\ Rest(r + 1 - 1, n) = r
         /\ \A i \in 1 .. f - 1 : /\ Rest(s + i - 1, n) = Rest(r + (i + 1) - 1, n)
                                /\ Rest(s + i - 1, n) \in 0 .. n - 1 /\ Rest(s + i - 1, n) # r
  <1>1. s = (IF r + 1 < n THEN r + 1 ELSE r + 1 - n) /\ s \in 0 .. n - 1
    <2>1. Rest(r + 1, n) = IF r + 1 < n THEN r + 1 ELSE r + 1 - n
      BY Around
    <2> QED
      BY <2>1
  <1>2. ASSUME NEW i \in 0 .. f - 1
        PROVE  /\ Rest(s + i, n) = Rest(r + (i + 1), n)
               /\ Rest(s + i, n) \in 0 .. n - 1 /\ (i + 1 < n => Rest(s + i, n) # r)
    <2>1. Rest(s + i, n) = IF s + i < n THEN s + i ELSE s + i - n
      BY <1>1, Around
    <2>2. Rest(r + (i + 1), n) = IF r + (i + 1) < n THEN r + (i + 1) ELSE r + (i + 1) - n
      <3>1. i + 1 \in 0 .. n
        OBVIOUS
      <3> QED
        BY <3>1, Around
    <2> QED
      BY <1>1, <2>1, <2>2
  <1>3. Rest(s + (f - 1), n) = Rest(r + f, n)
    <2>1. f - 1 \in 0 .. f - 1 /\ (f - 1) + 1 = f
      OBVIOUS
    <2> QED
      BY <1>2, <2>1
  <1>4. Rest(r + 1 - 1, n) = r
    <2>1. r + 1 - 1 = r + 0 /\ Rest(r + 0, n) = IF r + 0 < n THEN r + 0 ELSE r + 0 - n
      BY Around
    <2> QED
      BY <2>1
  <1>5. ASSUME NEW i \in 1 .. f - 1
        PROVE  /\ Rest(s + i - 1, n) = Rest(r + (i + 1) - 1, n)
               /\ Rest(s + i - 1, n) \in 0 .. n - 1 /\ Rest(s + i - 1, n) # r
    <2>1. /\ i - 1 \in 0 .. f - 1 /\ (i - 1) + 1 < n /\ s + i - 1 = s + (i - 1)
          /\ r + (i + 1) - 1 = r + ((i - 1) + 1)
      BY <1>1
    <2> QED
      BY <1>2, <2>1
  <1> QED
    BY <1>1, <1>3, <1>4, <1>5

LEMMA StoreIsSeq ==
  ASSUME NEW n \in Nat \ {0}, NEW f, NEW r, NEW w, NEW m, RingOK(n, f, r, w, m)
  PROVE  /\ Store(n, f, r, m) \in Seq(Messages) /\ Len(Store(n, f, r, m)) = f /\ f \in Nat
         /\ \A i \in 1 .. f : Store(n, f, r, m)[i] = m[Rest(r + i - 1, n)]
  <1>1. /\ f \in 0 .. n /\ f \in Nat /\ r \in 0 .. n - 1 /\ m \in [0 .. n - 1 -> Messages]
    BY DEF RingOK
  <1>2. ASSUME NEW i \in 1 .. f PROVE m[Rest(r + i - 1, n)] \in Messages
    <2>1. i - 1 \in 0 .. n /\ r + i - 1 = r + (i - 1)
      BY <1>1
    <2>2. Rest(r + (i - 1), n) = IF r + (i - 1) < n THEN r + (i - 1) ELSE r + (i - 1) - n
      BY <1>1, <2>1, Around
    <2>3. Rest(r + i - 1, n) \in 0 .. n - 1
      BY <1>1, <2>1, <2>2
    <2> QED
      BY <1>1, <2>3
  <1>3. Store(n, f, r, m) \in [1 .. f -> Messages]
    BY <1>2 DEF Store
  <1>4. Store(n, f, r, m) \in Seq(Messages) /\ Len(Store(n, f, r, m)) = f
    BY <1>1, <1>3
  <1>5. \A i \in 1 .. f : Store(n, f, r, m)[i] = m[Rest(r + i - 1, n)]
    BY DEF Store
  <1> QED
    BY <1>1, <1>4, <1>5

\* The two operations on a ring append to and take from what is stored.
LEMMA Putting ==
  ASSUME NEW n \in Nat \ {0}, NEW f, NEW r, NEW w, NEW m, RingOK(n, f, r, w, m),
         NEW e \in Messages, f # n
  PROVE  /\ RingOK(n, f + 1, r, Rest(w + 1, n), [m EXCEPT ![w] = e])
         /\ Store(n, f + 1, r, [m EXCEPT ![w] = e]) = Append(Store(n, f, r, m), e)
         /\ Len(Store(n, f, r, m)) < n
  <1> DEFINE k == [m EXCEPT ![w] = e]
             old == Store(n, f, r, m)
             new == Store(n, f + 1, r, k)
  <1>1. /\ f \in 0 .. n - 1 /\ f \in Nat /\ r \in 0 .. n - 1 /\ w = Rest(r + f, n)
        /\ w \in 0 .. n - 1 /\ m \in [0 .. n - 1 -> Messages] /\ f + 1 \in 0 .. n
    BY DEF RingOK
  <1>2. /\ k \in [0 .. n - 1 -> Messages] /\ k[w] = e
        /\ \A j \in 0 .. n - 1 : j # w => k[j] = m[j]
    BY <1>1
  <1>3. /\ Rest(w + 1, n) \in 0 .. n - 1 /\ Rest(w + 1, n) = Rest(r + (f + 1), n)
        /\ Rest(r + (f + 1) - 1, n) = w
        /\ \A i \in 1 .. f : Rest(r + i - 1, n) \in 0 .. n - 1 /\ Rest(r + i - 1, n) # w
    <2>1. f \in 0 .. n - 1 /\ r \in 0 .. n - 1 /\ w = Rest(r + f, n)
      BY <1>1
    <2>2. FreeCell(n, r, f, w)
      BY <2>1, Writing
    <2> QED
      BY <2>2 DEF FreeCell
  <1> HIDE DEF k
  <1>4. RingOK(n, f + 1, r, Rest(w + 1, n), k)
    BY <1>1, <1>2, <1>3 DEF RingOK
  <1>5. /\ old \in Seq(Messages) /\ Len(old) = f
        /\ \A i \in 1 .. f : old[i] = m[Rest(r + i - 1, n)]
    BY StoreIsSeq
  <1>6. /\ new \in Seq(Messages) /\ Len(new) = f + 1
        /\ \A i \in 1 .. f + 1 : new[i] = k[Rest(r + i - 1, n)]
    BY <1>4, StoreIsSeq
  <1> HIDE DEF old, new
  <1>7. /\ Append(old, e) \in Seq(Messages) /\ Len(Append(old, e)) = f + 1
        /\ Append(old, e)[f + 1] = e /\ \A i \in 1 .. f : Append(old, e)[i] = old[i]
    BY <1>5, AppendProperties
  <1>8. ASSUME NEW i \in 1 .. f + 1 PROVE new[i] = Append(old, e)[i]
    <2>1. CASE i = f + 1
      BY <1>2, <1>3, <1>6, <1>7, <2>1
    <2>2. CASE i # f + 1
      <3>1. i \in 1 .. f
        BY <1>1, <2>2
      <3>2. new[i] = m[Rest(r + i - 1, n)]
        BY <1>2, <1>3, <1>6, <3>1
      <3> QED
        BY <1>5, <1>7, <3>1, <3>2
    <2> QED
      BY <2>1, <2>2
  <1>9. new = Append(old, e)
    BY <1>6, <1>7, <1>8, SeqEqual
  <1>10. Len(old) < n
    BY <1>1, <1>5
  <1> QED
    BY <1>4, <1>9, <1>10 DEF k, old, new

LEMMA Getting ==
  ASSUME NEW n \in Nat \ {0}, NEW f, NEW r, NEW w, NEW m, RingOK(n, f, r, w, m),
         NEW e \in Messages, f # 0
  PROVE  /\ RingOK(n, f - 1, Rest(r + 1, n), w, [m EXCEPT ![r] = e])
         /\ Store(n, f - 1, Rest(r + 1, n), [m EXCEPT ![r] = e]) = Tail(Store(n, f, r, m))
         /\ Store(n, f, r, m) # <<>> /\ Head(Store(n, f, r, m)) = m[r]
  <1> DEFINE k == [m EXCEPT ![r] = e]
             s == Rest(r + 1, n)
             old == Store(n, f, r, m)
             new == Store(n, f - 1, s, k)
  <1>1. /\ f \in 1 .. n /\ f \in Nat /\ r \in 0 .. n - 1 /\ w = Rest(r + f, n)
        /\ w \in 0 .. n - 1 /\ m \in [0 .. n - 1 -> Messages] /\ f - 1 \in 0 .. n
    BY DEF RingOK
  <1>2. /\ k \in [0 .. n - 1 -> Messages]
        /\ \A j \in 0 .. n - 1 : j # r => k[j] = m[j]
    BY <1>1
  <1>3. /\ s \in 0 .. n - 1 /\ Rest(s + (f - 1), n) = Rest(r + f, n)
        /\ Rest(r + 1 - 1, n) = r
        /\ \A i \in 1 .. f - 1 : /\ Rest(s + i - 1, n) = Rest(r + (i + 1) - 1, n)
                               /\ Rest(s + i - 1, n) \in 0 .. n - 1 /\ Rest(s + i - 1, n) # r
    BY <1>1, Reading
  <1> HIDE DEF k, s
  <1>4. RingOK(n, f - 1, s, w, k)
    BY <1>1, <1>2, <1>3 DEF RingOK
  <1>5. /\ old \in Seq(Messages) /\ Len(old) = f
        /\ \A i \in 1 .. f : old[i] = m[Rest(r + i - 1, n)]
    BY StoreIsSeq
  <1>6. /\ new \in Seq(Messages) /\ Len(new) = f - 1
        /\ \A i \in 1 .. f - 1 : new[i] = k[Rest(s + i - 1, n)]
    BY <1>4, StoreIsSeq
  <1> HIDE DEF old, new
  <1>7. old # <<>> /\ 1 \in 1 .. f
    BY <1>1, <1>5
  <1>8. /\ Tail(old) \in Seq(Messages) /\ Len(Tail(old)) = f - 1
        /\ \A i \in 1 .. f - 1 : Tail(old)[i] = old[i + 1]
        /\ Head(old) = old[1]
    BY <1>1, <1>5, <1>7
  <1>9. ASSUME NEW i \in 1 .. f - 1 PROVE new[i] = Tail(old)[i]
    <2>1. i + 1 \in 1 .. f
      BY <1>1
    <2>2. new[i] = m[Rest(r + (i + 1) - 1, n)]
      BY <1>2, <1>3, <1>6
    <2> QED
      BY <1>5, <1>8, <2>1, <2>2
  <1>10. new = Tail(old)
    BY <1>6, <1>8, <1>9, SeqEqual
  <1>11. Head(old) = m[r]
    BY <1>3, <1>5, <1>7, <1>8
  <1> QED
    BY <1>4, <1>7, <1>10, <1>11 DEF k, s, old, new
------------------------------------------------------------------------------
(* The steps of channels. *)

rings == <<messages, fill, write, read>>
Contents == [c \in Channels |-> Content(c)]

\* What happens to one channel leaves the others alone.
LEMMA OneRing ==
  ASSUME Rings, NEW c \in Channels, Ring(c)',
         fill' \in [Channels -> Nat], read' \in [Channels -> Nat],
         write' \in [Channels -> Nat], messages' = [d \in Channels |-> messages'[d]],
         \A d \in Channels : d # c => /\ fill'[d] = fill[d] /\ read'[d] = read[d]
                                      /\ write'[d] = write[d] /\ messages'[d] = messages[d]
  PROVE  Rings' /\ Contents' = [Contents EXCEPT ![c] = Content(c)']
  <1>1. \A d \in Channels : d # c => Ring(d)' /\ Content(d)' = Content(d)
    BY DEF Rings, Ring, Content
  <1>2. Contents' = [Contents EXCEPT ![c] = Content(c)']
    BY <1>1 DEF Contents
  <1>3. \A d \in Channels : Ring(d)'
    BY <1>1
  <1> QED
    BY <1>2, <1>3 DEF Rings

LEMMA Ranges ==
  ASSUME Rings, NEW c \in Channels
  PROVE  /\ Size[c] \in Nat \ {0} /\ Ring(c)
         /\ RingOK(Size[c], fill[c], read[c], write[c], messages[c])
         /\ fill[c] \in Nat /\ read[c] \in 0 .. Size[c] - 1 /\ write[c] \in 0 .. Size[c] - 1
         /\ messages[c] \in [0 .. Size[c] - 1 -> Messages]
  BY ThreadsAssumption DEF Rings, Ring, RingOK

LEMMA SendPuts ==
  ASSUME TInv, NEW t \in ThreadIds, NEW c \in Channels, Send(t, c), ~ Full(c)
  PROVE  /\ Rings' /\ Len(Content(c)) < Size[c] /\ UNCHANGED got
         /\ Contents' = [Contents EXCEPT ![c] = Append(@, Message(t))]
         /\ Message(t) \in ThreadIds \X (1 .. MaxCalls)
  <1>1. /\ messages' = [messages EXCEPT ![c][write[c]] = Message(t)]
        /\ fill' = [fill EXCEPT ![c] = @ + 1]
        /\ write' = [write EXCEPT ![c] = (@ + 1) % Size[c]]
        /\ UNCHANGED <<read, got>> /\ pc[t] = <<"send", c>> /\ fill[c] # Size[c]
    BY DEF Send, Full
  <1>2. Message(t) \in ThreadIds \X (1 .. MaxCalls) /\ Message(t) \in Messages
    <2>1. calls[t] \in 0 .. MaxCalls /\ calls[t] >= 1 /\ MaxCalls \in Nat
      BY <1>1, Parts, ThreadsAssumption DEF Counts, Types
    <2>2. calls[t] \in 1 .. MaxCalls /\ calls[t] \in Nat
      BY <2>1
    <2> QED
      BY <2>2 DEF Message, Messages
  <1>3. Rings
    BY Parts
  <1> DEFINE n == Size[c]
             f == fill[c]
             r == read[c]
             w == write[c]
             m == messages[c]
  <1>4. n \in Nat \ {0} /\ RingOK(n, f, r, w, m)
    BY <1>3, Ranges
  <1>5. /\ RingOK(n, f + 1, r, Rest(w + 1, n), [m EXCEPT ![w] = Message(t)])
        /\ Store(n, f + 1, r, [m EXCEPT ![w] = Message(t)]) = Append(Store(n, f, r, m), Message(t))
        /\ Len(Store(n, f, r, m)) < n
    BY <1>1, <1>2, <1>4, Putting
  <1>6. /\ fill' \in [Channels -> Nat] /\ fill'[c] = f + 1
        /\ \A d \in Channels : d # c => fill'[d] = fill[d]
    BY <1>1, <1>3, Ranges DEF Rings
  <1>7. /\ write' \in [Channels -> Nat] /\ write'[c] = Rest(w + 1, n)
        /\ \A d \in Channels : d # c => write'[d] = write[d]
    <2>1. (w + 1) % n = Rest(w + 1, n) /\ Rest(w + 1, n) \in Nat
      BY <1>4, <1>5 DEF Rest, RingOK
    <2> QED
      BY <1>1, <1>3, <2>1 DEF Rings
  <1>8. /\ messages' = [d \in Channels |-> messages'[d]]
        /\ messages'[c] = [m EXCEPT ![w] = Message(t)]
        /\ \A d \in Channels : d # c => messages'[d] = messages[d]
    BY <1>1, <1>3 DEF Rings
  <1>9. Ring(c)' /\ Content(c)' = Append(Content(c), Message(t))
    BY <1>1, <1>5, <1>6, <1>7, <1>8 DEF Ring, Content
  <1>10. Rings' /\ Contents' = [Contents EXCEPT ![c] = Content(c)']
    BY <1>1, <1>3, <1>6, <1>7, <1>8, <1>9, OneRing DEF Rings
  <1>11. Contents' = [Contents EXCEPT ![c] = Append(@, Message(t))]
    BY <1>9, <1>10 DEF Contents
  <1> QED
    BY <1>1, <1>2, <1>5, <1>10, <1>11 DEF Content

LEMMA RecvGets ==
  ASSUME TInv, NEW t \in ThreadIds, NEW c \in Channels, fill[c] # 0,
         got' = [got EXCEPT ![t] = messages[c][read[c]]],
         messages' = [messages EXCEPT ![c][read[c]] = NoMessage],
         fill' = [fill EXCEPT ![c] = @ - 1],
         read' = [read EXCEPT ![c] = (@ + 1) % Size[c]], UNCHANGED write
  PROVE  /\ Rings' /\ Content(c) # <<>>
         /\ Contents' = [Contents EXCEPT ![c] = Tail(@)]
         /\ got' = [got EXCEPT ![t] = Head(Content(c))]
  <1>1. NoMessage \in Messages /\ Rings
    BY Parts, ThreadsAssumption DEF NoMessage, Messages
  <1> DEFINE n == Size[c]
             f == fill[c]
             r == read[c]
             w == write[c]
             m == messages[c]
  <1>2. n \in Nat \ {0} /\ RingOK(n, f, r, w, m) /\ f \in Nat
    BY <1>1, Ranges
  <1>3. /\ RingOK(n, f - 1, Rest(r + 1, n), w, [m EXCEPT ![r] = NoMessage])
        /\ Store(n, f - 1, Rest(r + 1, n), [m EXCEPT ![r] = NoMessage]) = Tail(Store(n, f, r, m))
        /\ Store(n, f, r, m) # <<>> /\ Head(Store(n, f, r, m)) = m[r]
    BY <1>1, <1>2, Getting
  <1>4. /\ fill' \in [Channels -> Nat] /\ fill'[c] = f - 1
        /\ \A d \in Channels : d # c => fill'[d] = fill[d]
    BY <1>1, <1>2 DEF Rings
  <1>5. /\ read' \in [Channels -> Nat] /\ read'[c] = Rest(r + 1, n)
        /\ \A d \in Channels : d # c => read'[d] = read[d]
    <2>1. (r + 1) % n = Rest(r + 1, n) /\ Rest(r + 1, n) \in Nat
      BY <1>2, <1>3 DEF Rest, RingOK
    <2> QED
      BY <1>1, <2>1 DEF Rings
  <1>6. /\ messages' = [d \in Channels |-> messages'[d]]
        /\ messages'[c] = [m EXCEPT ![r] = NoMessage]
        /\ \A d \in Channels : d # c => messages'[d] = messages[d]
    BY <1>1 DEF Rings
  <1>7. Ring(c)' /\ Content(c)' = Tail(Content(c))
    BY <1>3, <1>4, <1>5, <1>6 DEF Ring, Content
  <1>8. Rings' /\ Contents' = [Contents EXCEPT ![c] = Content(c)']
    BY <1>1, <1>4, <1>5, <1>6, <1>7, OneRing DEF Rings
  <1>9. Contents' = [Contents EXCEPT ![c] = Tail(@)]
    BY <1>7, <1>8 DEF Contents
  <1> QED
    BY <1>3, <1>8, <1>9 DEF Content

LEMMA RingsStay ==
  ASSUME TInv, UNCHANGED rings
  PROVE  Rings' /\ Contents' = Contents
  BY Parts DEF Rings, Ring, Contents, Content, rings

\* What a step does to the channels: nothing, a put or a get.
Delivers ==
  /\ Rings'
  /\ \/ Contents' = Contents /\ UNCHANGED got
     \/ \E c \in Channels : \E v \in ThreadIds \X (1 .. MaxCalls) :
          /\ Len(Contents[c]) < Size[c] /\ UNCHANGED got
          /\ Contents' = [Contents EXCEPT ![c] = Append(@, v)]
     \/ \E c \in Channels : \E t \in ThreadIds :
          /\ Contents[c] # <<>> /\ Contents' = [Contents EXCEPT ![c] = Tail(@)]
          /\ got' = [got EXCEPT ![t] = Head(Contents[c])]

LEMMA NoDelivery ==
  ASSUME TInv, UNCHANGED <<rings, got>>
  PROVE  Delivers
  BY RingsStay DEF Delivers

LEMMA StepDelivers ==
  ASSUME TInv, NEW t \in ThreadIds, Step(t)
  PROVE  Delivers
  <1>1. CASE Joined(t) \/ RunQueued(t) \/ MessageDone(t) \/ Locked(t) \/ Unlock(t)
    <2>1. UNCHANGED channels
      BY <1>1 DEF Joined, RunQueued, MessageDone, Locked, Unlock
    <2> QED
      BY <2>1, NoDelivery DEF channels, rings
  <1>2. ASSUME NEW c \in Channels, Send(t, c) PROVE Delivers
    <2>1. CASE Full(c)
      <3>1. UNCHANGED <<rings, got>>
        BY <1>2, <2>1 DEF Send, Sleep, rings
      <3> QED
        BY <3>1, NoDelivery
    <2>2. CASE ~ Full(c)
      <3>1. Contents[c] = Content(c)
        BY DEF Contents
      <3> QED
        BY <1>2, <2>2, <3>1, SendPuts DEF Delivers
    <2> QED
      BY <2>1, <2>2
  <1>3. CASE Recv(t)
    <2>1. CASE Sleep(t)
      <3>1. UNCHANGED <<rings, got>>
        BY <2>1 DEF Sleep, rings
      <3> QED
        BY <3>1, NoDelivery
    <2>2. CASE ~ Sleep(t)
      <3>1. PICK c \in pc[t][2] :
              /\ fill[c] # 0 /\ got' = [got EXCEPT ![t] = messages[c][read[c]]]
              /\ messages' = [messages EXCEPT ![c][read[c]] = NoMessage]
              /\ fill' = [fill EXCEPT ![c] = @ - 1]
              /\ read' = [read EXCEPT ![c] = (@ + 1) % Size[c]] /\ UNCHANGED write
        BY <1>3, <2>2 DEF Recv
      <3>2. c \in Channels
        <4>1. pc[t] \in Locations /\ pc[t][1] = "recv"
          BY <1>3, Parts DEF Recv, Types
        <4>2. pc[t] \in {"recv"} \X (SUBSET Channels \ {{}})
          BY <4>1 DEF Locations
        <4> QED
          BY <3>1, <4>2
      <3>3. Contents[c] = Content(c)
        BY <3>2 DEF Contents
      <3>4. /\ Rings' /\ Content(c) # <<>> /\ Contents' = [Contents EXCEPT ![c] = Tail(@)]
            /\ got' = [got EXCEPT ![t] = Head(Content(c))]
        BY <3>1, <3>2, RecvGets
      <3> QED
        BY <3>2, <3>3, <3>4 DEF Delivers
    <2> QED
      BY <2>1, <2>2
  <1> QED
    BY <1>1, <1>2, <1>3 DEF Step

LEMMA NextT == TInv /\ [Next]_vars => TInv' /\ Delivers
  <1> SUFFICES ASSUME TInv, [Next]_vars PROVE TInv' /\ Delivers
    OBVIOUS
  <1>1. ASSUME NEW t \in ThreadIds, Step(t), UNCHANGED role PROVE TInv' /\ Delivers
    BY <1>1, KeptByStep, StepDelivers DEF Kept, Delivers, TInv
  <1>2. ASSUME NEW t \in ThreadIds, Choose(t), UNCHANGED role PROVE TInv' /\ Delivers
    <2>1. UNCHANGED channels
      BY <1>2 DEF Choose, Create, Join, CallPort, Use, Finish, StartSend, StartRecv
    <2>2. Delivers
      BY <2>1, NoDelivery DEF channels, rings
    <2> QED
      BY <1>2, <2>2, KeptByChoose DEF Kept, Delivers, TInv
  <1>3. ASSUME NEW t \in ThreadIds, SpuriousWakeup(t), UNCHANGED role
        PROVE  TInv' /\ Delivers
    <2>1. /\ UNCHANGED <<pc, script, queue, calls, rings, got, mutex>>
          /\ asleep' \subseteq ThreadIds
      BY <1>3, Parts DEF SpuriousWakeup, rings, Types
    <2>2. Delivers
      BY <2>1, NoDelivery
    <2>3. Spread' /\ Home'
      <3>1. \A u \in ThreadIds : Active(u)' = Active(u) /\ Alive(u)' = Alive(u)
        BY <2>1 DEF Active, Alive
      <3> QED
        BY <2>1, <3>1, Same, Untouched
    <2>4. Types' /\ Counts'
      BY <1>3, <2>1, Parts DEF Types, Counts
    <2> QED
      BY <2>2, <2>3, <2>4 DEF Delivers, TInv
  <1>4. CASE UNCHANGED vars
    <2>1. UNCHANGED <<role, pc, script, queue, calls, asleep, rings, got, mutex>>
      BY <1>4 DEF vars, channels, rings
    <2>2. Delivers
      BY <2>1, NoDelivery
    <2>3. Spread' /\ Home'
      <3>1. \A u \in ThreadIds : Active(u)' = Active(u) /\ Alive(u)' = Alive(u)
        BY <2>1 DEF Active, Alive
      <3> QED
        BY <2>1, <3>1, Same, Untouched
    <2>4. Types' /\ Counts'
      BY <2>1, Parts DEF Types, Counts
    <2> QED
      BY <2>2, <2>3, <2>4 DEF Delivers, TInv
  <1> QED
    BY <1>1, <1>2, <1>3, <1>4 DEF Next

LEMMA TInvHolds == Spec => []TInv
  BY InitT, NextT, PTL DEF Spec
------------------------------------------------------------------------------
\* Each variable of Threads keeps its type.
THEOREM ThreadTypes == Spec => []TypeOK
  <1>1. TInv => TypeOK
    <2> SUFFICES ASSUME TInv PROVE TypeOK
      OBVIOUS
    <2>1. \A c \in Channels :
            /\ messages[c] \in [0 .. Size[c] - 1 -> ThreadIds \X Nat]
            /\ fill[c] \in 0 .. Size[c]
            /\ write[c] \in 0 .. Size[c] - 1 /\ read[c] \in 0 .. Size[c] - 1
      BY Parts DEF Rings, Ring, RingOK, Messages
    <2> QED
      BY <2>1, Parts DEF Types, TypeOK, Scripts
  <1> QED
    BY <1>1, TInvHolds, PTL

\* A function that has begun and not returned is in one place, whichever threads
\* the calls of ports and their answers cross.
THEOREM FunctionsAreInOnePlace == Spec => []CallsConserved
  <1>1. TInv => CallsConserved
    <2> SUFFICES ASSUME TInv, NEW t \in ThreadIds, Alive(t)
                 PROVE  Cardinality(Places(t)) = 1
      BY DEF CallsConserved, Alive
    <2> DEFINE here == {Main(t), Fn(t)}
    <2>1. \A x \in Scripts : x \in here <=> x[2] = t
      BY DEF Scripts, Main, Fn
    <2>2. PICK u \in ThreadIds : \E x \in At(u) : x[2] = t
      BY Parts DEF Spread
    <2>3. PICK x \in At(u) : x[2] = t
      BY <2>2
    <2>4. /\ \A v \in ThreadIds : queue[v] \in Seq(Scripts) /\ script[v] \in Scripts
          /\ \A v \in ThreadIds : DOMAIN queue[v] = 1 .. Len(queue[v])
          /\ \A v \in ThreadIds : \A i \in DOMAIN queue[v] :
               queue[v][i] \in Scripts /\ queue[v][i] \in Elems(queue[v])
      <3>1. \A v \in ThreadIds : queue[v] \in Seq(Scripts) /\ script[v] \in Scripts
        BY Parts
      <3>2. \A v \in ThreadIds : DOMAIN queue[v] = 1 .. Len(queue[v])
        BY <3>1
      <3>3. \A v \in ThreadIds : \A i \in DOMAIN queue[v] :
              queue[v][i] \in Scripts /\ queue[v][i] \in Elems(queue[v])
        BY <3>1, <3>2 DEF Elems
      <3> QED
        BY <3>1, <3>2, <3>3
    <2>5. \A v \in ThreadIds : \A y \in At(v) : y[2] = t => v = u
      BY <2>3, Parts DEF Spread
    <2>6. /\ \A v \in ThreadIds : Active(v) /\ script[v] \in here => v = u
          /\ \A v \in ThreadIds : \A i \in DOMAIN queue[v] : queue[v][i] \in here => v = u
      BY <2>1, <2>4, <2>5, Parts
    <2>7. Places(t) =
            (IF Active(u) /\ script[u] \in here THEN {<<u, 0>>} ELSE {})
              \union {<<u, i>> : i \in {j \in DOMAIN queue[u] : queue[u][j] \in here}}
      BY <2>6 DEF Places
    <2>8. CASE x \in Elems(queue[u])
      <3>1. PICK i \in DOMAIN queue[u] : queue[u][i] = x
        BY <2>4, <2>8 DEF Elems
      <3>2. \A j \in DOMAIN queue[u] : queue[u][j] \in here => j = i
        BY <2>1, <2>3, <2>4, <3>1, Parts DEF Spread, Alone
      <3>3. ~ (Active(u) /\ script[u] \in here)
        BY <2>1, <2>3, <2>4, <2>8, Parts DEF Spread
      <3>4. queue[u][i] \in here
        BY <2>1, <2>3, <2>4, <3>1
      <3>5. {j \in DOMAIN queue[u] : queue[u][j] \in here} = {i}
        BY <3>1, <3>2, <3>4
      <3> HIDE DEF here
      <3>6. Places(t) = {<<u, i>>}
        BY <2>7, <3>3, <3>5
      <3> QED
        BY <3>6, FS_Singleton
    <2>9. CASE x \notin Elems(queue[u])
      <3>1. Active(u) /\ script[u] = x
        BY <2>3, <2>9 DEF At
      <3>2. script[u] \in here
        BY <2>1, <2>3, <2>4, <3>1
      <3>3. \A j \in DOMAIN queue[u] : queue[u][j] \notin here
        BY <2>1, <2>3, <2>4, <3>1, Parts DEF Spread
      <3>4. {j \in DOMAIN queue[u] : queue[u][j] \in here} = {}
        BY <3>3
      <3> HIDE DEF here
      <3>5. Places(t) = {<<u, 0>>}
        BY <2>7, <3>1, <3>2, <3>4
      <3> QED
        BY <3>5, FS_Singleton
    <2> QED
      BY <2>8, <2>9
  <1> QED
    BY <1>1, TInvHolds, PTL

\* No call or answer carries a function into another thread, and the thread that
\* locked the mutex for it is its own.
THEOREM FunctionsStayHome == Spec => []OwnThread
  <1>1. TInv => OwnThread
    <2> SUFFICES ASSUME TInv, NEW t \in ThreadIds, NEW u \in ThreadIds,
                        \/ Active(u) /\ script[u] = Main(t)
                        \/ \E i \in DOMAIN queue[u] : queue[u][i] = Main(t)
                        \/ mutex = <<Main(t), u>>
                 PROVE  u = t
      BY DEF OwnThread
    <2>1. Main(t)[1] = "main" /\ Main(t)[2] = t
      BY DEF Main
    <2>2. CASE Active(u) /\ script[u] = Main(t)
      BY <2>1, <2>2, Parts DEF Home
    <2>3. CASE \E i \in DOMAIN queue[u] : queue[u][i] = Main(t)
      <3>1. DOMAIN queue[u] = 1 .. Len(queue[u])
        BY Parts
      <3>2. Main(t) \in Elems(queue[u])
        BY <2>3, <3>1 DEF Elems
      <3> QED
        BY <2>1, <3>2, Parts DEF Home
    <2>4. CASE mutex = <<Main(t), u>>
      BY <2>4, Parts DEF Home
    <2> QED
      BY <2>2, <2>3, <2>4
  <1> QED
    BY <1>1, TInvHolds, PTL

\* The rings of the channels implement bounded queues: every message that is sent
\* is received once, in the order of its channel, for any number of threads.
THEOREM ChannelsAreMailboxes == Spec => ImplementsMailboxes
  <1> DEFINE content == [c \in Channels |->
                [i \in 1 .. fill[c] |-> messages[c][(read[c] + i - 1) % Size[c]]]]
  <1>1. content = Contents
    BY DEF Contents, Content, Store, Rest
  <1>2. Init => MB!Init
    <2> SUFFICES ASSUME Init PROVE MB!Init
      OBVIOUS
    <2>1. \A c \in Channels : fill[c] = 0
      BY DEF Init
    <2>2. \A c \in Channels :
            [i \in 1 .. fill[c] |-> messages[c][(read[c] + i - 1) % Size[c]]] = <<>>
      BY <2>1
    <2>3. content = [c \in Channels |-> <<>>]
      BY <2>2
    <2> QED
      BY <2>3 DEF Init, MB!Init
  <1>3. TInv /\ [Next]_vars => [MB!Next]_(MB!vars)
    <2> SUFFICES ASSUME Delivers PROVE [MB!Next]_(MB!vars)
      BY NextT
    <2>1. content' = Contents'
      BY DEF Contents, Content, Store, Rest
    <2> HIDE DEF content
    <2>2. CASE Contents' = Contents /\ UNCHANGED got
      BY <1>1, <2>1, <2>2 DEF MB!vars, content
    <2>3. CASE \E c \in Channels : \E v \in ThreadIds \X (1 .. MaxCalls) :
                 /\ Len(Contents[c]) < Size[c] /\ UNCHANGED got
                 /\ Contents' = [Contents EXCEPT ![c] = Append(@, v)]
      <3>1. PICK c \in Channels, v \in ThreadIds \X (1 .. MaxCalls) :
                 /\ Len(content[c]) < Size[c] /\ UNCHANGED got
                 /\ content' = [content EXCEPT ![c] = Append(@, v)]
        BY <1>1, <2>1, <2>3
      <3>2. MB!Put(c, v)
        BY <3>1 DEF MB!Put, content
      <3> QED
        BY <3>1, <3>2 DEF MB!Next
    <2>4. CASE \E c \in Channels : \E t \in ThreadIds :
                 /\ Contents[c] # <<>> /\ Contents' = [Contents EXCEPT ![c] = Tail(@)]
                 /\ got' = [got EXCEPT ![t] = Head(Contents[c])]
      <3>1. PICK c \in Channels, t \in ThreadIds :
                 /\ content[c] # <<>> /\ content' = [content EXCEPT ![c] = Tail(@)]
                 /\ got' = [got EXCEPT ![t] = Head(content[c])]
        BY <1>1, <2>1, <2>4
      <3>2. MB!Get(t, c)
        BY <3>1 DEF MB!Get, content
      <3> QED
        BY <3>1, <3>2 DEF MB!Next
    <2> QED
      BY <2>2, <2>3, <2>4 DEF Delivers
  <1> QED
    BY <1>2, <1>3, TInvHolds, PTL DEF Spec, ImplementsMailboxes, MB!Spec
==============================================================================
