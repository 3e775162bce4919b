---------------------------- MODULE ChannelProofs ----------------------------
(***************************************************************************)
(* Proofs that the safety properties of module Channel hold for any set of  *)
(* helpers, any number of messages and any nesting of continuations.        *)
(***************************************************************************)
EXTENDS Channel, FiniteSetTheorems, TLAPS

Elems(q) == {q[i] : i \in 1 .. Len(q)}

\* No two elements of q have the same component k.
Alone(q, k) == \A i, j \in 1 .. Len(q) : q[i][k] = q[j][k] => i = j

LEMMA AloneAppend ==
  ASSUME NEW S, NEW q \in Seq(S), NEW e \in S, NEW k, Alone(q, k),
         \A x \in Elems(q) : x[k] # e[k]
  PROVE  /\ Append(q, e) \in Seq(S) /\ Alone(Append(q, e), k)
         /\ Elems(Append(q, e)) = Elems(q) \union {e}
  <1> DEFINE r == Append(q, e)
  <1>1. /\ r \in Seq(S) /\ Len(r) = Len(q) + 1 /\ Len(q) \in Nat
        /\ \A i \in 1 .. Len(q) : r[i] = q[i]
        /\ r[Len(q) + 1] = e
    OBVIOUS
  <1>2. /\ \A i \in 1 .. Len(r) : i \in 1 .. Len(q) \/ i = Len(q) + 1
        /\ \A i \in 1 .. Len(q) : i \in 1 .. Len(r)
        /\ Len(q) + 1 \in 1 .. Len(r)
    BY <1>1
  <1>3. \A i \in 1 .. Len(q) : q[i][k] # e[k]
    BY DEF Elems
  <1> HIDE DEF r
  <1>4. Elems(r) = Elems(q) \union {e}
    BY <1>1, <1>2 DEF Elems
  <1>5. Alone(r, k)
    BY <1>1, <1>2, <1>3 DEF Alone
  <1> QED
    BY <1>1, <1>4, <1>5 DEF r

LEMMA AloneTail ==
  ASSUME NEW S, NEW q \in Seq(S), q # <<>>, NEW k, Alone(q, k)
  PROVE  /\ Tail(q) \in Seq(S) /\ Alone(Tail(q), k)
         /\ Elems(Tail(q)) = Elems(q) \ {q[1]}
         /\ q[1] \in Elems(q) /\ q[1] \in S /\ Head(q) = q[1]
         /\ \A x \in Elems(q) : x[k] = q[1][k] => x = q[1]
  <1> DEFINE r == Tail(q)
  <1>1. /\ r \in Seq(S) /\ Len(r) = Len(q) - 1 /\ Len(q) \in Nat \ {0}
        /\ \A i \in 1 .. Len(r) : r[i] = q[i + 1]
        /\ Head(q) = q[1] /\ q[1] \in S
    OBVIOUS
  <1>2. /\ 1 \in 1 .. Len(q)
        /\ \A i \in 1 .. Len(r) : i + 1 \in 1 .. Len(q) /\ i + 1 # 1
        /\ \A i \in 1 .. Len(q) : i # 1 => i - 1 \in 1 .. Len(r) /\ (i - 1) + 1 = i
        /\ \A i, j \in 1 .. Len(r) : i + 1 = j + 1 => i = j
    BY <1>1
  <1> HIDE DEF r
  <1>3. \A i \in 1 .. Len(q) : q[i][k] = q[1][k] => i = 1
    BY <1>2 DEF Alone
  <1>4. Elems(r) = Elems(q) \ {q[1]}
    <2>1. ASSUME NEW i \in 1 .. Len(r) PROVE r[i] \in Elems(q) \ {q[1]}
      <3>1. r[i] = q[i + 1] /\ i + 1 \in 1 .. Len(q) /\ i + 1 # 1
        BY <1>1, <1>2
      <3>2. q[i + 1] \in Elems(q)
        BY <3>1 DEF Elems
      <3> QED
        BY <1>3, <3>1, <3>2
    <2>2. ASSUME NEW i \in 1 .. Len(q), i # 1 PROVE q[i] \in Elems(r)
      <3>1. i - 1 \in 1 .. Len(r) /\ r[i - 1] = q[i]
        BY <1>1, <1>2, <2>2
      <3> QED
        BY <3>1 DEF Elems
    <2> QED
      BY <2>1, <2>2 DEF Elems
  <1>5. Alone(r, k)
    BY <1>1, <1>2 DEF Alone
  <1>6. q[1] \in Elems(q) /\ \A x \in Elems(q) : x[k] = q[1][k] => x = q[1]
    BY <1>2, <1>3 DEF Elems
  <1> QED
    BY <1>1, <1>4, <1>5, <1>6 DEF r

LEMMA AlonePush ==
  ASSUME NEW S, NEW q \in Seq(S), NEW e \in S, NEW k, Alone(q, k),
         \A x \in Elems(q) : x[k] # e[k]
  PROVE  /\ <<e>> \o q \in Seq(S) /\ Alone(<<e>> \o q, k) /\ (<<e>> \o q)[1] = e
         /\ Elems(<<e>> \o q) = Elems(q) \union {e} /\ <<e>> \o q # <<>>
  <1> DEFINE r == <<e>> \o q
  <1>1. /\ r \in Seq(S) /\ Len(r) = Len(q) + 1 /\ Len(q) \in Nat
        /\ r[1] = e /\ \A i \in 2 .. Len(r) : r[i] = q[i - 1]
    OBVIOUS
  <1>2. /\ 1 \in 1 .. Len(r) /\ r # <<>>
        /\ \A i \in 1 .. Len(r) : i = 1 \/ (i \in 2 .. Len(r) /\ i - 1 \in 1 .. Len(q))
        /\ \A i \in 1 .. Len(q) : i + 1 \in 2 .. Len(r) /\ (i + 1) - 1 = i
        /\ \A i \in 2 .. Len(r) : i \in 1 .. Len(r)
        /\ \A i, j \in 2 .. Len(r) : i - 1 = j - 1 => i = j
    BY <1>1
  <1>3. \A i \in 1 .. Len(q) : q[i][k] # e[k]
    BY DEF Elems
  <1> HIDE DEF r
  <1>4. Elems(r) = Elems(q) \union {e}
    <2>1. \A i \in 1 .. Len(r) : r[i] = e \/ r[i] \in Elems(q)
      BY <1>1, <1>2 DEF Elems
    <2>2. ASSUME NEW i \in 1 .. Len(q) PROVE q[i] \in Elems(r)
      <3>1. r[i + 1] = q[i] /\ i + 1 \in 1 .. Len(r)
        BY <1>1, <1>2
      <3> QED
        BY <3>1 DEF Elems
    <2>3. e \in Elems(r)
      BY <1>1, <1>2 DEF Elems
    <2> QED
      BY <2>1, <2>2, <2>3 DEF Elems
  <1>5. Alone(r, k)
    <2>1. \A i \in 2 .. Len(r) : r[i][k] # e[k]
      BY <1>1, <1>2, <1>3
    <2>2. ASSUME NEW i \in 2 .. Len(r), NEW j \in 2 .. Len(r), r[i][k] = r[j][k]
          PROVE  i = j
      <3>1. /\ i - 1 \in 1 .. Len(q) /\ r[i] = q[i - 1]
            /\ j - 1 \in 1 .. Len(q) /\ r[j] = q[j - 1]
        BY <1>1, <1>2
      <3>2. i - 1 = j - 1
        BY <2>2, <3>1 DEF Alone
      <3> QED
        BY <1>2, <3>2
    <2> QED
      BY <1>1, <1>2, <2>1, <2>2 DEF Alone
  <1> QED
    BY <1>1, <1>2, <1>4, <1>5 DEF r
------------------------------------------------------------------------------
\* The continuations and the code that are on their way, wherever they are.
Live == Elems(stack) \union Elems(sched)
Has(s) == \E x \in Live : x[2] = s
InList(s) == \E m \in Elems(head) : m[1] = s

\* No state is on its way twice.
Spread ==
  /\ Alone(stack, 2) /\ Alone(sched, 2)
  /\ \A x \in Elems(stack), y \in Elems(sched) : x[2] # y[2]

\* ContinuedOnce without counting.
Once ==
  /\ Spread /\ Alone(head, 1)
  /\ \A s \in Senders : ~ (Has(s) /\ InList(s))
  /\ \A s \in Senders : Has(s) \/ InList(s) <=> at[s] \notin {"unborn", "ended"}

\* The channel is open and nothing is about to close it.
Serves == isOpen /\ ~ Has(Channel)

\* The life of a channel: not started, serving, about to be closed, closed.
Phases ==
  /\ caller = IF at[Function] = "unborn" THEN Channel ELSE Receiver
  /\ at[Function] = "unborn" => ~ isOpen /\ head = <<>> /\ sent = <<>> /\ got = <<>>
  /\ Serves => (Has(Receiver) <=> head # <<>>)
  /\ Has(Channel) =>
       /\ isOpen /\ ~ Has(Receiver) /\ ~ Has(Function)
       /\ head # <<>> \/ \A s \in Senders : at[s] \in {"unborn", "ended"}
  /\ ~ isOpen /\ at[Function] # "unborn" => ~ Has(Function)

IsMessage(x) == x[1] = "run" /\ x[3] \in Messages

\* The list is the end of what was sent; the receiver has all before it, and also
\* its first message unless that is on its way.
Order ==
  /\ Len(got) <= Len(sent) /\ \A i \in 1 .. Len(got) : got[i] = sent[i]
  /\ Serves =>
       /\ Len(head) <= Len(sent)
       /\ \A i \in 1 .. Len(head) : head[i] = sent[Len(sent) - Len(head) + i]
       /\ head = <<>> => Len(got) = Len(sent)
       /\ \A x \in Live : x[2] = Receiver =>
            IF IsMessage(x) THEN x[3] = head[1] /\ Len(got) = Len(sent) - Len(head)
                            ELSE Len(got) = Len(sent) - Len(head) + 1
  /\ ~ Serves => \A x \in Live : x[2] = Receiver => ~ IsMessage(x)

CInv == TypeOK /\ Once /\ Phases /\ Order
------------------------------------------------------------------------------
OnStack == Continuations \union ({"code"} \X States \X {"nil"})
             \union ({"reply"} \X Senders \X Messages)

LEMMA Names ==
  /\ Receiver \notin Senders /\ Channel \notin Senders /\ Receiver # Channel
  /\ Receiver \in States /\ Function \in Senders /\ Function \notin Helpers
  /\ Senders \subseteq States /\ Channel \notin States
  /\ \A s \in States : s \in Senders \/ s = Receiver
  /\ \A v \in Plain : v \notin Messages
  BY ChannelAssumption DEF Senders, States

LEMMA Parts ==
  ASSUME CInv
  PROVE  /\ TypeOK /\ Once /\ Phases /\ Order /\ Spread
         /\ Alone(stack, 2) /\ Alone(sched, 2) /\ Alone(head, 1)
         /\ stack \in Seq(OnStack) /\ sched \in Seq(Continuations)
         /\ head \in Seq(Messages) /\ sent \in Seq(Messages) /\ got \in Seq(Messages)
         /\ Live \subseteq OnStack /\ Elems(stack) \subseteq OnStack
         /\ Elems(sched) \subseteq Continuations /\ Elems(head) \subseteq Messages
         /\ at \in [States -> {"unborn", "waits", "runs", "ended"}]
         /\ \A x, y \in Live : x[2] = y[2] => x = y
  <1>1. /\ stack \in Seq(OnStack) /\ sched \in Seq(Continuations)
        /\ head \in Seq(Messages) /\ sent \in Seq(Messages) /\ got \in Seq(Messages)
        /\ at \in [States -> {"unborn", "waits", "runs", "ended"}]
    BY DEF CInv, TypeOK, OnStack
  <1>2. /\ Elems(stack) \subseteq OnStack /\ Elems(sched) \subseteq Continuations
        /\ Elems(head) \subseteq Messages
    BY <1>1 DEF Elems
  <1>3. Live \subseteq OnStack
    BY <1>2 DEF Live, OnStack
  <1>4. Spread
    BY DEF CInv, Once
  <1>5. /\ \A x, y \in Elems(stack) : x[2] = y[2] => x = y
        /\ \A x, y \in Elems(sched) : x[2] = y[2] => x = y
    BY <1>4 DEF Spread, Alone, Elems
  <1>6. \A x, y \in Live : x[2] = y[2] => x = y
    BY <1>4, <1>5 DEF Spread, Live
  <1> QED
    BY <1>1, <1>2, <1>3, <1>4, <1>6 DEF CInv, Once, Spread

LEMMA InitC == Init => CInv
  <1> SUFFICES ASSUME Init PROVE CInv
    OBVIOUS
  <1> DEFINE first == Item("run", Receiver, "nil")
  <1>1. first \in Continuations /\ first[2] = Receiver /\ first[3] = "nil"
    BY DEF Item, Continuations, States, Plain
  <1> HIDE DEF first
  <1>2. /\ sched = <<first>> /\ stack = <<>> /\ head = <<>>
        /\ sent = <<>> /\ got = <<>>
    BY DEF Init, first
  <1>3. /\ Elems(stack) = {} /\ Elems(sched) = {first} /\ Elems(head) = {}
        /\ Alone(stack, 2) /\ Alone(sched, 2) /\ Alone(head, 1)
    BY <1>2 DEF Elems, Alone
  <1>4. TypeOK
    <2>1. /\ sched \in Seq(Continuations) /\ stack \in Seq(OnStack)
          /\ head \in Seq(Messages) /\ sent \in Seq(Messages) /\ got \in Seq(Messages)
      BY <1>1, <1>2
    <2>2. sends \in [Senders -> 0 .. MaxSends]
      BY ChannelAssumption DEF Init
    <2> QED
      BY <2>1, <2>2 DEF Init, TypeOK, OnStack
  <1>5. Live = {first} /\ ~ isOpen
    BY <1>3 DEF Live, Init
  <1>6. \A s \in Senders : ~ Has(s) /\ ~ InList(s) /\ at[s] = "unborn"
    BY <1>1, <1>3, <1>5, Names DEF Has, InList, Init
  <1>7. Once
    BY <1>3, <1>6 DEF Once, Spread
  <1>8. ~ Has(Channel) /\ ~ Serves
    BY <1>1, <1>5, Names DEF Has, Serves
  <1>9. Phases
    BY <1>2, <1>5, <1>6, <1>8, Names DEF Phases, Init
  <1>10. Order
    BY <1>1, <1>2, <1>5, <1>8, Names DEF Order, IsMessage, Plain
  <1> QED
    BY <1>4, <1>7, <1>9, <1>10 DEF CInv
------------------------------------------------------------------------------
(* What steps do to the stack and the queue. *)

LEMMA Fields ==
  \A kind, state, value : /\ Item(kind, state, value)[1] = kind
                          /\ Item(kind, state, value)[2] = state
                          /\ Item(kind, state, value)[3] = value
  BY DEF Item

LEMMA Top ==
  ASSUME CInv, stack # <<>>
  PROVE  /\ stack[1] \in Live /\ stack[1] \in OnStack
         /\ Tail(stack) \in Seq(OnStack) /\ Alone(Tail(stack), 2)
         /\ Live \ {stack[1]} = Elems(Tail(stack)) \union Elems(sched)
         /\ \A x \in Elems(Tail(stack)), y \in Elems(sched) : x[2] # y[2]
         /\ \A x \in Live : x[2] = stack[1][2] => x = stack[1]
  <1>1. /\ Tail(stack) \in Seq(OnStack) /\ Alone(Tail(stack), 2)
        /\ Elems(Tail(stack)) = Elems(stack) \ {stack[1]}
        /\ stack[1] \in Elems(stack) /\ stack[1] \in OnStack
    BY Parts, AloneTail
  <1>2. stack[1] \notin Elems(sched)
    BY <1>1, Parts DEF Spread
  <1> QED
    BY <1>1, <1>2, Parts DEF Live, Spread

\* The running one is replaced.
LEMMA Replaced ==
  ASSUME CInv, stack # <<>>, NEW e \in OnStack, sched' = sched,
         stack' = <<e>> \o Tail(stack),
         \A x \in Live : x[2] = e[2] => x = stack[1]
  PROVE  /\ Spread' /\ Live' = (Live \ {stack[1]}) \union {e}
         /\ stack' \in Seq(OnStack) /\ sched' \in Seq(Continuations)
  <1>1. \A x \in Elems(Tail(stack)) \union Elems(sched) : x[2] # e[2]
    BY Top
  <1>2. /\ stack' \in Seq(OnStack) /\ Alone(stack', 2)
        /\ Elems(stack') = Elems(Tail(stack)) \union {e}
    <2>1. /\ \A x \in Elems(Tail(stack)) : x[2] # e[2]
          /\ Tail(stack) \in Seq(OnStack) /\ Alone(Tail(stack), 2)
      BY <1>1, Top
    <2> DEFINE t == Tail(stack)
    <2>2. t \in Seq(OnStack) /\ Alone(t, 2) /\ \A x \in Elems(t) : x[2] # e[2]
      BY <2>1
    <2> HIDE DEF t
    <2>3. /\ <<e>> \o t \in Seq(OnStack) /\ Alone(<<e>> \o t, 2)
          /\ Elems(<<e>> \o t) = Elems(t) \union {e}
      BY <2>2, AlonePush
    <2> QED
      BY <2>3 DEF t
  <1>3. Live' = (Live \ {stack[1]}) \union {e}
    BY <1>2, Top DEF Live
  <1>4. Spread'
    BY <1>1, <1>2, Top, Parts DEF Spread
  <1> QED
    BY <1>2, <1>3, <1>4, Parts

\* The running one ends, and something is put into the queue.
LEMMA Queued ==
  ASSUME CInv, stack # <<>>, NEW e \in Continuations, sched' = Append(sched, e),
         stack' = Tail(stack),
         \A x \in Live : x[2] = e[2] => x = stack[1]
  PROVE  /\ Spread' /\ Live' = (Live \ {stack[1]}) \union {e}
         /\ stack' \in Seq(OnStack) /\ sched' \in Seq(Continuations)
  <1>1. \A x \in Elems(Tail(stack)) \union Elems(sched) : x[2] # e[2]
    BY Top
  <1>2. /\ sched' \in Seq(Continuations) /\ Alone(sched', 2)
        /\ Elems(sched') = Elems(sched) \union {e}
    BY <1>1, Parts, AloneAppend
  <1>3. Live' = (Live \ {stack[1]}) \union {e}
    BY <1>2, Top DEF Live
  <1>4. Spread'
    BY <1>1, <1>2, Top, Parts DEF Spread
  <1> QED
    BY <1>2, <1>3, <1>4, Top

LEMMA Continued ==
  ASSUME CInv, stack # <<>>, NEW state \in States \union {Channel},
         NEW value \in Plain \union Messages, Continue(state, value),
         \A x \in Live : x[2] = state => x = stack[1]
  PROVE  /\ Spread' /\ Live' = (Live \ {stack[1]}) \union {Item("run", state, value)}
         /\ stack' \in Seq(OnStack) /\ sched' \in Seq(Continuations)
  <1> DEFINE e == Item("run", state, value)
  <1>1. e \in Continuations /\ e \in OnStack /\ e[2] = state
    BY Fields DEF Item, Continuations, OnStack
  <1> HIDE DEF e
  <1>2. CASE preempt
    BY <1>1, <1>2, Queued DEF Continue, e
  <1>3. CASE ~ preempt
    BY <1>1, <1>3, Replaced DEF Continue, e
  <1> QED
    BY <1>2, <1>3 DEF e

LEMMA Ended ==
  ASSUME CInv, stack # <<>>, stack' = Tail(stack), sched' = sched
  PROVE  /\ Spread' /\ Live' = Live \ {stack[1]}
         /\ stack' \in Seq(OnStack) /\ sched' \in Seq(Continuations)
  <1>1. Live' = Live \ {stack[1]}
    BY Top DEF Live
  <1> QED
    BY <1>1, Top, Parts DEF Spread

\* Who is on his way after such a step.
LEMMA HasAfter ==
  ASSUME CInv, NEW top \in Live, NEW e, Live' = (Live \ {top}) \union {e}
  PROVE  \A o : Has(o)' <=> o = e[2] \/ (o # top[2] /\ Has(o))
  <1>1. \A x \in Live : x[2] = top[2] => x = top
    BY Parts
  <1> QED
    BY <1>1 DEF Has

LEMMA HasEnded ==
  ASSUME CInv, NEW top \in Live, Live' = Live \ {top}
  PROVE  \A o : Has(o)' <=> o # top[2] /\ Has(o)
  <1>1. \A x \in Live : x[2] = top[2] => x = top
    BY Parts
  <1> QED
    BY <1>1 DEF Has

\* The code of a state runs.
LEMMA Running ==
  ASSUME CInv, NEW s, Runs(s)
  PROVE  /\ stack # <<>> /\ stack[1] \in Live /\ stack[1][2] = s /\ Has(s)
         /\ stack[1][1] = "code" /\ ~ IsMessage(stack[1])
         /\ \A x \in Live : x[2] = s => x = stack[1]
  BY Top, Fields DEF Runs, Has, IsMessage

\* What is in the list after send and next.
LEMMA InListAfter ==
  ASSUME CInv
  PROVE  /\ head' = head => \A s : InList(s)' <=> InList(s)
         /\ head # <<>> => InList(head[1][1]) /\ head[1] \in Messages
         /\ head # <<>> /\ head' = Tail(head) =>
              /\ head' \in Seq(Messages) /\ Alone(head', 1)
              /\ \A s : InList(s)' <=> s # head[1][1] /\ InList(s)
         /\ \A m \in Messages : head' = Append(head, m) /\ ~ InList(m[1]) =>
              /\ head' \in Seq(Messages) /\ Alone(head', 1)
              /\ \A s : InList(s)' <=> s = m[1] \/ InList(s)
  <1>1. head' = head => \A s : InList(s)' <=> InList(s)
    BY DEF InList
  <1>2. ASSUME head # <<>>
        PROVE  /\ InList(head[1][1]) /\ head[1] \in Messages
               /\ head' = Tail(head) =>
                    /\ head' \in Seq(Messages) /\ Alone(head', 1)
                    /\ \A s : InList(s)' <=> s # head[1][1] /\ InList(s)
    <2>1. /\ Tail(head) \in Seq(Messages) /\ Alone(Tail(head), 1)
          /\ Elems(Tail(head)) = Elems(head) \ {head[1]}
          /\ head[1] \in Elems(head) /\ head[1] \in Messages
          /\ \A x \in Elems(head) : x[1] = head[1][1] => x = head[1]
      BY <1>2, Parts, AloneTail
    <2>2. InList(head[1][1])
      BY <2>1 DEF InList
    <2>3. ASSUME head' = Tail(head)
          PROVE  \A s : InList(s)' <=> s # head[1][1] /\ InList(s)
      <3>1. Elems(head') = Elems(head) \ {head[1]}
        BY <2>1, <2>3
      <3> QED
        BY <2>1, <3>1 DEF InList
    <2> QED
      BY <2>1, <2>2, <2>3
  <1>3. ASSUME NEW m \in Messages, head' = Append(head, m), ~ InList(m[1])
        PROVE  /\ head' \in Seq(Messages) /\ Alone(head', 1)
               /\ \A s : InList(s)' <=> s = m[1] \/ InList(s)
    <2>1. \A x \in Elems(head) : x[1] # m[1]
      BY <1>3 DEF InList
    <2>2. /\ head' \in Seq(Messages) /\ Alone(head', 1)
          /\ Elems(head') = Elems(head) \union {m}
      BY <1>3, <2>1, Parts, AloneAppend
    <2> QED
      BY <2>2 DEF InList
  <1> QED
    BY <1>1, <1>2, <1>3
------------------------------------------------------------------------------
(* One lemma per action. *)

LEMMA StartStep ==
  ASSUME CInv, Start
  PROVE  CInv'
  <1> DEFINE e == Item("code", Function, "nil")
  <1>1. /\ Runs(Receiver) /\ at[Function] = "unborn" /\ isOpen' = TRUE /\ caller' = Receiver
        /\ at' = [at EXCEPT ![Receiver] = "waits", ![Function] = "runs"]
        /\ stack' = <<e>> \o Tail(stack)
        /\ UNCHANGED <<head, sched, preempt, sends, sent, got>>
    BY DEF Start
  <1>2. e \in OnStack /\ e[2] = Function
    BY Fields, Names DEF OnStack, Item
  <1> HIDE DEF e
  <1>3. /\ stack # <<>> /\ stack[1] \in Live /\ stack[1][2] = Receiver
        /\ ~ Has(Function) /\ ~ InList(Function)
    BY <1>1, Running, Parts, Names DEF Once
  <1>4. /\ Spread' /\ Live' = (Live \ {stack[1]}) \union {e}
        /\ stack' \in Seq(OnStack) /\ sched' \in Seq(Continuations)
    BY <1>1, <1>2, <1>3, Replaced DEF Has
  <1>5. \A o : Has(o)' <=> o = Function \/ (o # Receiver /\ Has(o))
    BY <1>2, <1>3, <1>4, HasAfter
  <1>6. at' \in [States -> {"unborn", "waits", "runs", "ended"}]
        /\ at'[Function] = "runs" /\ \A s \in Senders : s # Function => at'[s] = at[s]
    BY <1>1, Parts, Names
  <1>7. TypeOK'
    BY <1>1, <1>4, <1>6, Parts DEF TypeOK, OnStack
  <1>8. Once'
    BY <1>1, <1>3, <1>4, <1>5, <1>6, Parts, Names, InListAfter DEF Once
  <1>9. ~ Has(Channel) /\ head = <<>> /\ sent = <<>> /\ got = <<>>
    BY <1>1, Parts DEF Phases
  <1>10. Phases'
    BY <1>1, <1>5, <1>6, <1>9, Names DEF Phases, Serves
  <1>11. ~ Has(Receiver)'
    BY <1>5, Names
  <1>12. Order'
    BY <1>1, <1>9, <1>11 DEF Order, Has
  <1> QED
    BY <1>7, <1>8, <1>10, <1>12 DEF CInv

\* A state that continues itself, or something that only goes on: nothing changes
\* but who is where.
LEMMA GoesOn ==
  ASSUME CInv, NEW top \in Live, NEW e \in OnStack,
         Spread', Live' = (Live \ {top}) \union {e},
         stack' \in Seq(OnStack), sched' \in Seq(Continuations),
         e[2] = top[2], top[2] = Receiver => ~ IsMessage(e) /\ ~ IsMessage(top),
         UNCHANGED <<isOpen, head, caller, sends, sent, got>>, preempt' \in BOOLEAN,
         at' \in [States -> {"unborn", "waits", "runs", "ended"}],
         \A s \in Senders : /\ at[s] = "unborn" <=> at'[s] = "unborn"
                            /\ at[s] = "ended" <=> at'[s] = "ended"
  PROVE  CInv'
  <1>1. \A o : Has(o)' <=> Has(o)
    <2>1. Has(top[2])
      BY DEF Has
    <2> QED
      BY <2>1, HasAfter
  <1>2. \A o : InList(o)' <=> InList(o)
    BY InListAfter
  <1>3. TypeOK'
    BY Parts DEF TypeOK, OnStack
  <1>4. Once'
    BY <1>1, <1>2, Parts DEF Once
  <1>5. Phases'
    BY <1>1, Parts, Names DEF Phases, Serves
  <1>6. Serves' <=> Serves
    BY <1>1 DEF Serves
  <1>7. \A x \in Live' : x[2] = Receiver =>
          \E y \in Live : /\ y[2] = Receiver /\ (IsMessage(y) <=> IsMessage(x))
                          /\ IsMessage(x) => y[3] = x[3]
    OBVIOUS
  <1>8. Order'
    BY <1>6, <1>7, Parts DEF Order
  <1> QED
    BY <1>3, <1>4, <1>5, <1>8 DEF CInv

LEMMA ReplyStep ==
  ASSUME CInv, Reply
  PROVE  CInv'
  <1>1. /\ stack # <<>> /\ stack[1][1] = "reply" /\ Continue(stack[1][2], stack[1][3])
        /\ UNCHANGED <<isOpen, head, caller, preempt, at, sends, sent, got>>
    BY DEF Reply
  <1> DEFINE s == stack[1][2]
             e == Item("run", s, stack[1][3])
  <1>2. stack[1] \in Live /\ \A x \in Live : x[2] = s => x = stack[1]
    BY <1>1, Top
  <1>3. s \in Senders /\ stack[1][3] \in Messages
    <2>1. stack[1] \in OnStack
      BY <1>1, Top
    <2> QED
      BY <1>1, <2>1 DEF OnStack, Continuations
  <1>4. s \in States \union {Channel} /\ s # Receiver
    BY <1>3, Names
  <1>5. /\ Spread' /\ Live' = (Live \ {stack[1]}) \union {e}
        /\ stack' \in Seq(OnStack) /\ sched' \in Seq(Continuations)
    BY <1>1, <1>2, <1>3, <1>4, Continued
  <1>6. e \in OnStack /\ e[2] = s
    BY <1>3, <1>4, Fields DEF OnStack, Continuations, Item
  <1> HIDE DEF e
  <1>7. preempt' \in BOOLEAN
    BY <1>1, Parts DEF TypeOK
  <1> QED
    BY <1>1, <1>2, <1>4, <1>5, <1>6, <1>7, Parts, GoesOn

LEMMA EnterStep ==
  ASSUME CInv, Enter
  PROVE  CInv'
  <1> DEFINE s == stack[1][2]
             v == stack[1][3]
             e == Item("code", s, "nil")
  <1>1. /\ stack # <<>> /\ stack[1][1] = "run" /\ s # Channel /\ Becomes(s, "runs")
        /\ stack' = <<e>> \o Tail(stack)
        /\ got' = IF s = Receiver /\ v \in Messages THEN Append(got, v) ELSE got
        /\ UNCHANGED <<isOpen, head, caller, sched, preempt, sends, sent>>
    BY DEF Enter
  <1>2. stack[1] \in Live /\ \A x \in Live : x[2] = s => x = stack[1]
    BY <1>1, Top
  <1>3. s \in States
    <2>1. stack[1] \in OnStack
      BY <1>1, Top
    <2> QED
      BY <1>1, <2>1, Names DEF OnStack, Continuations
  <1>4. e \in OnStack /\ e[2] = s /\ e[1] = "code"
    BY <1>3, Fields DEF OnStack, Item
  <1>5. /\ Spread' /\ Live' = (Live \ {stack[1]}) \union {e}
        /\ stack' \in Seq(OnStack) /\ sched' \in Seq(Continuations)
    BY <1>1, <1>2, <1>4, Replaced
  <1>6. ~ IsMessage(e)
    BY <1>4 DEF IsMessage
  <1>7. Has(s)
    BY <1>2 DEF Has
  <1>8. /\ at' = [at EXCEPT ![s] = "runs"]
        /\ at' \in [States -> {"unborn", "waits", "runs", "ended"}]
        /\ s \in Senders => at[s] \notin {"unborn", "ended"}
    BY <1>1, <1>3, <1>7, Parts DEF Becomes, Once
  <1> HIDE DEF e
  <1>9. CASE ~ (s = Receiver /\ v \in Messages)
    <2>1. got' = got /\ (s = Receiver => ~ IsMessage(stack[1]))
      BY <1>1, <1>9 DEF IsMessage
    <2>2. preempt' \in BOOLEAN
      BY <1>1, Parts DEF TypeOK
    <2>3. \A r \in Senders : /\ at[r] = "unborn" <=> at'[r] = "unborn"
                             /\ at[r] = "ended" <=> at'[r] = "ended"
      BY <1>3, <1>8, Parts, Names
    <2> QED
      BY <1>1, <1>2, <1>4, <1>5, <1>6, <1>8, <2>1, <2>2, <2>3, GoesOn
  <1>10. CASE s = Receiver /\ v \in Messages
    <2>1. IsMessage(stack[1]) /\ got' = Append(got, v)
      BY <1>1, <1>10 DEF IsMessage
    <2>2. \A o : (Has(o)' <=> Has(o)) /\ (InList(o)' <=> InList(o))
      BY <1>1, <1>2, <1>4, <1>5, <1>7, HasAfter, InListAfter
    <2>3. Serves /\ Serves'
      BY <1>1, <1>2, <1>10, <2>1, <2>2, Parts DEF Order, Serves
    <2>4. /\ v = head[1] /\ Len(got) = Len(sent) - Len(head) /\ Len(head) <= Len(sent)
          /\ \A i \in 1 .. Len(head) : head[i] = sent[Len(sent) - Len(head) + i]
          /\ \A i \in 1 .. Len(got) : got[i] = sent[i]
      BY <1>2, <1>10, <2>1, <2>3, Parts DEF Order
    <2>5. head # <<>>
      BY <1>7, <1>10, <2>3, Parts DEF Phases
    <2>6. /\ Len(head) \in Nat \ {0} /\ 1 \in 1 .. Len(head)
          /\ Len(got) \in Nat /\ Len(sent) \in Nat
          /\ got' \in Seq(Messages) /\ Len(got') = Len(got) + 1
          /\ \A i \in 1 .. Len(got) : got'[i] = got[i]
          /\ got'[Len(got) + 1] = v
      BY <1>10, <2>1, <2>5, Parts
    <2>7. v = sent[Len(got) + 1] /\ Len(got) + 1 <= Len(sent)
      BY <2>4, <2>6
    <2>8. \A i \in 1 .. Len(got') : i \in 1 .. Len(got) \/ i = Len(got) + 1
      BY <2>6
    <2>9. \A i \in 1 .. Len(got') : got'[i] = sent[i]
      BY <2>4, <2>6, <2>7, <2>8
    <2>10. \A x \in Live' : x[2] = Receiver => ~ IsMessage(x)
      BY <1>2, <1>5, <1>6, <1>10
    <2>11. Len(got') = Len(sent) - Len(head) + 1
      BY <2>4, <2>6
    <2>12. Order'
      BY <1>1, <2>3, <2>4, <2>5, <2>6, <2>7, <2>9, <2>10, <2>11 DEF Order
    <2>13. TypeOK'
      BY <1>1, <1>5, <1>8, <2>6, Parts DEF TypeOK, OnStack
    <2>14. \A r \in Senders : at'[r] = at[r]
      BY <1>8, <1>10, Names
    <2>15. Once'
      BY <1>1, <1>5, <2>2, <2>14, Parts DEF Once
    <2>16. Phases'
      BY <1>1, <2>2, <2>3, <2>5, <2>14, Parts, Names DEF Phases, Serves
    <2> QED
      BY <2>12, <2>13, <2>15, <2>16 DEF CInv
  <1> QED
    BY <1>9, <1>10

LEMMA YieldStep ==
  ASSUME CInv, NEW s \in States, Yield(s)
  PROVE  CInv'
  <1> DEFINE e == Item("run", s, "nil")
  <1>1. /\ Runs(s) /\ Becomes(s, "waits") /\ stack' = Tail(stack) /\ sched' = Append(sched, e)
        /\ UNCHANGED <<isOpen, head, caller, preempt, sends, sent, got>>
    BY DEF Yield
  <1>2. /\ e \in OnStack /\ e \in Continuations /\ e[2] = s /\ ~ IsMessage(e)
    BY Fields, Names DEF OnStack, Item, Continuations, Plain, IsMessage
  <1>3. /\ stack # <<>> /\ stack[1] \in Live /\ stack[1][2] = s /\ Has(s)
        /\ ~ IsMessage(stack[1]) /\ \A x \in Live : x[2] = s => x = stack[1]
    BY <1>1, Running
  <1> HIDE DEF e
  <1>4. /\ Spread' /\ Live' = (Live \ {stack[1]}) \union {e}
        /\ stack' \in Seq(OnStack) /\ sched' \in Seq(Continuations)
    BY <1>1, <1>2, <1>3, Queued
  <1>5. /\ at' \in [States -> {"unborn", "waits", "runs", "ended"}]
        /\ \A r \in Senders : /\ at[r] = "unborn" <=> at'[r] = "unborn"
                              /\ at[r] = "ended" <=> at'[r] = "ended"
    BY <1>1, <1>3, Parts, Names DEF Becomes, Once
  <1>6. preempt' \in BOOLEAN
    BY <1>1, Parts DEF TypeOK
  <1> QED
    BY <1>1, <1>2, <1>3, <1>4, <1>5, <1>6, GoesOn

LEMMA SendStep ==
  ASSUME CInv, NEW s \in Senders, Send(s)
  PROVE  CInv'
  <1> DEFINE m == <<s, sends[s] + 1>>
  <1>1. /\ Runs(s) /\ sends[s] < MaxSends /\ Becomes(s, "waits")
        /\ sends' = [sends EXCEPT ![s] = @ + 1]
        /\ UNCHANGED <<isOpen, caller, preempt, got>>
    BY DEF Send
  <1>2. /\ stack # <<>> /\ stack[1] \in Live /\ stack[1][2] = s /\ Has(s)
        /\ ~ IsMessage(stack[1]) /\ \A x \in Live : x[2] = s => x = stack[1]
    BY <1>1, Running
  <1>3. /\ at[s] \notin {"unborn", "ended"} /\ ~ InList(s) /\ s # Receiver /\ s # Channel
        /\ s \in States
    BY <1>2, Parts, Names DEF Once
  <1>4. /\ at' \in [States -> {"unborn", "waits", "runs", "ended"}]
        /\ \A r \in Senders : /\ at[r] = "unborn" <=> at'[r] = "unborn"
                              /\ at[r] = "ended" <=> at'[r] = "ended"
    BY <1>1, <1>3, Parts DEF Becomes
  <1>5. m \in Messages /\ m[1] = s /\ sends' \in [Senders -> 0 .. MaxSends]
    BY <1>1, Parts, ChannelAssumption DEF TypeOK, Messages
  <1>6. preempt' \in BOOLEAN
    BY <1>1, Parts DEF TypeOK
  <1>7. CASE ~ isOpen
    <2> DEFINE e == Item("run", s, "error")
    <2>1. Continue(s, "error") /\ UNCHANGED <<head, sent>>
      BY <1>7 DEF Send
    <2>2. "error" \in Plain \union Messages /\ s \in States \union {Channel}
      BY <1>3 DEF Plain
    <2>3. /\ Spread' /\ Live' = (Live \ {stack[1]}) \union {e}
          /\ stack' \in Seq(OnStack) /\ sched' \in Seq(Continuations)
      BY <1>2, <2>1, <2>2, Continued
    <2>4. \A o : Has(o)' <=> Has(o)
      BY <1>2, <2>3, Fields, HasAfter
    <2>5. \A o : InList(o)' <=> InList(o)
      BY <2>1, InListAfter
    <2>6. TypeOK'
      BY <1>1, <1>4, <1>5, <1>6, <2>1, <2>3, Parts DEF TypeOK, OnStack
    <2>7. Once'
      BY <1>4, <2>1, <2>3, <2>4, <2>5, Parts DEF Once
    <2>8. Phases'
      BY <1>1, <1>4, <2>1, <2>4, Parts, Names DEF Phases, Serves
    <2>9. ~ Serves /\ ~ Serves'
      BY <1>1, <1>7 DEF Serves
    <2>10. e[2] # Receiver
      BY <1>3, Fields
    <2> HIDE DEF e
    <2>11. Order'
      BY <1>1, <2>1, <2>3, <2>9, <2>10, Parts DEF Order
    <2> QED
      BY <2>6, <2>7, <2>8, <2>11 DEF CInv
  <1>8. CASE isOpen
    <2>1. /\ head' = Append(head, m) /\ sent' = Append(sent, m)
          /\ IF head = <<>> THEN Continue(caller, m) ELSE stack' = Tail(stack) /\ sched' = sched
      BY <1>8 DEF Send, IsFirst
    <2> HIDE DEF m
    <2>2. /\ head' \in Seq(Messages) /\ Alone(head', 1)
          /\ \A o : InList(o)' <=> o = s \/ InList(o)
      BY <1>3, <1>5, <2>1, InListAfter
    <2>3. /\ Len(head') = Len(head) + 1 /\ Len(head) \in Nat /\ head' # <<>>
          /\ \A i \in 1 .. Len(head) : head'[i] = head[i]
          /\ head'[Len(head) + 1] = m
          /\ sent' \in Seq(Messages) /\ Len(sent') = Len(sent) + 1 /\ Len(sent) \in Nat
          /\ \A i \in 1 .. Len(sent) : sent'[i] = sent[i]
          /\ sent'[Len(sent) + 1] = m
          /\ Len(got) \in Nat
      BY <1>5, <2>1, Parts
    <2>4. Len(got') <= Len(sent') /\ \A i \in 1 .. Len(got') : got'[i] = sent'[i]
      BY <1>1, <2>3, Parts DEF Order
    <2>5. ASSUME Serves
          PROVE  /\ Len(head') <= Len(sent')
                 /\ \A i \in 1 .. Len(head') : head'[i] = sent'[Len(sent') - Len(head') + i]
                 /\ Len(sent') - Len(head') = Len(sent) - Len(head)
      <3>1. /\ Len(head) <= Len(sent)
            /\ \A i \in 1 .. Len(head) : head[i] = sent[Len(sent) - Len(head) + i]
        BY <2>5, Parts DEF Order
      <3>2. Len(sent') - Len(head') = Len(sent) - Len(head) /\ Len(head') <= Len(sent')
        BY <2>3, <3>1
      <3>3. ASSUME NEW i \in 1 .. Len(head')
            PROVE  head'[i] = sent'[Len(sent) - Len(head) + i]
        <4>1. CASE i = Len(head) + 1
          <5>1. Len(sent) - Len(head) + i = Len(sent) + 1
            BY <2>3, <4>1
          <5> QED
            BY <2>3, <4>1, <5>1
        <4>2. CASE i # Len(head) + 1
          <5>1. i \in 1 .. Len(head) /\ Len(sent) - Len(head) + i \in 1 .. Len(sent)
            BY <2>3, <3>1, <4>2
          <5> QED
            BY <2>3, <3>1, <5>1
        <4> QED
          BY <4>1, <4>2
      <3> QED
        BY <3>2, <3>3
    <2>6. CASE head = <<>>
      <3> DEFINE e == Item("run", Receiver, m)
      <3>1. ~ Has(Channel)
        BY <1>3, <2>6, Parts DEF Phases
      <3>2. Serves /\ ~ Has(Receiver) /\ caller = Receiver
        BY <1>8, <2>6, <3>1, Parts DEF Phases, Serves
      <3>3. Continue(Receiver, m) /\ m \in Plain \union Messages /\ Receiver \in States \union {Channel}
        BY <1>5, <2>1, <2>6, <3>2, Names
      <3>4. /\ Spread' /\ Live' = (Live \ {stack[1]}) \union {e}
            /\ stack' \in Seq(OnStack) /\ sched' \in Seq(Continuations)
        BY <1>2, <3>2, <3>3, Continued DEF Has
      <3>5. e[2] = Receiver /\ e[3] = m /\ IsMessage(e)
        BY <1>5, Fields DEF IsMessage
      <3> HIDE DEF e
      <3>6. \A o : Has(o)' <=> o = Receiver \/ (o # s /\ Has(o))
        BY <1>2, <3>4, <3>5, HasAfter
      <3>7. TypeOK'
        BY <1>1, <1>4, <1>5, <1>6, <2>2, <2>3, <3>4, Parts DEF TypeOK, OnStack
      <3>8. Once'
        BY <1>3, <1>4, <2>2, <3>4, <3>6, Parts, Names DEF Once
      <3>9. Phases'
        BY <1>1, <1>3, <1>4, <1>8, <2>3, <3>1, <3>2, <3>6, Parts, Names DEF Phases, Serves
      <3>10. Serves'
        BY <1>1, <1>8, <3>1, <3>6, Names DEF Serves
      <3>11. \A x \in Live' : x[2] = Receiver => x = e
        BY <3>2, <3>4 DEF Has
      <3>12. head'[1] = m /\ Len(got) = Len(sent) /\ Len(head) = 0
        BY <2>3, <2>6, <3>2, Parts DEF Order
      <3>13. Len(got') = Len(sent') - Len(head')
        BY <1>1, <2>3, <3>12
      <3>14. Order'
        BY <2>3, <2>4, <2>5, <3>2, <3>5, <3>10, <3>11, <3>12, <3>13 DEF Order
      <3> QED
        BY <3>7, <3>8, <3>9, <3>14 DEF CInv
    <2>7. CASE head # <<>>
      <3>1. /\ Spread' /\ Live' = Live \ {stack[1]}
            /\ stack' \in Seq(OnStack) /\ sched' \in Seq(Continuations)
        BY <1>2, <2>1, <2>7, Ended
      <3>2. \A o : Has(o)' <=> o # s /\ Has(o)
        BY <1>2, <3>1, HasEnded
      <3>3. TypeOK'
        BY <1>1, <1>4, <1>5, <1>6, <2>2, <2>3, <3>1, Parts DEF TypeOK, OnStack
      <3>4. Once'
        BY <1>3, <1>4, <2>2, <3>1, <3>2, Parts DEF Once
      <3>5. Phases'
        BY <1>1, <1>3, <1>4, <1>8, <2>3, <2>7, <3>2, Parts, Names DEF Phases, Serves
      <3>6. Serves' <=> Serves
        BY <1>1, <1>3, <3>2 DEF Serves
      <3>7. head'[1] = head[1]
        BY <2>3, <2>7
      <3>8. Order'
        BY <1>1, <2>3, <2>4, <2>5, <3>1, <3>6, <3>7, Parts DEF Order
      <3> QED
        BY <3>3, <3>4, <3>5, <3>8 DEF CInv
    <2> QED
      BY <2>6, <2>7
  <1> QED
    BY <1>7, <1>8

LEMMA NextFailsStep ==
  ASSUME CInv, Runs(Receiver), Becomes(Receiver, "waits"), Continue(Receiver, "error"),
         UNCHANGED <<isOpen, head, caller, preempt, sends, sent, got>>
  PROVE  CInv'
  <1> DEFINE e == Item("run", Receiver, "error")
  <1>1. /\ stack # <<>> /\ stack[1] \in Live /\ stack[1][2] = Receiver
        /\ ~ IsMessage(stack[1]) /\ \A x \in Live : x[2] = Receiver => x = stack[1]
    BY Running
  <1>2. "error" \in Plain \union Messages /\ Receiver \in States \union {Channel}
    BY Names DEF Plain
  <1>3. /\ Spread' /\ Live' = (Live \ {stack[1]}) \union {e}
        /\ stack' \in Seq(OnStack) /\ sched' \in Seq(Continuations)
    BY <1>1, <1>2, Continued
  <1>4. /\ e \in OnStack /\ e[2] = Receiver /\ ~ IsMessage(e)
    BY <1>2, Fields, Names DEF OnStack, Item, Continuations, Plain, IsMessage
  <1> HIDE DEF e
  <1>5. /\ at' \in [States -> {"unborn", "waits", "runs", "ended"}]
        /\ \A r \in Senders : at'[r] = at[r]
    BY Parts, Names DEF Becomes
  <1>6. preempt' \in BOOLEAN
    BY Parts DEF TypeOK
  <1> QED
    BY <1>1, <1>3, <1>4, <1>5, <1>6, GoesOn

\* next takes the head off the list; everything but who is continued.
LEMMA HeadTaken ==
  ASSUME CInv, Serves, Runs(Receiver), head # <<>>, head' = Tail(head),
         UNCHANGED <<isOpen, sent, got>>
  PROVE  /\ head' \in Seq(Messages) /\ Alone(head', 1)
         /\ \A o : InList(o)' <=> o # head[1][1] /\ InList(o)
         /\ head[1] \in Messages /\ head[1][1] \in Senders /\ InList(head[1][1])
         /\ Len(head') = Len(head) - 1 /\ Len(head) \in Nat \ {0}
         /\ Len(head') <= Len(sent') /\ Len(got') = Len(sent') - Len(head')
         /\ \A i \in 1 .. Len(head') : head'[i] = sent'[Len(sent') - Len(head') + i]
         /\ Len(head) > 1 => head' # <<>> /\ head'[1] = head[2] /\ head[2] \in Messages
         /\ Len(head) <= 1 => head' = <<>> /\ Len(got') = Len(sent')
         /\ \A o \in Senders : o = head[1][1] => ~ Has(o)
  <1>1. /\ head' \in Seq(Messages) /\ Alone(head', 1)
        /\ \A o : InList(o)' <=> o # head[1][1] /\ InList(o)
        /\ head[1] \in Messages /\ InList(head[1][1])
    BY InListAfter
  <1>2. /\ Len(head') = Len(head) - 1 /\ Len(head) \in Nat \ {0}
        /\ \A i \in 1 .. Len(head') : head'[i] = head[i + 1] /\ i + 1 \in 1 .. Len(head)
        /\ Len(head) > 1 => head' # <<>> /\ head'[1] = head[2] /\ head[2] \in Messages
        /\ Len(head) <= 1 => head' = <<>>
        /\ Len(sent) \in Nat /\ Len(got) \in Nat
    <2>1. head \in Seq(Messages) /\ sent \in Seq(Messages) /\ got \in Seq(Messages)
      BY Parts
    <2>2. Len(head) \in Nat \ {0} /\ Len(head') = Len(head) - 1
      BY <2>1
    <2>3. \A i \in 1 .. Len(head') : head'[i] = head[i + 1] /\ i + 1 \in 1 .. Len(head)
      BY <2>1, <2>2
    <2>4. ASSUME Len(head) > 1
          PROVE  head' # <<>> /\ head'[1] = head[2] /\ head[2] \in Messages
      <3>1. 1 \in 1 .. Len(head') /\ 2 \in 1 .. Len(head) /\ 1 + 1 = 2
        BY <2>2, <2>4
      <3>2. head'[1] = head[1 + 1]
        BY <2>3, <3>1
      <3>3. Len(head') # 0
        BY <2>2, <2>4
      <3>4. head[2] \in Messages
        BY <2>1, <3>1
      <3> QED
        BY <3>1, <3>2, <3>3, <3>4
    <2>5. Len(head) <= 1 => head' = <<>>
      BY <1>1, <2>2
    <2> QED
      BY <2>1, <2>2, <2>3, <2>4, <2>5
  <1>3. /\ Len(head) <= Len(sent) /\ Len(got) = Len(sent) - Len(head) + 1
        /\ \A i \in 1 .. Len(head) : head[i] = sent[Len(sent) - Len(head) + i]
    BY Running, Parts DEF Order
  <1>4. /\ Len(head') <= Len(sent') /\ Len(got') = Len(sent') - Len(head')
        /\ Len(sent) - Len(head') = Len(sent) - Len(head) + 1
    BY <1>2, <1>3
  <1>5. ASSUME NEW i \in 1 .. Len(head')
        PROVE  head'[i] = sent'[Len(sent') - Len(head') + i]
    <2>1. Len(sent) - Len(head) + (i + 1) = Len(sent') - Len(head') + i
      BY <1>2
    <2> QED
      BY <1>2, <1>3, <2>1
  <1>6. head[1][1] \in Senders
    BY <1>1 DEF Messages
  <1>7. Len(head) <= 1 => Len(got') = Len(sent')
    BY <1>2, <1>3
  <1> QED
    BY <1>1, <1>2, <1>4, <1>5, <1>6, <1>7, Parts DEF Once

LEMMA ChannelNextStep ==
  ASSUME CInv, ChannelNext
  PROVE  CInv'
  <1>1. Runs(Receiver) /\ Becomes(Receiver, "waits") /\ UNCHANGED <<isOpen, preempt, sends, sent, got>>
    BY DEF ChannelNext
  <1>2. CASE ~ isOpen
    BY <1>1, <1>2, NextFailsStep DEF ChannelNext
  <1>3. CASE isOpen
    <2> DEFINE m == head[1]
    <2>1. /\ head # <<>> /\ head' = Tail(head) /\ caller' = Receiver
          /\ IF Len(head) > 1
             THEN /\ stack' = <<Item("run", Receiver, Second)>> \o ReplyLeft(m) \o Tail(stack)
                  /\ sched' = sched
             ELSE Continue(m[1], m)
      BY <1>3 DEF ChannelNext
    <2>2. /\ stack # <<>> /\ stack[1] \in Live /\ stack[1][2] = Receiver /\ Has(Receiver)
          /\ \A x \in Live : x[2] = Receiver => x = stack[1]
      BY <1>1, Running
    <2>3. Serves /\ ~ Has(Channel) /\ caller = Receiver /\ at[Function] # "unborn"
      BY <1>3, <2>2, Parts DEF Phases, Serves
    <2>4. /\ head' \in Seq(Messages) /\ Alone(head', 1)
          /\ \A o : InList(o)' <=> o # m[1] /\ InList(o)
          /\ m \in Messages /\ m[1] \in Senders /\ InList(m[1])
          /\ Len(head') <= Len(sent') /\ Len(got') = Len(sent') - Len(head')
          /\ \A i \in 1 .. Len(head') : head'[i] = sent'[Len(sent') - Len(head') + i]
          /\ Len(head) > 1 => head' # <<>> /\ head'[1] = head[2] /\ head[2] \in Messages
          /\ ~ (Len(head) > 1) => head' = <<>> /\ Len(got') = Len(sent')
          /\ ~ Has(m[1])
      BY <1>1, <2>1, <2>3, HeadTaken
    <2> HIDE DEF m
    <2>5. m[1] # Receiver /\ m[1] # Channel /\ m[1] \in States
      BY <2>4, Names
    <2>6. /\ at' \in [States -> {"unborn", "waits", "runs", "ended"}]
          /\ \A r \in Senders : at'[r] = at[r]
      BY <1>1, Parts, Names DEF Becomes
    <2>7. preempt' \in BOOLEAN /\ sends' \in [Senders -> 0 .. MaxSends]
      BY <1>1, Parts DEF TypeOK
    <2>8. Len(got') <= Len(sent') /\ \A i \in 1 .. Len(got') : got'[i] = sent'[i]
      BY <1>1, Parts DEF Order
    <2>9. CASE Len(head) > 1
      <3> DEFINE t == Tail(stack)
                 r == Item("reply", m[1], m)
                 e == Item("run", Receiver, head[2])
      <3>1. stack' = <<e>> \o (<<r>> \o t) /\ sched' = sched
        <4>1. stack' = <<e>> \o <<r>> \o t /\ sched' = sched
          BY <2>1, <2>9 DEF ReplyLeft, Second, m
        <4>2. t \in Seq(OnStack) /\ <<e>> \in Seq({e}) /\ <<r>> \in Seq({r})
          BY <2>2, Top
        <4> HIDE DEF t, r, e
        <4> QED
          BY <4>1, <4>2
      <3>2. /\ r \in OnStack /\ r[2] = m[1]
            /\ e \in OnStack /\ e[2] = Receiver /\ e[3] = head[2] /\ IsMessage(e)
        BY <2>4, <2>9, Fields, Names DEF OnStack, Continuations, Item, IsMessage
      <3>3. /\ t \in Seq(OnStack) /\ Alone(t, 2)
            /\ Live \ {stack[1]} = Elems(t) \union Elems(sched)
            /\ \A x \in Elems(t), y \in Elems(sched) : x[2] # y[2]
        BY <2>2, Top
      <3> HIDE DEF t, r, e
      <3>4. \A x \in Elems(t) \union Elems(sched) : x[2] # m[1] /\ x[2] # Receiver
        BY <2>2, <2>4, <3>3 DEF Has
      <3>5. /\ <<r>> \o t \in Seq(OnStack) /\ Alone(<<r>> \o t, 2)
            /\ Elems(<<r>> \o t) = Elems(t) \union {r}
        BY <3>2, <3>3, <3>4, AlonePush
      <3> DEFINE u == <<r>> \o t
      <3>6. u \in Seq(OnStack) /\ Alone(u, 2) /\ \A x \in Elems(u) : x[2] # e[2]
        BY <2>5, <3>2, <3>4, <3>5
      <3>7. Elems(u) = Elems(t) \union {r}
        BY <3>5
      <3>8. stack' = <<e>> \o u
        BY <3>1
      <3> HIDE DEF u
      <3>9. stack' \in Seq(OnStack) /\ Alone(stack', 2) /\ Elems(stack') = Elems(u) \union {e}
        BY <3>2, <3>6, <3>8, AlonePush
      <3>10. Live' = (Live \ {stack[1]}) \union {r, e}
        BY <3>1, <3>3, <3>7, <3>9 DEF Live
      <3>11. Spread'
        BY <3>1, <3>2, <3>3, <3>4, <3>7, <3>9, Parts DEF Spread
      <3>12. \A o : Has(o)' <=> o = m[1] \/ Has(o)
        BY <2>2, <3>2, <3>10 DEF Has
      <3>13. TypeOK'
        BY <1>1, <2>1, <2>4, <2>6, <2>7, <3>1, <3>9, Parts DEF TypeOK, OnStack
      <3>14. Once'
        BY <2>4, <2>6, <3>11, <3>12, Parts DEF Once
      <3>15. Phases'
        BY <1>1, <1>3, <2>1, <2>2, <2>3, <2>4, <2>5, <2>6, <2>9, <3>12, Names DEF Phases, Serves
      <3>16. Serves'
        BY <1>1, <2>3, <2>5, <3>12 DEF Serves
      <3>17. \A x \in Live' : x[2] = Receiver => x = e
        BY <2>2, <2>5, <3>2, <3>10
      <3>18. Order'
        BY <2>4, <2>8, <2>9, <3>2, <3>16, <3>17 DEF Order
      <3> QED
        BY <3>13, <3>14, <3>15, <3>18 DEF CInv
    <2>10. CASE ~ (Len(head) > 1)
      <3> DEFINE e == Item("run", m[1], m)
      <3>1. Continue(m[1], m)
        BY <2>1, <2>10 DEF m
      <3>2. \A x \in Live : x[2] # m[1]
        BY <2>4 DEF Has
      <3>3. m \in Plain \union Messages /\ m[1] \in States \union {Channel}
        BY <2>4, <2>5
      <3>4. /\ Spread' /\ Live' = (Live \ {stack[1]}) \union {e}
            /\ stack' \in Seq(OnStack) /\ sched' \in Seq(Continuations)
        BY <2>2, <3>1, <3>2, <3>3, Continued
      <3>5. e[2] = m[1]
        BY Fields
      <3> HIDE DEF e
      <3>6. \A o : Has(o)' <=> o = m[1] \/ (o # Receiver /\ Has(o))
        BY <2>2, <3>4, <3>5, HasAfter
      <3>7. TypeOK'
        BY <1>1, <2>1, <2>4, <2>6, <2>7, <3>4, Parts DEF TypeOK, OnStack
      <3>8. Once'
        BY <2>4, <2>6, <3>4, <3>6, Parts, Names DEF Once
      <3>9. Phases'
        BY <1>1, <1>3, <2>1, <2>3, <2>4, <2>5, <2>6, <2>10, <3>6, Names DEF Phases, Serves
      <3>10. Serves'
        BY <1>1, <2>3, <2>5, <3>6 DEF Serves
      <3>11. \A x \in Live' : x[2] # Receiver
        BY <2>2, <2>5, <3>4, <3>5
      <3>12. Order'
        BY <2>4, <2>8, <2>10, <3>10, <3>11 DEF Order
      <3> QED
        BY <3>7, <3>8, <3>9, <3>12 DEF CInv
    <2> QED
      BY <2>9, <2>10
  <1> QED
    BY <1>2, <1>3

LEMMA ChannelRunStep ==
  ASSUME CInv, ChannelRun
  PROVE  CInv'
  <1> DEFINE e == Item("run", Receiver, "value")
  <1>1. /\ stack # <<>> /\ stack[1][2] = Channel /\ isOpen' = FALSE /\ Continue(caller, "value")
        /\ UNCHANGED <<head, caller, preempt, at, sends, sent, got>>
    BY DEF ChannelRun, AfterRun
  <1>2. stack[1] \in Live /\ Has(Channel)
    BY <1>1, Top DEF Has
  <1>3. isOpen /\ ~ Has(Receiver) /\ ~ Has(Function) /\ caller = Receiver
    BY <1>2, Parts DEF Phases
  <1>4. "value" \in Plain \union Messages /\ Receiver \in States \union {Channel}
    BY Names DEF Plain
  <1>5. /\ Spread' /\ Live' = (Live \ {stack[1]}) \union {e}
        /\ stack' \in Seq(OnStack) /\ sched' \in Seq(Continuations)
    BY <1>1, <1>3, <1>4, Continued DEF Has
  <1>6. e[2] = Receiver /\ ~ IsMessage(e)
    BY Fields, Names DEF Plain, IsMessage
  <1> HIDE DEF e
  <1>7. \A o : Has(o)' <=> o = Receiver \/ (o # Channel /\ Has(o))
    BY <1>1, <1>2, <1>5, <1>6, HasAfter
  <1>8. \A o : InList(o)' <=> InList(o)
    BY <1>1, InListAfter
  <1>9. TypeOK'
    BY <1>1, <1>5, Parts DEF TypeOK, OnStack
  <1>10. Once'
    BY <1>1, <1>5, <1>7, <1>8, Parts, Names DEF Once
  <1>11. Phases'
    BY <1>1, <1>3, <1>7, Parts, Names DEF Phases, Serves
  <1>12. ~ Serves' /\ \A x \in Live' : x[2] = Receiver => ~ IsMessage(x)
    BY <1>1, <1>3, <1>5, <1>6 DEF Serves, Has
  <1>13. Order'
    BY <1>1, <1>12, Parts DEF Order
  <1> QED
    BY <1>9, <1>10, <1>11, <1>13 DEF CInv

\* The function returns or the receiver calls close: the channel is continued.
LEMMA ClosesStep ==
  ASSUME CInv, NEW s \in States, Runs(s), Continue(Channel, "value"), isOpen, ~ Has(Channel),
         UNCHANGED <<isOpen, head, caller, preempt, sends, sent, got>>,
         at' \in [States -> {"unborn", "waits", "runs", "ended"}],
         \A r \in Senders : /\ at[r] = "unborn" <=> at'[r] = "unborn"
                            /\ at'[r] = "ended" <=> at[r] = "ended" \/ r = s,
         s = Receiver \/ ~ Has(Receiver),
         s = Function \/ ~ Has(Function),
         head # <<>> \/ \A r \in Senders : at'[r] \in {"unborn", "ended"}
  PROVE  CInv'
  <1> DEFINE e == Item("run", Channel, "value")
  <1>1. /\ stack # <<>> /\ stack[1] \in Live /\ stack[1][2] = s /\ Has(s)
        /\ \A x \in Live : x[2] = s => x = stack[1]
    BY Running
  <1>2. "value" \in Plain \union Messages /\ Channel \in States \union {Channel} /\ s # Channel
    BY Names DEF Plain
  <1>3. /\ Spread' /\ Live' = (Live \ {stack[1]}) \union {e}
        /\ stack' \in Seq(OnStack) /\ sched' \in Seq(Continuations)
    BY <1>1, <1>2, Continued DEF Has
  <1>4. e[2] = Channel
    BY Fields
  <1> HIDE DEF e
  <1>5. \A o : Has(o)' <=> o = Channel \/ (o # s /\ Has(o))
    BY <1>1, <1>3, <1>4, HasAfter
  <1>6. \A o : InList(o)' <=> InList(o)
    BY InListAfter
  <1>7. TypeOK'
    BY <1>3, Parts DEF TypeOK, OnStack
  <1>8. Once'
    <2>1. ASSUME NEW r \in Senders
          PROVE  /\ ~ (Has(r)' /\ InList(r)')
                 /\ Has(r)' \/ InList(r)' <=> at'[r] \notin {"unborn", "ended"}
      <3>1. r # Channel
        BY Names
      <3>2. /\ ~ (Has(r) /\ InList(r))
            /\ Has(r) \/ InList(r) <=> at[r] \notin {"unborn", "ended"}
        BY Parts DEF Once
      <3> QED
        BY <1>1, <1>5, <1>6, <3>1, <3>2
    <2> QED
      BY <1>3, <2>1, Parts DEF Once
  <1>9. /\ ~ Has(Receiver)' /\ ~ Has(Function)' /\ Has(Channel)'
    BY <1>5, Names
  <1>10. Phases'
    BY <1>9, Parts, Names DEF Phases, Serves
  <1>11. ~ Serves' /\ \A x \in Live' : x[2] # Receiver
    BY <1>9 DEF Serves, Has
  <1>12. Order'
    BY <1>11, Parts DEF Order
  <1> QED
    BY <1>7, <1>8, <1>10, <1>12 DEF CInv

LEMMA FunctionReturnsStep ==
  ASSUME CInv, FunctionReturns
  PROVE  CInv'
  <1>1. /\ Runs(Function) /\ \A h \in Helpers : at[h] \in {"unborn", "ended"}
        /\ at' = [at EXCEPT ![Function] = "ended"] /\ Continue(Channel, "value")
        /\ UNCHANGED <<isOpen, head, caller, preempt, sends, sent, got>>
    BY DEF FunctionReturns, Becomes
  <1>2. Has(Function) /\ at[Function] \notin {"unborn", "ended"} /\ ~ InList(Function)
    BY <1>1, Running, Parts, Names DEF Once
  <1>3. isOpen /\ ~ Has(Channel)
    BY <1>2, Parts DEF Phases
  <1>4. head = <<>>
    <2> SUFFICES ASSUME head # <<>> PROVE FALSE
      OBVIOUS
    <2>1. InList(head[1][1]) /\ head[1][1] \in Senders
      BY InListAfter DEF Messages
    <2> QED
      BY <1>1, <1>2, <2>1, Parts DEF Once, Senders
  <1>5. ~ Has(Receiver)
    BY <1>3, <1>4, Parts DEF Phases, Serves
  <1>6. Function \in States /\ at' \in [States -> {"unborn", "waits", "runs", "ended"}]
    BY <1>1, Parts, Names
  <1>7. \A r \in Senders : /\ at[r] = "unborn" <=> at'[r] = "unborn"
                           /\ at'[r] = "ended" <=> at[r] = "ended" \/ r = Function
                           /\ at'[r] \in {"unborn", "ended"}
    BY <1>1, <1>2, Parts, Names DEF Senders
  <1> QED
    BY <1>1, <1>3, <1>5, <1>6, <1>7, ClosesStep

LEMMA CloseStep ==
  ASSUME CInv, Close
  PROVE  CInv'
  <1>1. /\ Runs(Receiver) /\ isOpen /\ at' = [at EXCEPT ![Receiver] = "waits"]
        /\ Continue(Channel, "value")
        /\ UNCHANGED <<isOpen, head, caller, preempt, sends, sent, got>>
    BY DEF Close, Becomes
  <1>2. InList(Function)
    <2>1. PICK i \in DOMAIN head : head[i][1] = Function
      BY DEF Close
    <2>2. i \in 1 .. Len(head)
      BY Parts
    <2> QED
      BY <2>1, <2>2 DEF InList, Elems
  <1>3. ~ Has(Function) /\ head # <<>>
    <2>1. head # <<>>
      BY <1>2 DEF InList, Elems
    <2> QED
      BY <1>2, <2>1, Parts, Names DEF Once
  <1>4. Has(Receiver) /\ ~ Has(Channel)
    BY <1>1, Running, Parts DEF Phases
  <1>5. Receiver \in States /\ at' \in [States -> {"unborn", "waits", "runs", "ended"}]
    BY <1>1, Parts, Names
  <1>6. \A r \in Senders : at'[r] = at[r] /\ r # Receiver
    BY <1>1, Parts, Names
  <1> QED
    BY <1>1, <1>3, <1>4, <1>5, <1>6, ClosesStep

LEMMA SpawnStep ==
  ASSUME CInv, NEW h \in Helpers, Spawn(h)
  PROVE  CInv'
  <1> DEFINE e == Item("run", h, "nil")
  <1>1. /\ Runs(Function) /\ at[h] = "unborn" /\ at' = [at EXCEPT ![h] = "waits"]
        /\ sched' = Append(sched, e)
        /\ UNCHANGED <<isOpen, head, caller, stack, preempt, sends, sent, got>>
    BY DEF Spawn, Becomes
  <1>2. h \in Senders /\ h \in States /\ h # Function /\ h # Receiver /\ h # Channel
    BY Names DEF Senders
  <1>3. e \in Continuations /\ e[2] = h
    BY <1>2, Fields DEF Item, Continuations, Plain
  <1> HIDE DEF e
  <1>4. ~ Has(h) /\ ~ InList(h)
    BY <1>1, <1>2, Parts DEF Once
  <1>5. /\ \A x \in Elems(sched) : x[2] # e[2]
        /\ \A x \in Elems(stack) : x[2] # e[2]
    BY <1>3, <1>4 DEF Has, Live
  <1>6. /\ sched' \in Seq(Continuations) /\ Alone(sched', 2)
        /\ Elems(sched') = Elems(sched) \union {e}
    BY <1>1, <1>3, <1>5, Parts, AloneAppend
  <1>7. Spread' /\ Live' = Live \union {e}
    BY <1>1, <1>5, <1>6, Parts DEF Spread, Live
  <1>8. \A o : Has(o)' <=> o = h \/ Has(o)
    BY <1>3, <1>7 DEF Has
  <1>9. \A o : InList(o)' <=> InList(o)
    BY <1>1, InListAfter
  <1>10. at' \in [States -> {"unborn", "waits", "runs", "ended"}]
         /\ \A r \in States : at'[r] = IF r = h THEN "waits" ELSE at[r]
    BY <1>1, <1>2, Parts
  <1>11. TypeOK'
    BY <1>1, <1>6, <1>10, Parts DEF TypeOK, OnStack
  <1>12. Once'
    BY <1>1, <1>2, <1>4, <1>7, <1>8, <1>9, <1>10, Parts, Names DEF Once
  <1>13. Has(Function) /\ ~ Has(Channel) /\ Function \in States
    BY <1>1, Running, Parts, Names DEF Phases
  <1>14. Phases'
    BY <1>1, <1>2, <1>8, <1>10, <1>13, Parts, Names DEF Phases, Serves
  <1>15. Serves' <=> Serves
    BY <1>1, <1>2, <1>8 DEF Serves
  <1>16. \A x \in Live' : x[2] = Receiver => x \in Live
    BY <1>2, <1>3, <1>7
  <1>17. Order'
    BY <1>1, <1>15, <1>16, Parts DEF Order
  <1> QED
    BY <1>11, <1>12, <1>14, <1>17 DEF CInv

LEMMA EndStep ==
  ASSUME CInv, NEW s \in States, End(s)
  PROVE  CInv'
  <1>1. /\ Runs(s) /\ s # Function /\ at' = [at EXCEPT ![s] = "ended"]
        /\ s = Receiver => ~ isOpen
        /\ stack' = Tail(stack)
        /\ UNCHANGED <<isOpen, head, caller, sched, preempt, sends, sent, got>>
    BY DEF End, Becomes
  <1>2. /\ stack # <<>> /\ stack[1] \in Live /\ stack[1][2] = s /\ Has(s)
    BY <1>1, Running
  <1>3. /\ Spread' /\ Live' = Live \ {stack[1]}
        /\ stack' \in Seq(OnStack) /\ sched' \in Seq(Continuations)
    BY <1>1, <1>2, Ended
  <1>4. \A o : (Has(o)' <=> o # s /\ Has(o)) /\ (InList(o)' <=> InList(o))
    BY <1>1, <1>2, <1>3, HasEnded, InListAfter
  <1>5. at' \in [States -> {"unborn", "waits", "runs", "ended"}]
        /\ \A r \in States : at'[r] = IF r = s THEN "ended" ELSE at[r]
    BY <1>1, Parts
  <1>6. TypeOK'
    BY <1>1, <1>3, <1>5, Parts DEF TypeOK, OnStack
  <1>7. Once'
    BY <1>1, <1>2, <1>3, <1>4, <1>5, Parts, Names DEF Once
  <1>8. s # Channel /\ (s \in Senders => at[s] \notin {"unborn", "ended"})
    BY <1>2, Parts, Names DEF Once
  <1>9. Phases'
    BY <1>1, <1>4, <1>5, <1>8, Parts, Names DEF Phases, Serves
  <1>10. Serves' <=> Serves
    BY <1>1, <1>4, <1>8 DEF Serves
  <1>11. Order'
    BY <1>1, <1>3, <1>10, Parts DEF Order
  <1> QED
    BY <1>6, <1>7, <1>9, <1>11 DEF CInv

\* Where the continuations are does not matter for the rest.
LEMMA SameLive ==
  ASSUME CInv, Spread', Live' = Live, stack' \in Seq(OnStack), sched' \in Seq(Continuations),
         preempt' \in BOOLEAN, UNCHANGED <<isOpen, head, caller, at, sends, sent, got>>
  PROVE  CInv'
  <1>1. \A o : (Has(o)' <=> Has(o)) /\ (InList(o)' <=> InList(o))
    BY InListAfter DEF Has
  <1>2. TypeOK'
    BY Parts DEF TypeOK, OnStack
  <1>3. Once'
    BY <1>1, Parts DEF Once
  <1>4. Phases'
    BY <1>1, Parts DEF Phases, Serves
  <1>5. Serves' <=> Serves
    BY <1>1 DEF Serves
  <1>6. Order'
    BY <1>5, Parts DEF Order
  <1> QED
    BY <1>2, <1>3, <1>4, <1>6 DEF CInv

LEMMA RunNextStep ==
  ASSUME CInv, RunNext
  PROVE  CInv'
  <1>1. /\ stack = <<>> /\ sched # <<>> /\ stack' = <<Head(sched)>> /\ sched' = Tail(sched)
        /\ preempt' = FALSE /\ UNCHANGED <<isOpen, head, caller, at, sends, sent, got>>
    BY DEF RunNext
  <1>2. /\ sched' \in Seq(Continuations) /\ Alone(sched', 2)
        /\ Elems(sched') = Elems(sched) \ {sched[1]}
        /\ sched[1] \in Elems(sched) /\ sched[1] \in Continuations /\ Head(sched) = sched[1]
        /\ \A x \in Elems(sched) : x[2] = sched[1][2] => x = sched[1]
    BY <1>1, Parts, AloneTail
  <1>3. /\ stack' = <<sched[1]>> /\ stack' \in Seq(OnStack) /\ Elems(stack') = {sched[1]}
        /\ Alone(stack', 2) /\ Elems(stack) = {}
    BY <1>1, <1>2 DEF OnStack, Elems, Alone
  <1>4. Live' = Live /\ Spread'
    BY <1>2, <1>3 DEF Live, Spread
  <1> QED
    BY <1>1, <1>2, <1>3, <1>4, SameLive

LEMMA NextC == CInv /\ [Next]_vars => CInv'
  <1> SUFFICES ASSUME CInv, [Next]_vars PROVE CInv'
    OBVIOUS
  <1>1. ASSUME UNCHANGED <<isOpen, head, caller, stack, sched, at, sends, sent, got>>,
               preempt' \in BOOLEAN
        PROVE  CInv'
    BY <1>1, Parts, SameLive DEF Live, Spread
  <1>2. CASE Preempt
    BY <1>1, <1>2 DEF Preempt
  <1>3. CASE UNCHANGED vars
    BY <1>1, <1>3, Parts DEF vars, TypeOK
  <1>4. CASE \E s \in Senders : Send(s)
    BY <1>4, SendStep
  <1>5. CASE \E h \in Helpers : Spawn(h)
    BY <1>5, SpawnStep
  <1>6. CASE \E s \in States : End(s) \/ Yield(s)
    BY <1>6, EndStep, YieldStep
  <1> QED
    BY <1>2, <1>3, <1>4, <1>5, <1>6, StartStep, ChannelNextStep, ReplyStep, EnterStep,
       ChannelRunStep, FunctionReturnsStep, CloseStep, RunNextStep DEF Next

LEMMA CInvHolds == Spec => []CInv
  BY InitC, NextC, PTL DEF Spec
------------------------------------------------------------------------------
\* Each variable of Channel keeps its type.
THEOREM ChannelTypes == Spec => []TypeOK
  BY CInvHolds, PTL DEF CInv

Naming(q, k, s) == {i \in DOMAIN q : q[i][k] = s}

\* At most one of the places of q names s, and exactly one if some does.
LEMMA CountOne ==
  ASSUME NEW S, NEW q \in Seq(S), NEW k, NEW s, Alone(q, k)
  PROVE  /\ (\E x \in Elems(q) : x[k] = s) => Cardinality(Naming(q, k, s)) = 1
         /\ ~ (\E x \in Elems(q) : x[k] = s) => Cardinality(Naming(q, k, s)) = 0
  <1> DEFINE I == Naming(q, k, s)
  <1>1. DOMAIN q = 1 .. Len(q)
    OBVIOUS
  <1>2. CASE \E x \in Elems(q) : x[k] = s
    <2>1. PICK i \in 1 .. Len(q) : q[i][k] = s
      BY <1>2 DEF Elems
    <2>2. I = {i}
      BY <1>1, <2>1 DEF Alone, Naming
    <2> QED
      BY <1>2, <2>2, FS_Singleton
  <1>3. CASE ~ \E x \in Elems(q) : x[k] = s
    <2>1. I = {}
      BY <1>1, <1>3 DEF Elems, Naming
    <2> QED
      BY <1>3, <2>1, FS_EmptySet
  <1> QED
    BY <1>2, <1>3

\* Every state that waits is continued once, and the receiver never twice at a time.
THEOREM ContinuedOnlyOnce == Spec => []ContinuedOnce
  <1>1. CInv => ContinuedOnce
    <2> SUFFICES ASSUME CInv PROVE ContinuedOnce
      OBVIOUS
    <2>1. ASSUME NEW s PROVE Items(s) = IF Has(s) THEN 1 ELSE 0
      <3> DEFINE A == \E x \in Elems(stack) : x[2] = s
                 B == \E x \in Elems(sched) : x[2] = s
      <3>1. /\ A => Cardinality(Naming(stack, 2, s)) = 1
            /\ ~ A => Cardinality(Naming(stack, 2, s)) = 0
        <4>1. stack \in Seq(OnStack) /\ Alone(stack, 2)
          BY Parts
        <4> QED
          BY <4>1, CountOne
      <3>3. /\ B => Cardinality(Naming(sched, 2, s)) = 1
            /\ ~ B => Cardinality(Naming(sched, 2, s)) = 0
        <4>1. sched \in Seq(Continuations) /\ Alone(sched, 2)
          BY Parts
        <4> QED
          BY <4>1, CountOne
      <3>4. Items(s) = Cardinality(Naming(stack, 2, s)) + Cardinality(Naming(sched, 2, s))
        BY DEF Items, Naming
      <3>2. (Has(s) <=> A \/ B) /\ ~ (A /\ B)
        BY Parts DEF Has, Live, Spread
      <3> HIDE DEF A, B
      <3> QED
        BY <3>1, <3>2, <3>3, <3>4
    <2>2. ASSUME NEW s PROVE Listed(s) = IF InList(s) THEN 1 ELSE 0
      <3>1. head \in Seq(Messages) /\ Alone(head, 1)
        BY Parts
      <3>2. Listed(s) = Cardinality(Naming(head, 1, s))
        BY DEF Listed, Naming
      <3> QED
        BY <3>1, <3>2, CountOne DEF InList
    <2> QED
      BY <2>1, <2>2, Parts DEF ContinuedOnce, Once
  <1> QED
    BY <1>1, CInvHolds, PTL

\* The receiver has a prefix of what was sent, in order.
THEOREM ReceivedInOrder == Spec => []InOrder
  <1>1. CInv => InOrder
    <2> SUFFICES ASSUME CInv PROVE InOrder
      OBVIOUS
    <2>1. /\ got \in Seq(Messages) /\ sent \in Seq(Messages) /\ Len(got) <= Len(sent)
          /\ \A i \in 1 .. Len(got) : got[i] = sent[i]
      BY Parts DEF Order
    <2>2. got = SubSeq(sent, 1, Len(got))
      BY <2>1
    <2> QED
      BY <2>1, <2>2 DEF InOrder
  <1> QED
    BY <1>1, CInvHolds, PTL

\* next never finds the list of an open channel empty.
THEOREM NextFindsMessage == Spec => []NextHasMessage
  <1>1. CInv => NextHasMessage
    <2> SUFFICES ASSUME CInv, Runs(Receiver), isOpen PROVE head # <<>>
      BY DEF NextHasMessage
    <2>1. Has(Receiver)
      BY Running
    <2> QED
      BY <2>1, Parts DEF Phases, Serves
  <1> QED
    BY <1>1, CInvHolds, PTL
==============================================================================
