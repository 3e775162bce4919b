-------------------------- MODULE PipelinesProofs --------------------------
(***************************************************************************)
(* Proofs about module Pipelines, for sequences of every length and all     *)
(* sizes: the inner iterator is never asked while it owes an answer, for    *)
(* buffered with any ends of slices, for diffused while no slice ends (with *)
(* one that ends it is false); and both implement module Pipe, buffered     *)
(* and, while no slice ends, diffused.                                      *)
(***************************************************************************)
EXTENDS Pipelines, FiniteSetTheorems, SequenceTheorems, TLAPS

\* Handlers with their arguments.
Frames ==
  ({"begin", "rest", "next", "give", "fetched"} \X {0})
    \union ({"iterate"} \X {"iter", "nil", "error"})
    \union ({"key", "value"} \X Nat)
    \union ({"entry"} \X (Slots \X (Outcomes \X Nat)))
    \union ({"call"} \X Slots)
    \union ({"consumer"} \X (Outcomes \union {"state"}))

\* The handlers that fetch the next pair.
Fetch == {"begin", "iterate", "key", "value"}

\* The entries of F in s.
Places(s, F) == {i \in DOMAIN s : s[i] \in F}
Many(s, F) == Cardinality(Places(s, F))
In(f, F) == IF f \in F THEN 1 ELSE 0

\* Those whose handler is one of H.
On(s, H) == {i \in DOMAIN s : s[i][1] \in H}
Number(s, H) == Cardinality(On(s, H))
One(f, H) == IF f[1] \in H THEN 1 ELSE 0
Named(H) == {f \in Frames : f[1] \in H}
------------------------------------------------------------------------------
(* Counting handlers.                                                        *)

LEMMA ManyFinite ==
  ASSUME NEW s \in Seq(Frames), NEW F
  PROVE  IsFiniteSet(Places(s, F)) /\ Many(s, F) \in Nat /\ Many(<<>>, F) = 0
  <1>1. Places(s, F) \in SUBSET (1 .. Len(s)) /\ IsFiniteSet(1 .. Len(s))
    <2>1. Len(s) \in Nat /\ DOMAIN s = 1 .. Len(s)
      BY LenProperties
    <2>2. IsFiniteSet(1 .. Len(s))
      BY <2>1, FS_Interval
    <2> QED
      BY <2>1, <2>2 DEF Places
  <1>2. Places(<<>>, F) = {}
    BY DEF Places
  <1> QED
    BY <1>1, <1>2, FS_Subset, FS_CardinalityType, FS_EmptySet DEF Many

\* A handler is added behind the others.
LEMMA AppendMany ==
  ASSUME NEW s \in Seq(Frames), NEW f \in Frames, NEW F
  PROVE  /\ Append(s, f) \in Seq(Frames)
         /\ Many(Append(s, f), F) = Many(s, F) + In(f, F)
  <1> DEFINE t == Append(s, f)
  <1>1. /\ t \in Seq(Frames) /\ Len(t) = Len(s) + 1 /\ t[Len(s) + 1] = f
        /\ \A i \in 1 .. Len(s) : t[i] = s[i]
        /\ DOMAIN t = 1 .. Len(s) + 1 /\ DOMAIN s = 1 .. Len(s) /\ Len(s) \in Nat
    BY LenProperties
  <1>2. Places(t, F) = IF f \in F THEN Places(s, F) \union {Len(s) + 1} ELSE Places(s, F)
    BY <1>1 DEF Places
  <1>3. Len(s) + 1 \notin Places(s, F)
    BY <1>1 DEF Places
  <1>4. IsFiniteSet(Places(s, F)) /\ Many(s, F) \in Nat
    BY ManyFinite
  <1>5. CASE f \in F
    <2>1. Cardinality(Places(s, F) \union {Len(s) + 1}) = Cardinality(Places(s, F)) + 1
      BY <1>3, <1>4, FS_AddElement
    <2> QED
      BY <1>1, <1>2, <1>5, <2>1 DEF In, Many
  <1>6. CASE f \notin F
    BY <1>1, <1>2, <1>4, <1>6 DEF In, Many
  <1> QED
    BY <1>5, <1>6

\* A handler is taken from the front.
LEMMA TailMany ==
  ASSUME NEW s \in Seq(Frames), s # <<>>, NEW F
  PROVE  /\ s[1] \in Frames /\ Head(s) = s[1] /\ Tail(s) \in Seq(Frames)
         /\ Many(s, F) = Many(Tail(s), F) + In(s[1], F)
  <1> DEFINE t == Tail(s)
             R == Places(s, F) \ {1}
             shift == [i \in Places(t, F) |-> i + 1]
  <1>1. /\ t \in Seq(Frames) /\ Len(t) = Len(s) - 1 /\ Len(s) \in Nat \ {0}
        /\ \A i \in 1 .. Len(t) : t[i] = s[i + 1]
        /\ DOMAIN t = 1 .. Len(t) /\ DOMAIN s = 1 .. Len(s)
    BY HeadTailProperties, LenProperties, EmptySeq
  <1>2. s[1] \in Frames /\ Head(s) = s[1]
    BY <1>1
  <1>3. \A i \in 1 .. Len(t) : i \in Places(t, F) <=> i + 1 \in Places(s, F)
    BY <1>1 DEF Places
  <1>4. Places(t, F) \subseteq 1 .. Len(t) /\ R \subseteq 2 .. Len(s)
    BY <1>1 DEF Places
  <1>5. shift \in Bijection(Places(t, F), R)
    <2>1. shift \in [Places(t, F) -> R]
      BY <1>1, <1>3, <1>4
    <2>2. \A i, j \in Places(t, F) : shift[i] = shift[j] => i = j
      BY <1>1, <1>4
    <2>3. \A j \in R : j - 1 \in Places(t, F) /\ shift[j - 1] = j
      BY <1>1, <1>3, <1>4
    <2> QED
      BY <2>1, <2>2, <2>3 DEF Bijection, Injection, IsInjective, Surjection
  <1>6. /\ IsFiniteSet(Places(t, F)) /\ Many(t, F) \in Nat
        /\ IsFiniteSet(Places(s, F)) /\ Many(s, F) \in Nat
    BY <1>1, ManyFinite
  <1>7. Cardinality(R) = Many(t, F)
    BY <1>5, <1>6, FS_Bijection DEF ExistsBijection, Many
  <1>8. 1 \in Places(s, F) <=> s[1] \in F
    BY <1>1 DEF Places
  <1>9. Cardinality(R) = IF 1 \in Places(s, F) THEN Many(s, F) - 1 ELSE Many(s, F)
    BY <1>6, FS_RemoveElement DEF Many
  <1>10. In(s[1], F) = IF 1 \in Places(s, F) THEN 1 ELSE 0
    BY <1>8 DEF In
  <1>11. Many(s, F) = Many(t, F) + In(s[1], F)
    BY <1>6, <1>7, <1>9, <1>10
  <1> QED
    BY <1>1, <1>2, <1>11

Above(f, s) == <<f>> \o s

\* A handler is put above the others.
LEMMA AboveMany ==
  ASSUME NEW s \in Seq(Frames), NEW f \in Frames, NEW F
  PROVE  /\ Above(f, s) \in Seq(Frames) /\ Above(f, s)[1] = f /\ Above(f, s) # <<>>
         /\ Tail(Above(f, s)) = s
         /\ Many(Above(f, s), F) = Many(s, F) + In(f, F)
  <1> DEFINE t == <<f>> \o s
  <1>1. /\ t \in Seq(Frames) /\ Len(t) = Len(s) + 1 /\ t[1] = f /\ t # <<>>
        /\ \A i \in 1 .. Len(s) : t[i + 1] = s[i]
        /\ Len(s) \in Nat
    <2>1. <<f>> \in Seq(Frames) /\ Len(<<f>>) = 1 /\ <<f>>[1] = f
      OBVIOUS
    <2>2. /\ t \in Seq(Frames) /\ Len(t) = 1 + Len(s) /\ Len(s) \in Nat
          /\ \A i \in 1 .. 1 + Len(s) :
               t[i] = IF i <= 1 THEN <<f>>[i] ELSE s[i - 1]
      BY <2>1, ConcatProperties, LenProperties
    <2>3. \A i \in 1 .. Len(s) : t[i + 1] = s[i]
      BY <2>2
    <2> QED
      BY <2>1, <2>2, <2>3, EmptySeq
  <1>2. Tail(t) = s
    <2>1. /\ Tail(t) \in Seq(Frames) /\ Len(Tail(t)) = Len(s)
          /\ \A i \in 1 .. Len(s) : Tail(t)[i] = s[i]
      BY <1>1, HeadTailProperties
    <2> QED
      BY <2>1, SeqEqual
  <1> QED
    BY <1>1, <1>2, TailMany DEF Above

\* There are not more handlers of a smaller set.
LEMMA ManyLess ==
  ASSUME NEW s \in Seq(Frames), NEW F, NEW G, F \subseteq G
  PROVE  Many(s, F) <= Many(s, G)
  <1>1. Places(s, F) \subseteq Places(s, G)
    BY DEF Places
  <1> QED
    BY <1>1, ManyFinite, FS_Subset DEF Many

\* The same by the names of the handlers.
LEMMA NumberIsMany ==
  ASSUME NEW s \in Seq(Frames), NEW H
  PROVE  On(s, H) = Places(s, Named(H)) /\ Number(s, H) = Many(s, Named(H))
  <1>1. \A i \in DOMAIN s : s[i] \in Frames
    OBVIOUS
  <1>2. On(s, H) = Places(s, Named(H))
    BY <1>1 DEF On, Places, Named
  <1> QED
    BY <1>2 DEF Number, Many

LEMMA OneIsIn ==
  ASSUME NEW f \in Frames, NEW H
  PROVE  One(f, H) = In(f, Named(H))
  BY DEF One, In, Named

LEMMA NumberFinite ==
  ASSUME NEW s \in Seq(Frames), NEW H
  PROVE  IsFiniteSet(On(s, H)) /\ Number(s, H) \in Nat /\ Number(<<>>, H) = 0
  <1>1. <<>> \in Seq(Frames)
    OBVIOUS
  <1>2. Number(<<>>, H) = Many(<<>>, Named(H))
    BY <1>1, NumberIsMany
  <1> QED
    BY <1>2, NumberIsMany, ManyFinite

LEMMA AppendNumber ==
  ASSUME NEW s \in Seq(Frames), NEW f \in Frames, NEW H
  PROVE  /\ Append(s, f) \in Seq(Frames)
         /\ Number(Append(s, f), H) = Number(s, H) + One(f, H)
  <1>1. Append(s, f) \in Seq(Frames)
    BY AppendMany
  <1>2. Many(Append(s, f), Named(H)) = Many(s, Named(H)) + In(f, Named(H))
    BY AppendMany
  <1>3. Number(Append(s, f), H) = Many(Append(s, f), Named(H))
    BY <1>1, NumberIsMany
  <1> QED
    BY <1>1, <1>2, <1>3, NumberIsMany, OneIsIn

LEMMA TailNumber ==
  ASSUME NEW s \in Seq(Frames), s # <<>>, NEW H
  PROVE  /\ s[1] \in Frames /\ Head(s) = s[1] /\ Tail(s) \in Seq(Frames)
         /\ Number(s, H) = Number(Tail(s), H) + One(s[1], H)
  <1>1. s[1] \in Frames /\ Head(s) = s[1] /\ Tail(s) \in Seq(Frames)
    BY TailMany
  <1>2. Many(s, Named(H)) = Many(Tail(s), Named(H)) + In(s[1], Named(H))
    BY TailMany
  <1>3. Number(Tail(s), H) = Many(Tail(s), Named(H))
    BY <1>1, NumberIsMany
  <1> QED
    BY <1>1, <1>2, <1>3, NumberIsMany, OneIsIn

LEMMA AboveNumber ==
  ASSUME NEW s \in Seq(Frames), NEW f \in Frames, NEW H
  PROVE  /\ Above(f, s) \in Seq(Frames) /\ Above(f, s)[1] = f /\ Above(f, s) # <<>>
         /\ Tail(Above(f, s)) = s
         /\ Number(Above(f, s), H) = Number(s, H) + One(f, H)
  <1>1. /\ Above(f, s) \in Seq(Frames) /\ Above(f, s)[1] = f /\ Above(f, s) # <<>>
        /\ Tail(Above(f, s)) = s
    BY AboveMany
  <1> QED
    BY <1>1, AboveMany, NumberIsMany, OneIsIn

LEMMA NumberLess ==
  ASSUME NEW s \in Seq(Frames), NEW G, NEW H, G \subseteq H
  PROVE  Number(s, G) <= Number(s, H)
  <1>1. Named(G) \subseteq Named(H)
    BY DEF Named
  <1> QED
    BY <1>1, ManyLess, NumberIsMany
------------------------------------------------------------------------------
(* The inductive invariant of both.                                          *)

\* The handlers that fetch a pair, and the iterators that are being asked.
Fetches == Number(stack, Fetch) + Number(sched, Fetch)
Requests == Number(stack, {"iterate"}) + Number(sched, {"iterate"})

Types ==
  /\ case \in Cases /\ preempt \in BOOLEAN /\ position \in Nat
  /\ stack \in Seq(Frames) /\ sched \in Seq(Frames)
  /\ entries \in [Slots -> [key : Nat, value : Outcomes \X Nat]]
  /\ open \in SUBSET (Slots \X Nat)
  /\ use \in Nat /\ fetch \in Nat /\ head \in BOOLEAN
  /\ free \in Seq(Slots) /\ ready \in Seq(Slots) /\ last \in {"none", "nil", "error"}

\* A pair is fetched by one handler at most, and not while Head says that the
\* iterator may be asked.  In diffused, whose slices do not end, the running
\* handler is the one, and it has a free task.
OneFetch ==
  /\ asked = Requests
  /\ Fetches + (IF head THEN 1 ELSE 0) <= 1
  /\ ~ Buffers =>
       /\ sched = <<>> /\ ~ preempt /\ ~ head
       /\ stack = <<>> \/ stack[1][1] \notin Fetch => Fetches = 0
       /\ Fetches = 1 => free # <<>>

PipeInv == Types /\ OneFetch

\* The slices of diffused do not end.
DiffusedWhole == \A c \in Cases : c.kind = "diffused" => ~ c.sliced

LEMMA CaseIs ==
  ASSUME case \in Cases
  PROVE  case.size \in Nat \ {0} /\ case.length \in Nat /\ 0 \in Slots
         /\ \A n \in Nat : n % case.size \in Slots
  <1>1. case.size \in Nat \ {0} /\ case.length \in Nat
    BY PipelineAssumption
  <1>2. \A n \in Nat : n % case.size \in 0 .. case.size - 1
    BY <1>1
  <1> QED
    BY <1>1, <1>2 DEF Slots

LEMMA FramesStay ==
  ASSUME case' = case
  PROVE  Slots' = Slots /\ Frames' = Frames /\ (Buffers' <=> Buffers)
  BY DEF Slots, Frames, Buffers

\* The numbers of handlers in the next state.
LEMMA NextNumbers ==
  /\ Fetches' = Number(stack', Fetch) + Number(sched', Fetch)
  /\ Requests' = Number(stack', {"iterate"}) + Number(sched', {"iterate"})
  BY DEF Fetches, Requests, Number, On, Fetch

LEMMA NumbersAre ==
  ASSUME Types
  PROVE  /\ \A H : Number(stack, H) \in Nat /\ Number(sched, H) \in Nat
         /\ Fetches \in Nat /\ Requests \in Nat /\ Requests <= Fetches
  <1>1. \A H : Number(stack, H) \in Nat /\ Number(sched, H) \in Nat
    BY NumberFinite DEF Types
  <1>2. {"iterate"} \subseteq Fetch
    BY DEF Fetch
  <1>3. /\ Number(stack, {"iterate"}) <= Number(stack, Fetch)
        /\ Number(sched, {"iterate"}) <= Number(sched, Fetch)
    BY <1>2, NumberLess DEF Types
  <1> QED
    BY <1>1, <1>3 DEF Fetches, Requests

\* The handler that runs is followed by f, above the handlers in rest.
Lands(f) ==
  /\ stack' \in Seq(Frames) /\ sched' \in Seq(Frames)
  /\ Fetches' = Fetches - One(stack[1], Fetch) + One(f, Fetch)
  /\ Requests' = Requests - One(stack[1], {"iterate"}) + One(f, {"iterate"})
  /\ ~ preempt => sched' = sched /\ stack' # <<>> /\ stack'[1] = f

\* It is followed by those below it.
Falls ==
  /\ stack' \in Seq(Frames) /\ sched' \in Seq(Frames)
  /\ Fetches' = Fetches - One(stack[1], Fetch)
  /\ Requests' = Requests - One(stack[1], {"iterate"})
  /\ sched' = sched

\* What may be left of the running handler.
Rests == {Tail(stack)} \union {Above(<<h, 0>>, Tail(stack)) : h \in {"rest", "give", "fetched"}}

LEMMA RestIs ==
  ASSUME Types, stack # <<>>, NEW rest \in Rests, NEW H, H \subseteq Fetch
  PROVE  /\ rest \in Seq(Frames)
         /\ Number(rest, H) = Number(stack, H) - One(stack[1], H)
         /\ Number(rest, H) \in Nat
  <1>1. /\ Tail(stack) \in Seq(Frames)
        /\ Number(stack, H) = Number(Tail(stack), H) + One(stack[1], H)
    BY TailNumber DEF Types
  <1>2. Number(Tail(stack), H) \in Nat /\ One(stack[1], H) \in {0, 1}
    BY <1>1, NumberFinite DEF One
  <1>3. CASE rest = Tail(stack)
    BY <1>1, <1>2, <1>3
  <1>4. ASSUME NEW h \in {"rest", "give", "fetched"}, rest = Above(<<h, 0>>, Tail(stack))
        PROVE  /\ rest \in Seq(Frames) /\ Number(rest, H) = Number(Tail(stack), H)
    <2>1. <<h, 0>> \in Frames
      BY DEF Frames
    <2>2. One(<<h, 0>>, H) = 0
      BY DEF One, Fetch
    <2>3. /\ rest \in Seq(Frames)
          /\ Number(rest, H) = Number(Tail(stack), H) + One(<<h, 0>>, H)
      BY <1>1, <1>4, <2>1, AboveNumber
    <2> QED
      BY <1>2, <2>2, <2>3
  <1> QED
    BY <1>1, <1>2, <1>3, <1>4 DEF Rests

LEMMA ContinueLands ==
  ASSUME Types, stack # <<>>, NEW rest \in Rests, NEW f \in Frames,
         Continue(f, rest) \/ Calls(f, rest)
  PROVE  Lands(f)
  <1> DEFINE T(H) == Number(rest, H) + Number(sched, H) + One(f, H)
  <1>1. /\ \A H : H \subseteq Fetch =>
             /\ Number(rest, H) = Number(stack, H) - One(stack[1], H)
             /\ Number(rest, H) \in Nat
        /\ rest \in Seq(Frames)
    BY RestIs
  <1>2. \A H : One(stack[1], H) \in {0, 1} /\ One(f, H) \in {0, 1}
    BY DEF One
  <1>3. \A H : Number(stack, H) \in Nat /\ Number(sched, H) \in Nat
    BY NumbersAre
  <1>4. \/ preempt /\ stack' = rest /\ sched' = Append(sched, f)
        \/ stack' = Above(f, rest) /\ sched' = sched
    BY DEF Continue, Calls, Above
  <1>5. /\ stack' \in Seq(Frames) /\ sched' \in Seq(Frames)
        /\ \A H : H \subseteq Fetch => Number(stack', H) + Number(sched', H) = T(H)
        /\ ~ preempt => sched' = sched /\ stack' # <<>> /\ stack'[1] = f
    <2>1. CASE preempt /\ stack' = rest /\ sched' = Append(sched, f)
      <3>1. /\ Append(sched, f) \in Seq(Frames)
            /\ \A H : Number(Append(sched, f), H) = Number(sched, H) + One(f, H)
        BY AppendNumber DEF Types
      <3> QED
        BY <1>1, <1>2, <1>3, <2>1, <3>1
    <2>2. CASE stack' = Above(f, rest) /\ sched' = sched
      <3>1. /\ Above(f, rest) \in Seq(Frames) /\ Above(f, rest) # <<>>
            /\ Above(f, rest)[1] = f
            /\ \A H : Number(Above(f, rest), H) = Number(rest, H) + One(f, H)
        BY <1>1, AboveNumber
      <3>2. ASSUME NEW H, H \subseteq Fetch
            PROVE  Number(stack', H) + Number(sched', H) = T(H)
        <4>1. Number(stack', H) = Number(rest, H) + One(f, H) /\ Number(sched', H) = Number(sched, H)
          BY <2>2, <3>1
        <4> QED
          BY <1>1, <1>2, <1>3, <3>2, <4>1
      <3> QED
        BY <2>2, <3>1, <3>2 DEF Types
    <2> QED
      BY <1>4, <2>1, <2>2
  <1> HIDE DEF T
  <1>6. Fetch \subseteq Fetch /\ {"iterate"} \subseteq Fetch
    BY DEF Fetch
  <1>7. Fetches' = T(Fetch) /\ Requests' = T({"iterate"})
    BY <1>5, <1>6, NextNumbers
  <1>8. /\ T(Fetch) = Fetches - One(stack[1], Fetch) + One(f, Fetch)
        /\ T({"iterate"}) = Requests - One(stack[1], {"iterate"}) + One(f, {"iterate"})
    BY <1>1, <1>2, <1>3, <1>6 DEF T, Fetches, Requests
  <1> QED
    BY <1>5, <1>7, <1>8 DEF Lands

LEMMA ReturnsFalls ==
  ASSUME Types, stack # <<>>, Returns
  PROVE  Falls
  <1>1. stack' = Tail(stack) /\ sched' = sched /\ Tail(stack) \in Rests
    BY DEF Returns, Rests
  <1>2. Fetch \subseteq Fetch /\ {"iterate"} \subseteq Fetch
    BY DEF Fetch
  <1>3. /\ Tail(stack) \in Seq(Frames)
        /\ Number(Tail(stack), Fetch) = Number(stack, Fetch) - One(stack[1], Fetch)
        /\ Number(Tail(stack), {"iterate"})
             = Number(stack, {"iterate"}) - One(stack[1], {"iterate"})
    BY <1>1, <1>2, RestIs
  <1>4. \A H : One(stack[1], H) \in {0, 1} /\ Number(stack, H) \in Nat /\ Number(sched, H) \in Nat
    BY NumbersAre DEF One
  <1>5. /\ Fetches' = Number(Tail(stack), Fetch) + Number(sched, Fetch)
        /\ Requests' = Number(Tail(stack), {"iterate"}) + Number(sched, {"iterate"})
    BY <1>1, NextNumbers
  <1>6. /\ Fetches' = Fetches - One(stack[1], Fetch)
        /\ Requests' = Requests - One(stack[1], {"iterate"})
    BY <1>3, <1>4, <1>5 DEF Fetches, Requests
  <1> QED
    BY <1>1, <1>3, <1>6 DEF Falls, Types

\* In diffused only the handler that runs can be fetching.
LEMMA RunningNumber ==
  ASSUME Types, OneFetch, stack # <<>>, ~ Buffers
  PROVE  Fetches = One(stack[1], Fetch)
  <1>1. stack[1][1] \notin Fetch => Fetches = 0
    BY DEF OneFetch
  <1>2. Fetches \in Nat /\ Fetches <= 1
    BY NumbersAre DEF OneFetch
  <1>3. /\ Number(Tail(stack), Fetch) \in Nat /\ Number(sched, Fetch) \in Nat
        /\ Number(stack, Fetch) = Number(Tail(stack), Fetch) + One(stack[1], Fetch)
    BY TailNumber, NumberFinite DEF Types
  <1>4. Fetches >= One(stack[1], Fetch)
    BY <1>3 DEF Fetches, One
  <1> QED
    BY <1>1, <1>2, <1>4 DEF One
------------------------------------------------------------------------------
(* Every step keeps the invariant.                                          *)

\* The arguments of the running handler.
LEMMA RunningIs ==
  ASSUME Types, NEW h, Runs(h)
  PROVE  /\ stack # <<>> /\ stack[1] \in Frames /\ stack[1][1] = h
         /\ h \in {"key", "value"} => Arg \in Nat
         /\ h = "iterate" => Arg \in {"iter", "nil", "error"}
         /\ h = "call" => Arg \in Slots
         /\ h = "entry" => /\ Arg[1] \in Slots /\ Arg[2] \in Outcomes \X Nat
                           /\ Arg = <<Arg[1], Arg[2]>>
         /\ h = "consumer" => Arg \in Outcomes \union {"state"}
         /\ \A H : One(stack[1], H) = IF h \in H THEN 1 ELSE 0
  <1>1. stack # <<>> /\ stack[1][1] = h
    BY DEF Runs
  <1>2. stack[1] \in Frames
    BY <1>1, TailNumber DEF Types
  <1> QED
    BY <1>1, <1>2 DEF Frames, Arg, One

LEMMA TypesAre ==
  ASSUME case \in Cases, case' = case, preempt' \in BOOLEAN, position' \in Nat,
         stack' \in Seq(Frames), sched' \in Seq(Frames),
         entries' \in [Slots -> [key : Nat, value : Outcomes \X Nat]],
         open' \in SUBSET (Slots \X Nat),
         use' \in Nat, fetch' \in Nat, head' \in BOOLEAN,
         free' \in Seq(Slots), ready' \in Seq(Slots), last' \in {"none", "nil", "error"}
  PROVE  Types'
  BY FramesStay DEF Types

\* The handler that runs is followed by f.
LEMMA OneFetchLands ==
  ASSUME PipeInv, stack # <<>>, NEW f \in Frames, Lands(f),
         case' = case, preempt' = preempt,
         asked' = asked - One(stack[1], {"iterate"}) + One(f, {"iterate"}),
         Buffers => One(f, Fetch) + (IF head' THEN 1 ELSE 0)
                      <= One(stack[1], Fetch) + (IF head THEN 1 ELSE 0),
         ~ Buffers => head' = head /\ (f[1] \in Fetch => free' # <<>>)
  PROVE  OneFetch'
  <1>1. Fetches \in Nat /\ Requests \in Nat
    BY NumbersAre DEF PipeInv
  <1>2. /\ One(stack[1], Fetch) \in {0, 1} /\ One(f, Fetch) \in {0, 1}
        /\ One(f, Fetch) = 1 <=> f[1] \in Fetch
    BY DEF One
  <1>3. asked' = Requests'
    BY DEF Lands, PipeInv, OneFetch
  <1>4. Buffers' <=> Buffers
    BY FramesStay
  <1>5. CASE Buffers
    BY <1>1, <1>2, <1>3, <1>4, <1>5 DEF Lands, PipeInv, OneFetch
  <1>6. CASE ~ Buffers
    <2>1. Fetches = One(stack[1], Fetch)
      BY <1>1, <1>6, RunningNumber DEF PipeInv
    <2>2. Fetches' = One(f, Fetch)
      BY <1>2, <2>1 DEF Lands
    <2>3. /\ ~ preempt /\ ~ head /\ sched = <<>>
          /\ stack' # <<>> /\ stack'[1] = f /\ sched' = sched
      BY <1>6 DEF PipeInv, OneFetch, Lands
    <2> QED
      BY <1>2, <1>3, <1>4, <1>6, <2>2, <2>3 DEF OneFetch
  <1> QED
    BY <1>5, <1>6

\* It is followed by what is below it.
LEMMA OneFetchFalls ==
  ASSUME PipeInv, stack # <<>>, Falls, case' = case, preempt' = preempt,
         asked' = asked - One(stack[1], {"iterate"}),
         Buffers => (IF head' THEN 1 ELSE 0)
                      <= One(stack[1], Fetch) + (IF head THEN 1 ELSE 0),
         ~ Buffers => head' = head
  PROVE  OneFetch'
  <1>1. Fetches \in Nat /\ Requests \in Nat
    BY NumbersAre DEF PipeInv
  <1>2. One(stack[1], Fetch) \in {0, 1}
    BY DEF One
  <1>3. asked' = Requests'
    BY DEF Falls, PipeInv, OneFetch
  <1>4. Buffers' <=> Buffers
    BY FramesStay
  <1>5. CASE Buffers
    BY <1>1, <1>2, <1>3, <1>4, <1>5 DEF Falls, PipeInv, OneFetch
  <1>6. CASE ~ Buffers
    <2>1. Fetches = One(stack[1], Fetch)
      BY <1>1, <1>6, RunningNumber DEF PipeInv
    <2>2. Fetches' = 0
      BY <1>2, <2>1 DEF Falls
    <2>3. ~ preempt /\ ~ head /\ sched = <<>> /\ sched' = sched
      BY <1>6 DEF PipeInv, OneFetch, Falls
    <2> QED
      BY <1>3, <1>4, <1>6, <2>2, <2>3 DEF OneFetch
  <1> QED
    BY <1>5, <1>6

\* A handler of H is entered.
Enters(H) == \E f \in Frames : f[1] \in H /\ Lands(f)

\* The iterator is asked.
Asks == position' \in Nat /\ asked' = asked + 1 /\ Enters({"iterate"})

LEMMA AskIterAsks ==
  ASSUME Types, stack # <<>>, NEW rest \in Rests, AskIter(rest)
  PROVE  Asks
  <1>1. position' \in Nat /\ asked' = asked + 1
    BY DEF AskIter, Types
  <1>2. PICK x \in {"iter", "nil", "error"} : Continue(<<"iterate", x>>, rest)
    BY DEF AskIter
  <1>3. <<"iterate", x>> \in Frames
    BY DEF Frames
  <1> QED
    BY <1>1, <1>2, <1>3, ContinueLands DEF Asks, Enters

LEMMA ReadsEnters ==
  ASSUME Types, stack # <<>>, NEW h \in {"key", "value"}, Reads(h)
  PROVE  Enters({h})
  <1>1. PICK k \in Nat : Continue(<<h, k>>, Tail(stack))
    BY DEF Reads, Types
  <1>2. <<h, k>> \in Frames /\ Tail(stack) \in Rests
    BY DEF Frames, Rests
  <1> QED
    BY <1>1, <1>2, ContinueLands DEF Enters

LEMMA CallFnEnters ==
  ASSUME Types, stack # <<>>, NEW s \in Slots, NEW p \in Nat, CallFn(s, p)
  PROVE  open' \in SUBSET (Slots \X Nat) /\ Enters({"entry", "rest"})
  <1> DEFINE rest == Above(<<"rest", 0>>, Tail(stack))
  <1>1. rest \in Rests /\ Tail(stack) \in Rests /\ <<"rest", 0>> \in Frames
    BY DEF Rests, Frames
  <1>2. CASE /\ \E x \in {"result", "failed"} :
                  Continue(<<"entry", <<s, <<x, p>>>>>>, << <<"rest", 0>> >> \o Tail(stack))
             /\ UNCHANGED open
    <2>1. PICK x \in {"result", "failed"} : Continue(<<"entry", <<s, <<x, p>>>>>>, rest)
      BY <1>2 DEF Above
    <2>2. <<"entry", <<s, <<x, p>>>>>> \in Frames
      BY DEF Frames, Outcomes
    <2>3. Lands(<<"entry", <<s, <<x, p>>>>>>)
      BY <1>1, <2>1, <2>2, ContinueLands
    <2> QED
      BY <1>2, <2>2, <2>3 DEF Enters, Types
  <1>3. CASE open' = open \union {<<s, p>>} /\ Calls(<<"rest", 0>>, Tail(stack))
    <2>1. Lands(<<"rest", 0>>)
      BY <1>1, <1>3, ContinueLands
    <2> QED
      BY <1>1, <1>3, <2>1 DEF Enters, Types
  <1> QED
    BY <1>2, <1>3 DEF CallFn

\* A handler that does not fetch is entered.
LEMMA EntersOther ==
  ASSUME PipeInv, stack # <<>>, NEW H, H \intersect Fetch = {}, Enters(H),
         case' = case, preempt' = preempt,
         asked' = asked - One(stack[1], {"iterate"}),
         Buffers => (IF head' THEN 1 ELSE 0)
                      <= One(stack[1], Fetch) + (IF head THEN 1 ELSE 0),
         ~ Buffers => head' = head
  PROVE  OneFetch' /\ stack' \in Seq(Frames) /\ sched' \in Seq(Frames)
  <1>1. PICK f \in Frames : f[1] \in H /\ Lands(f)
    BY DEF Enters
  <1>2. f[1] \notin Fetch /\ f[1] \notin {"iterate"}
    BY <1>1 DEF Fetch
  <1>3. One(f, Fetch) = 0 /\ One(f, {"iterate"}) = 0
    BY <1>2 DEF One
  <1>4. One(stack[1], {"iterate"}) \in {0, 1} /\ One(stack[1], Fetch) \in {0, 1}
    BY DEF One
  <1>5. asked \in Nat
    BY NumbersAre DEF PipeInv, OneFetch
  <1>6. /\ asked' = asked - One(stack[1], {"iterate"}) + One(f, {"iterate"})
        /\ Buffers => One(f, Fetch) + (IF head' THEN 1 ELSE 0)
                        <= One(stack[1], Fetch) + (IF head THEN 1 ELSE 0)
    BY <1>3, <1>4, <1>5
  <1>7. OneFetch'
    BY <1>1, <1>2, <1>6, OneFetchLands
  <1> QED
    BY <1>1, <1>7 DEF Lands

\* The iterator is asked by a handler that does not fetch.
LEMMA AsksFetch ==
  ASSUME PipeInv, stack # <<>>, stack[1][1] \notin Fetch, Asks,
         case' = case, preempt' = preempt,
         Buffers => head /\ ~ head', head' \in BOOLEAN,
         ~ Buffers => head' = head /\ free' # <<>>
  PROVE  OneFetch' /\ stack' \in Seq(Frames) /\ sched' \in Seq(Frames)
  <1>1. PICK f \in Frames : f[1] \in {"iterate"} /\ Lands(f)
    BY DEF Asks, Enters
  <1>2. /\ One(f, Fetch) = 1 /\ One(f, {"iterate"}) = 1
        /\ One(stack[1], Fetch) = 0 /\ One(stack[1], {"iterate"}) = 0
    BY <1>1 DEF One, Fetch
  <1>3. asked \in Nat
    BY NumbersAre DEF PipeInv, OneFetch
  <1>4. asked' = asked - One(stack[1], {"iterate"}) + One(f, {"iterate"})
    BY <1>2, <1>3 DEF Asks
  <1>5. OneFetch'
    BY <1>1, <1>2, <1>4, OneFetchLands
  <1> QED
    BY <1>1, <1>5 DEF Lands

\* The pair at the iterator is read by a handler that fetches.
LEMMA ReadsFetch ==
  ASSUME PipeInv, stack # <<>>, stack[1][1] \in Fetch, NEW h \in {"key", "value"},
         Enters({h}), case' = case, preempt' = preempt, head' = head,
         asked' = asked - One(stack[1], {"iterate"}), free' = free
  PROVE  OneFetch' /\ stack' \in Seq(Frames) /\ sched' \in Seq(Frames)
  <1>1. PICK f \in Frames : f[1] = h /\ Lands(f)
    BY DEF Enters
  <1>2. One(f, Fetch) = 1 /\ One(f, {"iterate"}) = 0 /\ One(stack[1], Fetch) = 1
    BY <1>1 DEF One, Fetch
  <1>3. asked \in Nat /\ One(stack[1], {"iterate"}) \in {0, 1}
    BY NumbersAre DEF PipeInv, OneFetch, One
  <1>4. asked' = asked - One(stack[1], {"iterate"}) + One(f, {"iterate"})
    BY <1>2, <1>3
  <1>5. ~ Buffers => free # <<>>
    BY <1>2, RunningNumber DEF PipeInv, OneFetch
  <1>6. OneFetch'
    BY <1>1, <1>2, <1>4, <1>5, OneFetchLands
  <1> QED
    BY <1>1, <1>6 DEF Lands

LEMMA FallsTypes ==
  ASSUME Falls
  PROVE  stack' \in Seq(Frames) /\ sched' \in Seq(Frames)
  BY DEF Falls
------------------------------------------------------------------------------
(* The handlers of buffered.                                                 *)

LEMMA EndsEnters ==
  ASSUME Types, stack # <<>>, NEW x \in {"nil", "error"}, Ends(x)
  PROVE  /\ fetch' \in Nat /\ entries' \in [Slots -> [key : Nat, value : Outcomes \X Nat]]
         /\ Enters({"entry"})
  <1> DEFINE s == Slot(fetch)
  <1>1. s \in Slots
    BY CaseIs DEF Types, Slot
  <1> HIDE DEF s
  <1>2. fetch' \in Nat /\ entries' = [entries EXCEPT ![s].key = 0]
        /\ Calls(<<"entry", <<s, <<x, 0>>>>>>, Tail(stack))
    BY DEF Ends, Types, s
  <1>3. entries' \in [Slots -> [key : Nat, value : Outcomes \X Nat]]
    BY <1>1, <1>2 DEF Types
  <1>4. <<"entry", <<s, <<x, 0>>>>>> \in Frames /\ Tail(stack) \in Rests
    BY <1>1 DEF Frames, Outcomes, Rests
  <1>5. Lands(<<"entry", <<s, <<x, 0>>>>>>)
    BY <1>2, <1>4, ContinueLands
  <1> QED
    BY <1>2, <1>3, <1>4, <1>5 DEF Enters

LEMMA BufferedIterateInv ==
  ASSUME PipeInv, Buffers, BufferedIterate, UNCHANGED lists
  PROVE  PipeInv'
  <1>1. /\ stack # <<>> /\ stack[1][1] = "iterate" /\ Arg \in {"iter", "nil", "error"}
        /\ One(stack[1], Fetch) = 1 /\ One(stack[1], {"iterate"}) = 1
    BY RunningIs DEF PipeInv, BufferedIterate, Fetch
  <1>2. /\ asked' = asked - 1 /\ case' = case /\ preempt' = preempt /\ position' = position
        /\ open' = open /\ use' = use /\ head' = head /\ free' = free /\ ready' = ready
        /\ last' = last
    BY DEF BufferedIterate, lists
  <1>3. /\ OneFetch' /\ stack' \in Seq(Frames) /\ sched' \in Seq(Frames)
        /\ fetch' \in Nat /\ entries' \in [Slots -> [key : Nat, value : Outcomes \X Nat]]
    <2>1. CASE Reads("key") /\ UNCHANGED <<entries, fetch>>
      BY <1>1, <1>2, <2>1, ReadsEnters, ReadsFetch DEF PipeInv, Types, Fetch
    <2>2. CASE Arg # "iter" /\ Ends(Arg)
      <3>1. /\ Enters({"entry"}) /\ fetch' \in Nat
            /\ entries' \in [Slots -> [key : Nat, value : Outcomes \X Nat]]
        BY <1>1, <2>2, EndsEnters DEF PipeInv
      <3>2. {"entry"} \intersect Fetch = {} /\ head \in BOOLEAN
        BY DEF Fetch, PipeInv, Types
      <3> QED
        BY <1>1, <1>2, <3>1, <3>2, EntersOther
    <2> QED
      BY <2>1, <2>2 DEF BufferedIterate
  <1> QED
    BY <1>2, <1>3, TypesAre DEF PipeInv, Types

LEMMA BufferedKeyInv ==
  ASSUME PipeInv, Buffers, BufferedKey, UNCHANGED lists
  PROVE  PipeInv'
  <1>1. /\ stack # <<>> /\ stack[1][1] = "key" /\ Arg \in Nat
        /\ One(stack[1], Fetch) = 1 /\ One(stack[1], {"iterate"}) = 0
    BY RunningIs DEF PipeInv, BufferedKey, Fetch
  <1>2. /\ asked' = asked /\ case' = case /\ preempt' = preempt /\ position' = position
        /\ open' = open /\ use' = use /\ head' = head /\ free' = free /\ ready' = ready
        /\ last' = last
    BY DEF BufferedKey, lists
  <1>3. asked \in Nat /\ asked' = asked - One(stack[1], {"iterate"})
    BY <1>1, <1>2, NumbersAre DEF PipeInv, OneFetch
  <1>4. /\ OneFetch' /\ stack' \in Seq(Frames) /\ sched' \in Seq(Frames)
        /\ fetch' \in Nat /\ entries' \in [Slots -> [key : Nat, value : Outcomes \X Nat]]
    <2>1. CASE /\ entries' = [entries EXCEPT ![Slot(fetch)].key = Arg]
               /\ Reads("value") /\ UNCHANGED fetch
      <3>1. Slot(fetch) \in Slots
        BY CaseIs DEF PipeInv, Types, Slot
      <3>2. entries' \in [Slots -> [key : Nat, value : Outcomes \X Nat]]
        BY <1>1, <2>1, <3>1 DEF PipeInv, Types
      <3> QED
        BY <1>1, <1>2, <1>3, <2>1, <3>2, ReadsEnters, ReadsFetch DEF PipeInv, Types, Fetch
    <2>2. CASE Ends("error")
      <3>1. /\ Enters({"entry"}) /\ fetch' \in Nat
            /\ entries' \in [Slots -> [key : Nat, value : Outcomes \X Nat]]
        BY <1>1, <2>2, EndsEnters DEF PipeInv
      <3>2. {"entry"} \intersect Fetch = {} /\ head \in BOOLEAN
        BY DEF Fetch, PipeInv, Types
      <3> QED
        BY <1>1, <1>2, <1>3, <3>1, <3>2, EntersOther
    <2> QED
      BY <2>1, <2>2 DEF BufferedKey
  <1> QED
    BY <1>2, <1>4, TypesAre DEF PipeInv, Types

LEMMA BufferedValueInv ==
  ASSUME PipeInv, Buffers, BufferedValue, UNCHANGED lists
  PROVE  PipeInv'
  <1>1. /\ stack # <<>> /\ stack[1][1] = "value" /\ Arg \in Nat
        /\ One(stack[1], Fetch) = 1 /\ One(stack[1], {"iterate"}) = 0
    BY RunningIs DEF PipeInv, BufferedValue, Fetch
  <1>2. /\ asked' = asked /\ case' = case /\ preempt' = preempt /\ position' = position
        /\ use' = use /\ free' = free /\ ready' = ready /\ last' = last
    BY DEF BufferedValue, lists
  <1>3. asked \in Nat /\ asked' = asked - One(stack[1], {"iterate"})
    BY <1>1, <1>2, NumbersAre DEF PipeInv, OneFetch
  <1>4. ~ head
    <2>1. Fetches = 0 => stack[1][1] \notin Fetch
      <3>1. /\ Number(Tail(stack), Fetch) \in Nat /\ Number(sched, Fetch) \in Nat
            /\ Number(stack, Fetch) = Number(Tail(stack), Fetch) + One(stack[1], Fetch)
        BY <1>1, TailNumber, NumberFinite DEF PipeInv, Types
      <3> QED
        BY <1>1, <3>1 DEF Fetches
    <2> QED
      BY <1>1, <2>1, NumbersAre DEF PipeInv, OneFetch, Fetch
  <1>5. /\ OneFetch' /\ stack' \in Seq(Frames) /\ sched' \in Seq(Frames)
        /\ fetch' \in Nat /\ entries' \in [Slots -> [key : Nat, value : Outcomes \X Nat]]
        /\ open' \in SUBSET (Slots \X Nat) /\ head' \in BOOLEAN
    <2>1. CASE /\ head' = TRUE /\ fetch' = fetch + 1
               /\ CallFn(Slot(fetch), Arg) /\ UNCHANGED entries
      <3>1. Slot(fetch) \in Slots
        BY CaseIs DEF PipeInv, Types, Slot
      <3>2. open' \in SUBSET (Slots \X Nat) /\ Enters({"entry", "rest"})
        BY <1>1, <2>1, <3>1, CallFnEnters DEF PipeInv
      <3>3. {"entry", "rest"} \intersect Fetch = {}
        BY DEF Fetch
      <3>4. OneFetch' /\ stack' \in Seq(Frames) /\ sched' \in Seq(Frames)
        BY <1>1, <1>2, <1>3, <1>4, <2>1, <3>2, <3>3, EntersOther
      <3> QED
        BY <2>1, <3>2, <3>4 DEF PipeInv, Types
    <2>2. CASE Ends("error") /\ UNCHANGED <<open, head>>
      <3>1. /\ Enters({"entry"}) /\ fetch' \in Nat
            /\ entries' \in [Slots -> [key : Nat, value : Outcomes \X Nat]]
        BY <1>1, <2>2, EndsEnters DEF PipeInv
      <3>2. {"entry"} \intersect Fetch = {} /\ head' \in BOOLEAN
            /\ open' \in SUBSET (Slots \X Nat)
        BY <2>2 DEF Fetch, PipeInv, Types
      <3> QED
        BY <1>1, <1>2, <1>3, <1>4, <2>2, <3>1, <3>2, EntersOther
    <2> QED
      BY <2>1, <2>2 DEF BufferedValue
  <1> QED
    BY <1>2, <1>5, TypesAre DEF PipeInv, Types

\* The iterator is asked because Head allows it.
LEMMA FetchNextInv ==
  ASSUME PipeInv, Buffers, stack # <<>>, stack[1][1] \notin Fetch,
         NEW rest \in Rests, FetchNext(rest), case' = case, preempt' = preempt
  PROVE  /\ OneFetch' /\ stack' \in Seq(Frames) /\ sched' \in Seq(Frames)
         /\ position' \in Nat /\ head' \in BOOLEAN
  <1>1. head /\ head' = FALSE /\ AskIter(rest)
    BY DEF FetchNext
  <1>2. Asks
    BY <1>1, AskIterAsks DEF PipeInv
  <1> QED
    BY <1>1, <1>2, AsksFetch DEF Asks

LEMMA BufferedRestInv ==
  ASSUME PipeInv, Buffers, BufferedRest, UNCHANGED lists
  PROVE  PipeInv'
  <1>1. /\ stack # <<>> /\ stack[1][1] = "rest" /\ stack[1][1] \notin Fetch
        /\ One(stack[1], Fetch) = 0 /\ One(stack[1], {"iterate"}) = 0
    BY RunningIs DEF PipeInv, BufferedRest, Fetch
  <1>2. /\ case' = case /\ preempt' = preempt /\ entries' = entries /\ open' = open
        /\ use' = use /\ fetch' = fetch /\ free' = free /\ ready' = ready /\ last' = last
    BY DEF BufferedRest, lists
  <1>3. /\ OneFetch' /\ stack' \in Seq(Frames) /\ sched' \in Seq(Frames)
        /\ position' \in Nat /\ head' \in BOOLEAN
    <2>1. CASE FetchNext(Tail(stack))
      <3>1. Tail(stack) \in Rests
        BY DEF Rests
      <3> QED
        BY <1>1, <1>2, <2>1, <3>1, FetchNextInv
    <2>2. CASE Returns /\ UNCHANGED <<position, asked, head>>
      <3>1. Falls
        BY <1>1, <2>2, ReturnsFalls DEF PipeInv
      <3>2. asked \in Nat /\ head \in BOOLEAN /\ position \in Nat
        BY NumbersAre DEF PipeInv, OneFetch, Types
      <3>3. asked' = asked - One(stack[1], {"iterate"})
        BY <1>1, <2>2, <3>2
      <3> QED
        BY <1>1, <1>2, <2>2, <3>1, <3>2, <3>3, OneFetchFalls, FallsTypes
    <2> QED
      BY <2>1, <2>2 DEF BufferedRest
  <1> QED
    BY <1>2, <1>3, TypesAre DEF PipeInv, Types

\* A handler that does not fetch ends, in any way that asks for nothing.
LEMMA QuietStep ==
  ASSUME PipeInv, stack # <<>>, stack[1][1] \notin Fetch, case' = case, preempt' = preempt,
         asked' = asked, head' = head,
         Falls \/ \E H : H \intersect Fetch = {} /\ Enters(H)
  PROVE  OneFetch' /\ stack' \in Seq(Frames) /\ sched' \in Seq(Frames)
  <1>1. One(stack[1], Fetch) = 0 /\ One(stack[1], {"iterate"}) = 0
    BY DEF One, Fetch
  <1>2. asked \in Nat
    BY NumbersAre DEF PipeInv, OneFetch
  <1>3. asked' = asked - One(stack[1], {"iterate"})
    BY <1>1, <1>2
  <1>4. /\ (IF head' THEN 1 ELSE 0) <= One(stack[1], Fetch) + (IF head THEN 1 ELSE 0)
    BY <1>1
  <1> QED
    BY <1>3, <1>4, EntersOther, OneFetchFalls, FallsTypes

LEMMA CallsQuiet ==
  ASSUME Types, stack # <<>>, NEW f \in Frames, f[1] \notin Fetch,
         Calls(f, Tail(stack)) \/ Continue(f, Tail(stack))
  PROVE  \E H : H \intersect Fetch = {} /\ Enters(H)
  <1>1. Tail(stack) \in Rests
    BY DEF Rests
  <1>2. Lands(f)
    BY <1>1, ContinueLands
  <1> QED
    BY <1>2 DEF Enters

LEMMA BufferedEntryInv ==
  ASSUME PipeInv, Buffers, BufferedEntry, UNCHANGED lists
  PROVE  PipeInv'
  <1> DEFINE s == Arg[1]
             v == Arg[2]
  <1>1. /\ stack # <<>> /\ stack[1][1] = "entry" /\ s \in Slots /\ v \in Outcomes \X Nat
    BY RunningIs DEF PipeInv, BufferedEntry
  <1>2. /\ case' = case /\ preempt' = preempt /\ position' = position /\ asked' = asked
        /\ open' = open /\ use' = use /\ fetch' = fetch /\ head' = head
        /\ free' = free /\ ready' = ready /\ last' = last
    BY DEF BufferedEntry, lists, own
  <1>3. /\ entries' = [entries EXCEPT ![s].value = v]
        /\ Calls(<<"call", s>>, Tail(stack)) \/ Returns
    BY DEF BufferedEntry
  <1> HIDE DEF s, v
  <1>4. entries' \in [Slots -> [key : Nat, value : Outcomes \X Nat]]
    BY <1>1, <1>3 DEF PipeInv, Types
  <1>5. Falls \/ \E H : H \intersect Fetch = {} /\ Enters(H)
    <2>1. <<"call", s>> \in Frames /\ "call" \notin Fetch
      BY <1>1 DEF Frames, Fetch
    <2> QED
      BY <1>1, <1>3, <2>1, CallsQuiet, ReturnsFalls DEF PipeInv
  <1>6. OneFetch' /\ stack' \in Seq(Frames) /\ sched' \in Seq(Frames)
    <2>1. stack[1][1] \notin Fetch
      BY <1>1 DEF Fetch
    <2> QED
      BY <1>1, <1>2, <1>5, <2>1, QuietStep
  <1> QED
    BY <1>2, <1>4, <1>6, TypesAre DEF PipeInv, Types

LEMMA BufferedCallInv ==
  ASSUME PipeInv, Buffers, BufferedCall, UNCHANGED lists
  PROVE  PipeInv'
  <1> DEFINE e == entries[Arg]
  <1>1. /\ stack # <<>> /\ stack[1][1] = "call" /\ Arg \in Slots
        /\ stack[1][1] \notin Fetch
    BY RunningIs DEF PipeInv, BufferedCall, Fetch
  <1>2. /\ case' = case /\ preempt' = preempt /\ open' = open
        /\ free' = free /\ ready' = ready /\ last' = last
    BY DEF BufferedCall, lists
  <1>3. e \in [key : Nat, value : Outcomes \X Nat]
    BY <1>1 DEF PipeInv, Types
  <1> HIDE DEF e
  <1>4. "consumer" \notin Fetch /\ <<"consumer", "state">> \in Frames
        /\ <<"consumer", e.value[1]>> \in Frames
    BY <1>3 DEF Frames, Fetch
  <1>5. /\ OneFetch' /\ stack' \in Seq(Frames) /\ sched' \in Seq(Frames)
        /\ position' \in Nat /\ head' \in BOOLEAN /\ use' \in Nat /\ fetch' \in Nat
        /\ entries' \in [Slots -> [key : Nat, value : Outcomes \X Nat]]
    <2>1. CASE /\ Continue(<<"consumer", e.value[1]>>, Tail(stack))
               /\ UNCHANGED <<position, asked, entries, own>>
      <3>1. \E H : H \intersect Fetch = {} /\ Enters(H)
        BY <1>1, <1>4, <2>1, CallsQuiet DEF PipeInv
      <3>2. asked' = asked /\ head' = head /\ position' = position /\ entries' = entries
            /\ use' = use /\ fetch' = fetch
        BY <2>1 DEF own
      <3>3. OneFetch' /\ stack' \in Seq(Frames) /\ sched' \in Seq(Frames)
        BY <1>1, <1>2, <3>1, <3>2, QuietStep
      <3> QED
        BY <3>2, <3>3 DEF PipeInv, Types
    <2>2. CASE /\ entries' = [entries EXCEPT ![Arg] = Empty]
               /\ use' = use + 1 /\ UNCHANGED fetch
               /\ \/ FetchNext(<< <<"give", 0>> >> \o Tail(stack))
                  \/ /\ Continue(<<"consumer", "state">>, Tail(stack))
                     /\ UNCHANGED <<position, asked, head>>
      <3>1. /\ entries' \in [Slots -> [key : Nat, value : Outcomes \X Nat]]
            /\ use' \in Nat /\ fetch' \in Nat
        <4>1. Empty \in [key : Nat, value : Outcomes \X Nat]
          BY DEF Empty, Outcomes
        <4>2. /\ entries \in [Slots -> [key : Nat, value : Outcomes \X Nat]]
              /\ use \in Nat /\ fetch \in Nat
          BY <1>1 DEF PipeInv, Types
        <4>3. use' = use + 1 /\ fetch' = fetch /\ entries' = [entries EXCEPT ![Arg] = Empty]
          BY <2>2
        <4>4. entries' \in [Slots -> [key : Nat, value : Outcomes \X Nat]]
          <5> DEFINE T == [key : Nat, value : Outcomes \X Nat]
          <5>1. entries \in [Slots -> T] /\ Empty \in T
            BY <4>1, <4>2
          <5> HIDE DEF T
          <5>2. entries' \in [Slots -> T]
            BY <4>3, <5>1
          <5> QED
            BY <5>2 DEF T
        <4> QED
          BY <4>2, <4>3, <4>4
      <3>2. CASE FetchNext(<< <<"give", 0>> >> \o Tail(stack))
        <4>1. << <<"give", 0>> >> \o Tail(stack) \in Rests
          BY DEF Rests, Above
        <4> QED
          BY <1>1, <1>2, <3>1, <3>2, <4>1, FetchNextInv
      <3>3. CASE /\ Continue(<<"consumer", "state">>, Tail(stack))
                 /\ UNCHANGED <<position, asked, head>>
        <4>1. \E H : H \intersect Fetch = {} /\ Enters(H)
          BY <1>1, <1>4, <3>3, CallsQuiet DEF PipeInv
        <4>2. OneFetch' /\ stack' \in Seq(Frames) /\ sched' \in Seq(Frames)
          BY <1>1, <1>2, <3>3, <4>1, QuietStep
        <4> QED
          BY <3>1, <3>3, <4>2 DEF PipeInv, Types
      <3> QED
        BY <2>2, <3>2, <3>3
    <2> QED
      BY <2>1, <2>2 DEF BufferedCall, e
  <1> QED
    BY <1>2, <1>5, TypesAre DEF PipeInv, Types

\* A handler that does not fetch changes no more than what the consumer has.
LEMMA QuietInv ==
  ASSUME PipeInv, stack # <<>>, stack[1][1] \notin Fetch,
         UNCHANGED <<case, preempt, position, asked, entries, open, use, fetch, head,
                     free, ready, last>>,
         Falls \/ \E H : H \intersect Fetch = {} /\ Enters(H)
  PROVE  PipeInv'
  <1>1. /\ case' = case /\ preempt' = preempt /\ position' = position /\ asked' = asked
        /\ entries' = entries /\ open' = open /\ use' = use /\ fetch' = fetch
        /\ head' = head /\ free' = free /\ ready' = ready /\ last' = last
    OBVIOUS
  <1>2. OneFetch' /\ stack' \in Seq(Frames) /\ sched' \in Seq(Frames)
    BY <1>1, QuietStep
  <1> QED
    BY <1>1, <1>2, TypesAre DEF PipeInv, Types

LEMMA BufferedGiveInv ==
  ASSUME PipeInv, Buffers, BufferedGive, UNCHANGED lists
  PROVE  PipeInv'
  <1>1. /\ stack # <<>> /\ stack[1][1] \notin Fetch
        /\ <<"consumer", "state">> \in Frames /\ "consumer" \notin Fetch
    BY RunningIs DEF PipeInv, BufferedGive, Fetch, Frames
  <1>2. \E H : H \intersect Fetch = {} /\ Enters(H)
    BY <1>1, CallsQuiet DEF BufferedGive, PipeInv
  <1>3. UNCHANGED <<case, preempt, position, asked, entries, open, use, fetch, head,
                    free, ready, last>>
    BY DEF BufferedGive, own, lists
  <1> QED
    BY <1>1, <1>2, <1>3, QuietInv

LEMMA BufferedNextInv ==
  ASSUME PipeInv, Buffers, BufferedNext, UNCHANGED lists
  PROVE  PipeInv'
  <1>1. stack # <<>> /\ stack[1][1] \notin Fetch
    BY RunningIs DEF PipeInv, BufferedNext, Fetch
  <1>2. <<"call", Slot(use)>> \in Frames /\ "call" \notin Fetch
    BY CaseIs DEF PipeInv, Types, Slot, Frames, Fetch
  <1>3. Falls \/ \E H : H \intersect Fetch = {} /\ Enters(H)
    BY <1>1, <1>2, CallsQuiet, ReturnsFalls DEF BufferedNext, PipeInv
  <1>4. UNCHANGED <<case, preempt, position, asked, entries, open, use, fetch, head,
                    free, ready, last>>
    BY DEF BufferedNext, own, lists
  <1> QED
    BY <1>1, <1>3, <1>4, QuietInv

\* The consumer runs.
LEMMA ConsumerInv ==
  ASSUME PipeInv, Runs("consumer"), UNCHANGED <<own, lists>>,
         Finish \/ \E pair : Take(pair)
  PROVE  PipeInv'
  <1>1. stack # <<>> /\ stack[1][1] \notin Fetch
    BY RunningIs DEF PipeInv, Fetch
  <1>2. <<"next", 0>> \in Frames /\ "next" \notin Fetch
    BY DEF Frames, Fetch
  <1>3. Falls \/ \E H : H \intersect Fetch = {} /\ Enters(H)
    BY <1>1, <1>2, CallsQuiet, ReturnsFalls DEF Take, Finish, PipeInv
  <1>4. UNCHANGED <<case, preempt, position, asked, entries, open, use, fetch, head,
                    free, ready, last>>
    BY DEF Take, Finish, own, lists
  <1> QED
    BY <1>1, <1>3, <1>4, QuietInv

LEMMA BufferedStepInv ==
  ASSUME PipeInv, Buffers, BufferedStep, UNCHANGED lists
  PROVE  PipeInv'
  <1>1. CASE BufferedConsumer
    BY <1>1, ConsumerInv DEF BufferedConsumer
  <1> QED
    BY <1>1, BufferedIterateInv, BufferedKeyInv, BufferedValueInv, BufferedRestInv,
       BufferedEntryInv, BufferedCallInv, BufferedGiveInv, BufferedNextInv
    DEF BufferedStep
------------------------------------------------------------------------------
(* The handlers of diffused.                                                 *)

\* The consumer is told x, or nobody is.
LEMMA TellsQuiet ==
  ASSUME Types, stack # <<>>, NEW x \in {"nil", "error", "state"}, Tells(x)
  PROVE  Falls \/ Enters({"consumer"})
  <1>1. <<"consumer", x>> \in Frames /\ Tail(stack) \in Rests
    BY DEF Frames, Outcomes, Rests
  <1> QED
    BY <1>1, ContinueLands, ReturnsFalls DEF Tells, Enters

LEMMA GivesQuiet ==
  ASSUME Types, stack # <<>>, Gives
  PROVE  Falls \/ Enters({"consumer"})
  <1>1. <<"consumer", "state">> \in Frames /\ Tail(stack) \in Rests
    BY DEF Frames, Rests
  <1> QED
    BY <1>1, ContinueLands, ReturnsFalls DEF Gives, Enters

\* A handler ends, and nothing more is fetched.
LEMMA DiffusedEnds ==
  ASSUME PipeInv, ~ Buffers, stack # <<>>, case' = case, preempt' = preempt,
         head' = head, asked' = asked - One(stack[1], {"iterate"}),
         Falls \/ Enters({"consumer"}) \/ Enters({"entry", "rest"})
  PROVE  OneFetch' /\ stack' \in Seq(Frames) /\ sched' \in Seq(Frames)
  <1>1. {"consumer"} \intersect Fetch = {} /\ {"entry", "rest"} \intersect Fetch = {}
    BY DEF Fetch
  <1> QED
    BY <1>1, EntersOther, OneFetchFalls, FallsTypes

LEMMA DiffusedIterateInv ==
  ASSUME PipeInv, ~ Buffers, DiffusedIterate, UNCHANGED own
  PROVE  PipeInv'
  <1>1. /\ stack # <<>> /\ stack[1][1] = "iterate" /\ Arg \in {"iter", "nil", "error"}
        /\ One(stack[1], Fetch) = 1 /\ One(stack[1], {"iterate"}) = 1
        /\ "iterate" \in Fetch
    BY RunningIs DEF PipeInv, DiffusedIterate, Fetch
  <1>2. /\ asked' = asked - 1 /\ case' = case /\ preempt' = preempt /\ position' = position
        /\ entries' = entries /\ open' = open /\ use' = use /\ fetch' = fetch /\ head' = head
    BY DEF DiffusedIterate, own
  <1>3. /\ OneFetch' /\ stack' \in Seq(Frames) /\ sched' \in Seq(Frames)
        /\ free' = free /\ ready' = ready /\ last' \in {"none", "nil", "error"}
    <2>1. CASE Reads("key") /\ UNCHANGED <<caller, lists>>
      <3>1. free' = free /\ ready' = ready /\ last' = last
        BY <2>1 DEF lists
      <3> QED
        BY <1>1, <1>2, <2>1, <3>1, ReadsEnters, ReadsFetch DEF PipeInv, Types
    <2>2. CASE Fails
      <3>1. last' = "error" /\ free' = free /\ ready' = ready /\ Tells("error")
        BY <2>2 DEF Fails
      <3> QED
        BY <1>1, <1>2, <3>1, TellsQuiet, DiffusedEnds DEF PipeInv
    <2>3. CASE /\ last' = "nil" /\ UNCHANGED <<free, ready, waiting>>
               /\ Tells("nil") \/ Returns
      BY <1>1, <1>2, <2>3, TellsQuiet, ReturnsFalls, DiffusedEnds DEF PipeInv
    <2> QED
      BY <2>1, <2>2, <2>3 DEF DiffusedIterate
  <1> QED
    BY <1>2, <1>3, TypesAre DEF PipeInv, Types

\* A task is free when a pair is being fetched.
LEMMA FreeIs ==
  ASSUME PipeInv, ~ Buffers, stack # <<>>, stack[1][1] \in Fetch
  PROVE  free # <<>> /\ free[1] \in Slots /\ Tail(free) \in Seq(Slots)
  <1>1. One(stack[1], Fetch) = 1
    BY DEF One
  <1>2. free # <<>> /\ free \in Seq(Slots)
    BY <1>1, RunningNumber DEF PipeInv, OneFetch, Types
  <1> QED
    BY <1>2

LEMMA DiffusedKeyInv ==
  ASSUME PipeInv, ~ Buffers, DiffusedKey, UNCHANGED own
  PROVE  PipeInv'
  <1>1. /\ stack # <<>> /\ stack[1][1] = "key" /\ Arg \in Nat
        /\ One(stack[1], {"iterate"}) = 0 /\ stack[1][1] \in Fetch
    BY RunningIs DEF PipeInv, DiffusedKey, Fetch
  <1>2. /\ asked' = asked /\ case' = case /\ preempt' = preempt /\ position' = position
        /\ open' = open /\ use' = use /\ fetch' = fetch /\ head' = head
    BY DEF DiffusedKey, own
  <1>3. asked \in Nat /\ asked' = asked - One(stack[1], {"iterate"})
    BY <1>1, <1>2, NumbersAre DEF PipeInv, OneFetch
  <1>4. /\ OneFetch' /\ stack' \in Seq(Frames) /\ sched' \in Seq(Frames)
        /\ entries' \in [Slots -> [key : Nat, value : Outcomes \X Nat]]
        /\ free' = free /\ ready' = ready /\ last' \in {"none", "nil", "error"}
    <2>1. CASE /\ entries' = [entries EXCEPT ![free[1]].key = Arg]
               /\ Reads("value") /\ UNCHANGED <<caller, lists>>
      <3>1. entries' \in [Slots -> [key : Nat, value : Outcomes \X Nat]]
        BY <1>1, <2>1, FreeIs DEF PipeInv, Types
      <3>2. free' = free /\ ready' = ready /\ last' = last
        BY <2>1 DEF lists
      <3> QED
        BY <1>1, <1>2, <1>3, <2>1, <3>1, <3>2, ReadsEnters, ReadsFetch DEF PipeInv, Types
    <2>2. CASE Fails /\ UNCHANGED entries
      <3>1. last' = "error" /\ free' = free /\ ready' = ready /\ Tells("error")
        BY <2>2 DEF Fails
      <3> QED
        BY <1>1, <1>2, <1>3, <2>2, <3>1, TellsQuiet, DiffusedEnds DEF PipeInv, Types
    <2> QED
      BY <2>1, <2>2 DEF DiffusedKey
  <1> QED
    BY <1>2, <1>4, TypesAre DEF PipeInv, Types

LEMMA DiffusedValueInv ==
  ASSUME PipeInv, ~ Buffers, DiffusedValue, UNCHANGED own
  PROVE  PipeInv'
  <1>1. /\ stack # <<>> /\ stack[1][1] = "value" /\ Arg \in Nat
        /\ One(stack[1], {"iterate"}) = 0 /\ stack[1][1] \in Fetch
    BY RunningIs DEF PipeInv, DiffusedValue, Fetch
  <1>2. /\ asked' = asked /\ case' = case /\ preempt' = preempt /\ position' = position
        /\ entries' = entries /\ use' = use /\ fetch' = fetch /\ head' = head
    BY DEF DiffusedValue, own
  <1>3. asked \in Nat /\ asked' = asked - One(stack[1], {"iterate"})
    BY <1>1, <1>2, NumbersAre DEF PipeInv, OneFetch
  <1>4. /\ OneFetch' /\ stack' \in Seq(Frames) /\ sched' \in Seq(Frames)
        /\ open' \in SUBSET (Slots \X Nat)
        /\ free' \in Seq(Slots) /\ ready' = ready /\ last' \in {"none", "nil", "error"}
    <2>1. CASE /\ free' = Tail(free) /\ CallFn(free[1], Arg)
               /\ UNCHANGED <<caller, ready, last>>
      <3>1. free[1] \in Slots /\ Tail(free) \in Seq(Slots)
        BY <1>1, FreeIs
      <3>2. open' \in SUBSET (Slots \X Nat) /\ Enters({"entry", "rest"})
        BY <1>1, <2>1, <3>1, CallFnEnters DEF PipeInv
      <3>3. OneFetch' /\ stack' \in Seq(Frames) /\ sched' \in Seq(Frames)
        BY <1>1, <1>2, <1>3, <3>2, DiffusedEnds
      <3> QED
        BY <2>1, <3>1, <3>2, <3>3 DEF PipeInv, Types
    <2>2. CASE Fails /\ UNCHANGED open
      <3>1. last' = "error" /\ free' = free /\ ready' = ready /\ Tells("error")
        BY <2>2 DEF Fails
      <3> QED
        BY <1>1, <1>2, <1>3, <2>2, <3>1, TellsQuiet, DiffusedEnds DEF PipeInv, Types
    <2> QED
      BY <2>1, <2>2 DEF DiffusedValue
  <1> QED
    BY <1>2, <1>4, TypesAre DEF PipeInv, Types

LEMMA DiffusedRestInv ==
  ASSUME PipeInv, ~ Buffers, DiffusedRest, UNCHANGED own
  PROVE  PipeInv'
  <1>1. /\ stack # <<>> /\ stack[1][1] = "rest" /\ stack[1][1] \notin Fetch
        /\ One(stack[1], {"iterate"}) = 0
    BY RunningIs DEF PipeInv, DiffusedRest, Fetch
  <1>2. /\ case' = case /\ preempt' = preempt /\ entries' = entries /\ open' = open
        /\ use' = use /\ fetch' = fetch /\ head' = head
        /\ free' = free /\ ready' = ready /\ last' = last
    BY DEF DiffusedRest, own, lists
  <1>3. OneFetch' /\ stack' \in Seq(Frames) /\ sched' \in Seq(Frames) /\ position' \in Nat
    <2>1. CASE free # <<>> /\ AskIter(Tail(stack))
      <3>1. Asks
        BY <1>1, <2>1, AskIterAsks DEF PipeInv, Rests
      <3>2. head' \in BOOLEAN
        BY <1>2 DEF PipeInv, Types
      <3> QED
        BY <1>1, <1>2, <2>1, <3>1, <3>2, AsksFetch DEF Asks
    <2>2. CASE Returns /\ UNCHANGED <<position, asked>>
      <3>1. asked \in Nat /\ position \in Nat
        BY NumbersAre DEF PipeInv, OneFetch, Types
      <3>2. asked' = asked - One(stack[1], {"iterate"})
        BY <1>1, <2>2, <3>1
      <3> QED
        BY <1>1, <1>2, <2>2, <3>1, <3>2, ReturnsFalls, DiffusedEnds DEF PipeInv
    <2> QED
      BY <2>1, <2>2 DEF DiffusedRest
  <1> QED
    BY <1>2, <1>3, TypesAre DEF PipeInv, Types

LEMMA DiffusedEntryInv ==
  ASSUME PipeInv, ~ Buffers, DiffusedEntry, UNCHANGED own
  PROVE  PipeInv'
  <1> DEFINE s == Arg[1]
             v == Arg[2]
  <1>1. /\ stack # <<>> /\ stack[1][1] = "entry" /\ s \in Slots /\ v \in Outcomes \X Nat
        /\ One(stack[1], {"iterate"}) = 0
    BY RunningIs DEF PipeInv, DiffusedEntry
  <1>2. /\ case' = case /\ preempt' = preempt /\ position' = position /\ asked' = asked
        /\ open' = open /\ use' = use /\ fetch' = fetch /\ head' = head
    BY DEF DiffusedEntry, own
  <1>3. /\ entries' = [entries EXCEPT ![s].value = v]
        /\ \/ Fails
           \/ /\ ready' = Append(ready, s) /\ UNCHANGED <<free, last>>
              /\ Tells("state") \/ Returns
    BY DEF DiffusedEntry, ReadyWith
  <1> HIDE DEF s, v
  <1>4. entries' \in [Slots -> [key : Nat, value : Outcomes \X Nat]]
    BY <1>1, <1>3 DEF PipeInv, Types
  <1>5. asked \in Nat /\ asked' = asked - One(stack[1], {"iterate"})
    BY <1>1, <1>2, NumbersAre DEF PipeInv, OneFetch
  <1>6. /\ Falls \/ Enters({"consumer"})
        /\ free' = free /\ ready' \in Seq(Slots) /\ last' \in {"none", "nil", "error"}
    <2>1. CASE Fails
      <3>1. last' = "error" /\ free' = free /\ ready' = ready /\ Tells("error")
        BY <2>1 DEF Fails
      <3> QED
        BY <1>1, <3>1, TellsQuiet DEF PipeInv, Types
    <2>2. CASE /\ ready' = Append(ready, s) /\ UNCHANGED <<free, last>>
               /\ Tells("state") \/ Returns
      <3>1. Falls \/ Enters({"consumer"})
        BY <1>1, <2>2, TellsQuiet, ReturnsFalls DEF PipeInv
      <3> QED
        BY <1>1, <2>2, <3>1 DEF PipeInv, Types
    <2> QED
      BY <1>3, <2>1, <2>2
  <1>7. OneFetch' /\ stack' \in Seq(Frames) /\ sched' \in Seq(Frames)
    BY <1>1, <1>2, <1>5, <1>6, DiffusedEnds
  <1> QED
    BY <1>2, <1>4, <1>6, <1>7, TypesAre DEF PipeInv, Types

LEMMA DiffusedNextInv ==
  ASSUME PipeInv, ~ Buffers, DiffusedNext, UNCHANGED own
  PROVE  PipeInv'
  <1>1. /\ stack # <<>> /\ stack[1][1] \notin Fetch /\ One(stack[1], {"iterate"}) = 0
    BY RunningIs DEF PipeInv, DiffusedNext, Fetch
  <1>2. /\ case' = case /\ preempt' = preempt /\ entries' = entries /\ open' = open
        /\ use' = use /\ fetch' = fetch /\ head' = head
    BY DEF DiffusedNext, own
  <1>3. /\ asked \in Nat /\ position \in Nat /\ last \in {"none", "nil", "error"}
        /\ free \in Seq(Slots) /\ ready \in Seq(Slots) /\ head \in BOOLEAN
    BY NumbersAre DEF PipeInv, OneFetch, Types
  <1>4. \A x \in {"none", "nil", "error"} :
          Continue(<<"consumer", x>>, Tail(stack)) => Enters({"consumer"})
    <2>1. ASSUME NEW x \in {"none", "nil", "error"}, Continue(<<"consumer", x>>, Tail(stack))
          PROVE  Enters({"consumer"})
      <3>1. <<"consumer", x>> \in Frames /\ Tail(stack) \in Rests
        BY DEF Frames, Outcomes, Rests
      <3> QED
        BY <1>1, <2>1, <3>1, ContinueLands DEF Enters, PipeInv
    <2> QED
      BY <2>1
  <1>5. ready # <<>> => ready[1] \in Slots /\ Tail(ready) \in Seq(Slots)
    BY <1>3
  <1>6. /\ OneFetch' /\ stack' \in Seq(Frames) /\ sched' \in Seq(Frames)
        /\ position' \in Nat /\ free' \in Seq(Slots) /\ ready' \in Seq(Slots) /\ last' = last
    <2>1. ASSUME UNCHANGED <<position, asked>>, Falls \/ Enters({"consumer"})
          PROVE  OneFetch' /\ stack' \in Seq(Frames) /\ sched' \in Seq(Frames)
      <3>1. asked' = asked - One(stack[1], {"iterate"})
        BY <1>1, <1>3, <2>1
      <3> QED
        BY <1>1, <1>2, <2>1, <3>1, DiffusedEnds
    <2>2. CASE /\ \E x \in {"none", "nil", "error"} : Continue(<<"consumer", x>>, Tail(stack))
               /\ UNCHANGED <<position, asked, caller, lists>>
      <3>1. UNCHANGED <<position, asked>> /\ free' = free /\ ready' = ready /\ last' = last
        BY <2>2 DEF lists
      <3> QED
        BY <1>3, <1>4, <2>1, <2>2, <3>1
    <2>3. CASE /\ ready # <<>> /\ ready' = Tail(ready) /\ UNCHANGED last
               /\ UNCHANGED <<position, asked>>
               /\ free' = free \/ (free # <<>> /\ free' = <<free[1], ready[1]>> \o Tail(free))
               /\ Gives \/ \E x \in {"none", "nil", "error"} :
                             Continue(<<"consumer", x>>, Tail(stack))
      <3>1. Falls \/ Enters({"consumer"})
        BY <1>1, <1>4, <2>3, GivesQuiet DEF PipeInv
      <3>2. free' \in Seq(Slots)
        <4>1. CASE free # <<>> /\ free' = <<free[1], ready[1]>> \o Tail(free)
          <5>1. free[1] \in Slots /\ Tail(free) \in Seq(Slots)
            BY <1>3, <4>1
          <5>2. <<free[1], ready[1]>> \in Seq(Slots)
            BY <1>5, <2>3, <5>1
          <5> QED
            BY <4>1, <5>1, <5>2, ConcatProperties
        <4> QED
          BY <1>3, <2>3, <4>1
      <3> QED
        BY <1>3, <1>5, <2>1, <2>3, <3>1, <3>2
    <2>4. CASE /\ ready # <<>> /\ ready' = Tail(ready) /\ UNCHANGED last
               /\ free' = <<ready[1]>> /\ AskIter(<< <<"fetched", 0>> >> \o Tail(stack))
      <3>1. << <<"fetched", 0>> >> \o Tail(stack) \in Rests
        BY DEF Rests, Above
      <3>2. Asks
        BY <1>1, <2>4, <3>1, AskIterAsks DEF PipeInv
      <3>3. free' \in Seq(Slots) /\ free' # <<>>
        BY <1>5, <2>4
      <3>4. OneFetch' /\ stack' \in Seq(Frames) /\ sched' \in Seq(Frames)
        BY <1>1, <1>2, <1>3, <3>2, <3>3, AsksFetch
      <3> QED
        BY <1>5, <2>4, <3>2, <3>3, <3>4 DEF Asks
    <2>5. \/ /\ \E x \in {"none", "nil", "error"} : Continue(<<"consumer", x>>, Tail(stack))
             /\ UNCHANGED <<position, asked, caller, lists>>
          \/ /\ ready # <<>> /\ ready' = Tail(ready) /\ UNCHANGED last
             /\ \/ /\ UNCHANGED <<position, asked>>
                   /\ free' = free \/ (free # <<>> /\ free' = <<free[1], ready[1]>> \o Tail(free))
                   /\ Gives \/ \E x \in {"none", "nil", "error"} :
                                 Continue(<<"consumer", x>>, Tail(stack))
                \/ free' = <<ready[1]>> /\ AskIter(<< <<"fetched", 0>> >> \o Tail(stack))
      BY <1>3 DEF DiffusedNext
    <2> QED
      BY <2>2, <2>3, <2>4, <2>5
  <1> QED
    BY <1>2, <1>6, TypesAre DEF PipeInv, Types

LEMMA DiffusedFetchedInv ==
  ASSUME PipeInv, ~ Buffers, DiffusedFetched, UNCHANGED own
  PROVE  PipeInv'
  <1>1. stack # <<>> /\ stack[1][1] \notin Fetch
    BY RunningIs DEF PipeInv, DiffusedFetched, Fetch
  <1>2. Falls \/ \E H : H \intersect Fetch = {} /\ Enters(H)
    <2>1. Falls \/ Enters({"consumer"})
      BY <1>1, GivesQuiet DEF DiffusedFetched, PipeInv
    <2>2. {"consumer"} \intersect Fetch = {}
      BY DEF Fetch
    <2> QED
      BY <2>1, <2>2
  <1>3. UNCHANGED <<case, preempt, position, asked, entries, open, use, fetch, head,
                    free, ready, last>>
    BY DEF DiffusedFetched, own
  <1> QED
    BY <1>1, <1>2, <1>3, QuietInv

LEMMA DiffusedStepInv ==
  ASSUME PipeInv, ~ Buffers, DiffusedStep, UNCHANGED own
  PROVE  PipeInv'
  <1>1. CASE DiffusedConsumer
    BY <1>1, ConsumerInv DEF DiffusedConsumer
  <1> QED
    BY <1>1, DiffusedIterateInv, DiffusedKeyInv, DiffusedValueInv, DiffusedRestInv,
       DiffusedEntryInv, DiffusedNextInv, DiffusedFetchedInv
    DEF DiffusedStep
------------------------------------------------------------------------------
(* From outside of the handlers.                                             *)

\* A handler that is alone.
LEMMA AloneNumber ==
  ASSUME NEW f \in Frames, NEW H
  PROVE  <<f>> \in Seq(Frames) /\ <<f>> # <<>> /\ <<f>>[1] = f /\ Number(<<f>>, H) = One(f, H)
  <1>1. <<>> \in Seq(Frames) /\ Number(<<>>, H) = 0
    <2>1. <<>> \in Seq(Frames)
      OBVIOUS
    <2> QED
      BY <2>1, NumberFinite
  <1>2. /\ Append(<<>>, f) \in Seq(Frames)
        /\ Number(Append(<<>>, f), H) = Number(<<>>, H) + One(f, H)
    BY <1>1, AppendNumber
  <1>3. Append(<<>>, f) = <<f>> /\ <<f>> # <<>> /\ <<f>>[1] = f
    OBVIOUS
  <1>4. One(f, H) \in {0, 1}
    BY DEF One
  <1> QED
    BY <1>1, <1>2, <1>3, <1>4

LEMMA InitInv ==
  ASSUME Init
  PROVE  PipeInv
  <1> DEFINE b == <<"begin", 0>>
  <1>1. /\ case \in Cases /\ stack = <<b>> /\ sched = <<>> /\ preempt = FALSE
        /\ position = 0 /\ asked = 0 /\ entries = [s \in Slots |-> Empty] /\ open = {}
        /\ use = 0 /\ fetch = 0 /\ head = FALSE /\ ready = <<>> /\ last = "none"
        /\ free = [i \in 1 .. case.size |-> case.size - i]
    BY DEF Init, PipelineInit, BufferedInit, DiffusedInit
  <1>2. b \in Frames /\ b[1] = "begin"
    BY DEF Frames
  <1>3. One(b, Fetch) = 1 /\ One(b, {"iterate"}) = 0
    BY <1>2 DEF One, Fetch
  <1> HIDE DEF b
  <1>4. /\ stack \in Seq(Frames) /\ stack # <<>> /\ stack[1] = b
        /\ Number(stack, Fetch) = 1 /\ Number(stack, {"iterate"}) = 0
    BY <1>1, <1>2, <1>3, AloneNumber
  <1>5. <<>> \in Seq(Frames) /\ \A H : Number(<<>>, H) = 0
    <2>1. <<>> \in Seq(Frames)
      OBVIOUS
    <2> QED
      BY <2>1, NumberFinite
  <1>6. Fetches = 1 /\ Requests = 0
    BY <1>1, <1>4, <1>5 DEF Fetches, Requests
  <1>7. free \in Seq(Slots) /\ free # <<>>
    <2>1. case.size \in Nat \ {0}
      BY <1>1, CaseIs
    <2>2. \A i \in 1 .. case.size : case.size - i \in Slots
      BY <2>1 DEF Slots
    <2>3. free \in [1 .. case.size -> Slots] /\ DOMAIN free = 1 .. case.size
      BY <1>1, <2>2
    <2>4. 1 \in DOMAIN free
      BY <2>1, <2>3
    <2>5. free \in Seq(Slots)
      BY <2>1, <2>3
    <2> QED
      BY <2>4, <2>5
  <1>8. entries \in [Slots -> [key : Nat, value : Outcomes \X Nat]]
    BY <1>1 DEF Empty, Outcomes
  <1>9. Types
    <2>1. /\ case \in Cases /\ preempt \in BOOLEAN /\ position \in Nat
          /\ use \in Nat /\ fetch \in Nat /\ head \in BOOLEAN
          /\ last \in {"none", "nil", "error"}
      BY ONLY <1>1
    <2>2. open \in SUBSET (Slots \X Nat) /\ ready \in Seq(Slots)
      BY ONLY <1>1
    <2>3. stack \in Seq(Frames) /\ sched \in Seq(Frames)
      BY ONLY <1>1, <1>4, <1>5
    <2> QED
      BY ONLY <1>7, <1>8, <2>1, <2>2, <2>3 DEF Types
  <1>10. OneFetch
    BY <1>1, <1>2, <1>4, <1>6, <1>7 DEF OneFetch, Fetch
  <1> QED
    BY <1>9, <1>10 DEF PipeInv

\* The inner sequence is iterated.
LEMMA BeginInv ==
  ASSUME PipeInv, Begin, UNCHANGED <<own, lists>>
  PROVE  PipeInv'
  <1>1. /\ stack # <<>> /\ stack[1][1] = "begin"
        /\ One(stack[1], Fetch) = 1 /\ One(stack[1], {"iterate"}) = 0
    BY RunningIs DEF PipeInv, Begin, Fetch
  <1>2. Tail(stack) \in Rests
    BY DEF Rests
  <1>3. Asks
    BY <1>1, <1>2, AskIterAsks DEF Begin, PipeInv
  <1>4. PICK f \in Frames : f[1] \in {"iterate"} /\ Lands(f)
    BY <1>3 DEF Asks, Enters
  <1>5. One(f, Fetch) = 1 /\ One(f, {"iterate"}) = 1
    BY <1>4 DEF One, Fetch
  <1>6. /\ case' = case /\ preempt' = preempt /\ entries' = entries /\ open' = open
        /\ use' = use /\ fetch' = fetch /\ head' = head
        /\ free' = free /\ ready' = ready /\ last' = last
    BY DEF Begin, own, lists
  <1>7. asked \in Nat /\ asked' = asked + 1 /\ position' \in Nat
    BY <1>3, NumbersAre DEF Asks, PipeInv, OneFetch
  <1>8. ~ Buffers => free' # <<>>
    BY <1>1, <1>6, FreeIs DEF Fetch
  <1>9. asked' = asked - One(stack[1], {"iterate"}) + One(f, {"iterate"})
    BY <1>1, <1>5, <1>7
  <1>10. One(f, Fetch) + (IF head' THEN 1 ELSE 0) <= One(stack[1], Fetch) + (IF head THEN 1 ELSE 0)
    BY <1>1, <1>5, <1>6
  <1>11. OneFetch'
    BY <1>1, <1>4, <1>6, <1>8, <1>9, <1>10, OneFetchLands
  <1>12. stack' \in Seq(Frames) /\ sched' \in Seq(Frames)
    BY <1>4 DEF Lands
  <1> QED
    BY <1>6, <1>7, <1>11, <1>12, TypesAre DEF PipeInv, Types

\* The host runs a handler that does not fetch.
LEMMA StartsInv ==
  ASSUME PipeInv, stack = <<>>, NEW f \in Frames, f[1] \notin Fetch, Continue(f, <<>>),
         UNCHANGED <<case, preempt, position, asked, entries, own, lists>>,
         open' \in SUBSET (Slots \X Nat)
  PROVE  PipeInv'
  <1>1. /\ case' = case /\ preempt' = preempt /\ position' = position /\ asked' = asked
        /\ entries' = entries /\ use' = use /\ fetch' = fetch /\ head' = head
        /\ free' = free /\ ready' = ready /\ last' = last
    BY DEF own, lists
  <1>2. One(f, Fetch) = 0 /\ One(f, {"iterate"}) = 0
    BY DEF One, Fetch
  <1>3. /\ <<f>> \in Seq(Frames) /\ <<f>> # <<>> /\ <<f>>[1] = f
        /\ \A H : Number(<<f>>, H) = One(f, H)
    BY AloneNumber
  <1>4. /\ <<>> \in Seq(Frames) /\ sched \in Seq(Frames) /\ \A H : Number(<<>>, H) = 0
        /\ \A H : Number(sched, H) \in Nat
    BY NumberFinite DEF PipeInv, Types
  <1>5. /\ Append(sched, f) \in Seq(Frames)
        /\ \A H : Number(Append(sched, f), H) = Number(sched, H) + One(f, H)
    BY <1>4, AppendNumber
  <1>6. <<f>> \o <<>> = <<f>>
    OBVIOUS
  <1>7. \/ preempt /\ stack' = <<>> /\ sched' = Append(sched, f)
        \/ ~ preempt /\ stack' = <<f>> /\ sched' = sched
    BY <1>6 DEF Continue
  <1>8. Fetches = Number(sched, Fetch) /\ Requests = Number(sched, {"iterate"})
    BY <1>4 DEF Fetches, Requests
  <1>9. /\ stack' \in Seq(Frames) /\ sched' \in Seq(Frames)
        /\ Fetches' = Fetches /\ Requests' = Requests
    <2>1. /\ Fetches' = Number(stack', Fetch) + Number(sched', Fetch)
          /\ Requests' = Number(stack', {"iterate"}) + Number(sched', {"iterate"})
      BY NextNumbers
    <2>2. Number(sched, Fetch) \in Nat /\ Number(sched, {"iterate"}) \in Nat
      BY ONLY <1>4
    <2>3. CASE preempt /\ stack' = <<>> /\ sched' = Append(sched, f)
      <3>1. /\ Number(stack', Fetch) = 0 /\ Number(stack', {"iterate"}) = 0
            /\ stack' \in Seq(Frames)
        BY ONLY <1>4, <2>3
      <3>2. /\ Number(sched', Fetch) = Number(sched, Fetch) + 0
            /\ Number(sched', {"iterate"}) = Number(sched, {"iterate"}) + 0
            /\ sched' \in Seq(Frames)
        BY ONLY <1>2, <1>5, <2>3
      <3> QED
        BY ONLY <1>8, <2>1, <2>2, <3>1, <3>2
    <2>4. CASE ~ preempt /\ stack' = <<f>> /\ sched' = sched
      <3>1. /\ Number(stack', Fetch) = 0 /\ Number(stack', {"iterate"}) = 0
            /\ stack' \in Seq(Frames)
        BY ONLY <1>2, <1>3, <2>4
      <3>2. /\ Number(sched', Fetch) = Number(sched, Fetch)
            /\ Number(sched', {"iterate"}) = Number(sched, {"iterate"})
            /\ sched' \in Seq(Frames)
        BY ONLY <1>4, <2>4
      <3> QED
        BY ONLY <1>8, <2>1, <2>2, <3>1, <3>2
    <2> QED
      BY <1>7, <2>3, <2>4
  <1>10. OneFetch'
    <2>1. Buffers' <=> Buffers
      BY <1>1, FramesStay
    <2>2. /\ asked' = Requests'
          /\ Fetches' + (IF head' THEN 1 ELSE 0) <= 1
      BY <1>1, <1>9 DEF PipeInv, OneFetch
    <2>3. ASSUME ~ Buffers
          PROVE  sched' = <<>> /\ ~ preempt' /\ ~ head' /\ Fetches' = 0
      BY <1>1, <1>7, <1>9, <2>3 DEF PipeInv, OneFetch
    <2> QED
      BY <2>1, <2>2, <2>3 DEF OneFetch
  <1> QED
    BY <1>1, <1>9, <1>10, TypesAre DEF PipeInv, Types

\* A call of the function returns.
LEMMA ResumeInv ==
  ASSUME PipeInv, NEW c \in open, Resume(c), UNCHANGED <<own, lists>>
  PROVE  PipeInv'
  <1>1. PICK x \in {"result", "failed"} : Continue(<<"entry", <<c[1], <<x, c[2]>>>>>>, <<>>)
    BY DEF Resume
  <1>2. c[1] \in Slots /\ c[2] \in Nat
    BY DEF PipeInv, Types
  <1>3. <<"entry", <<c[1], <<x, c[2]>>>>>> \in Frames
    BY <1>2 DEF Frames, Outcomes
  <1>4. "entry" \notin Fetch
    BY DEF Fetch
  <1>5. open' \in SUBSET (Slots \X Nat) /\ stack = <<>>
        /\ UNCHANGED <<case, preempt, position, asked, entries, own, lists>>
    BY DEF Resume, PipeInv, Types
  <1> QED
    BY <1>1, <1>3, <1>4, <1>5, StartsInv

\* The consumer asks for the next pair.
LEMMA AskInv ==
  ASSUME PipeInv, Ask, UNCHANGED <<own, lists>>
  PROVE  PipeInv'
  <1> DEFINE f == <<"next", 0>>
  <1>1. /\ stack = <<>> /\ stack' = <<f>> /\ sched' = sched /\ open' = open
        /\ case' = case /\ preempt' = preempt /\ position' = position /\ asked' = asked
        /\ entries' = entries /\ use' = use /\ fetch' = fetch /\ head' = head
        /\ free' = free /\ ready' = ready /\ last' = last
    BY DEF Ask, own, lists
  <1>2. f \in Frames /\ f[1] \notin Fetch /\ One(f, Fetch) = 0 /\ One(f, {"iterate"}) = 0
    BY DEF Frames, Fetch, One
  <1> HIDE DEF f
  <1>3. <<f>> \in Seq(Frames) /\ <<f>>[1] = f /\ \A H : Number(<<f>>, H) = One(f, H)
    BY <1>2, AloneNumber
  <1>4. sched \in Seq(Frames) /\ \A H : Number(<<>>, H) = 0 /\ Number(sched, H) \in Nat
    BY NumberFinite DEF PipeInv, Types
  <1>5. Fetches' = Fetches /\ Requests' = Requests
    BY <1>1, <1>2, <1>3, <1>4, NextNumbers DEF Fetches, Requests
  <1>6. Buffers' <=> Buffers
    BY <1>1, FramesStay
  <1>7. OneFetch'
    BY <1>1, <1>5, <1>6 DEF PipeInv, OneFetch
  <1> QED
    BY <1>1, <1>3, <1>4, <1>7, TypesAre DEF PipeInv, Types

\* The scheduler runs the next handler of its queue, which only buffered uses.
LEMMA RunNextInv ==
  ASSUME PipeInv, RunNext, UNCHANGED <<own, lists>>
  PROVE  PipeInv'
  <1> DEFINE f == Head(sched)
  <1>1. /\ stack = <<>> /\ sched # <<>> /\ stack' = <<f>> /\ sched' = Tail(sched)
        /\ preempt' = FALSE /\ open' = open
        /\ case' = case /\ position' = position /\ asked' = asked
        /\ entries' = entries /\ use' = use /\ fetch' = fetch /\ head' = head
        /\ free' = free /\ ready' = ready /\ last' = last
    BY DEF RunNext, own, lists
  <1>2. sched \in Seq(Frames)
    BY DEF PipeInv, Types
  <1>3. /\ f \in Frames /\ Tail(sched) \in Seq(Frames)
        /\ \A H : Number(sched, H) = Number(Tail(sched), H) + One(f, H)
    BY <1>1, <1>2, TailNumber
  <1> HIDE DEF f
  <1>4. <<f>> \in Seq(Frames) /\ \A H : Number(<<f>>, H) = One(f, H)
    BY <1>3, AloneNumber
  <1>5. /\ \A H : Number(<<>>, H) = 0 /\ Number(Tail(sched), H) \in Nat
        /\ \A H : One(f, H) \in {0, 1}
    BY <1>3, NumberFinite DEF One
  <1>6. \A H : Number(stack', H) + Number(sched', H) = Number(stack, H) + Number(sched, H)
    BY <1>1, <1>3, <1>4, <1>5
  <1>7. Fetches' = Fetches /\ Requests' = Requests
    BY <1>6, NextNumbers DEF Fetches, Requests
  <1>8. Buffers /\ Buffers'
    BY <1>1, FramesStay DEF PipeInv, OneFetch
  <1>9. OneFetch'
    BY <1>1, <1>7, <1>8 DEF PipeInv, OneFetch
  <1> QED
    BY <1>1, <1>3, <1>4, <1>9, TypesAre DEF PipeInv, Types

\* A slice ends, in buffered.
LEMMA PreemptInv ==
  ASSUME PipeInv, Buffers \/ DiffusedWhole, Preempt, UNCHANGED <<own, lists>>
  PROVE  PipeInv'
  <1>1. /\ stack' = stack /\ sched' = sched /\ preempt' = TRUE /\ open' = open
        /\ case' = case /\ position' = position /\ asked' = asked
        /\ entries' = entries /\ use' = use /\ fetch' = fetch /\ head' = head
        /\ free' = free /\ ready' = ready /\ last' = last
    BY DEF Preempt, own, lists
  <1>2. case \in Cases /\ case.sliced
    BY DEF Preempt, PipeInv, Types
  <1>3. case.kind = "buffered"
    BY <1>2, PipelineAssumption DEF DiffusedWhole, Buffers
  <1>4. Buffers /\ Buffers'
    BY <1>1, <1>3, FramesStay DEF Buffers
  <1>5. Fetches' = Fetches /\ Requests' = Requests
    BY <1>1, NextNumbers DEF Fetches, Requests
  <1>6. OneFetch'
    BY <1>1, <1>4, <1>5 DEF PipeInv, OneFetch
  <1> QED
    BY <1>1, <1>6, TypesAre DEF PipeInv, Types
------------------------------------------------------------------------------
(* Theorems                                                                  *)

LEMMA NextInv ==
  ASSUME Buffers \/ DiffusedWhole, PipeInv, [Next]_vars
  PROVE  PipeInv'
  <1>1. CASE Handle
    BY <1>1, BufferedStepInv, DiffusedStepInv DEF Handle
  <1>2. CASE Serve
    BY <1>2, BeginInv, RunNextInv DEF Serve
  <1>3. CASE Return
    BY <1>3, ResumeInv DEF Return
  <1>4. CASE (Ask \/ Preempt) /\ UNCHANGED <<own, lists>>
    BY <1>4, AskInv, PreemptInv
  <1>5. CASE UNCHANGED vars
    <2>1. /\ stack' = stack /\ sched' = sched /\ preempt' = preempt /\ open' = open
          /\ case' = case /\ position' = position /\ asked' = asked
          /\ entries' = entries /\ use' = use /\ fetch' = fetch /\ head' = head
          /\ free' = free /\ ready' = ready /\ last' = last
      BY <1>5 DEF vars, common, own, lists
    <2>2. Fetches' = Fetches /\ Requests' = Requests
      BY <2>1, NextNumbers DEF Fetches, Requests
    <2>3. Buffers' <=> Buffers
      BY <2>1, FramesStay
    <2>4. OneFetch'
      BY <2>1, <2>2, <2>3 DEF PipeInv, OneFetch
    <2> QED
      BY <2>1, <2>4, TypesAre DEF PipeInv, Types
  <1> QED
    BY <1>1, <1>2, <1>3, <1>4, <1>5 DEF Next

\* The invariant that the others rest on: the handlers that fetch a pair, those
\* that wait in the scheduler's queue included, are one at most, and none while
\* State->Fetch may be set to ask the iterator.
THEOREM PipelinesInvariance ==
  ASSUME DiffusedWhole
  PROVE  Spec => []PipeInv
  <1>1. Init => PipeInv
    BY InitInv
  <1>2. PipeInv /\ [Next]_vars => PipeInv'
    BY NextInv
  <1> QED
    BY <1>1, <1>2, PTL DEF Spec

\* The inner iterator is not asked while it owes an answer, whatever the length of
\* the sequence, the size, the calls that stay open and the ends of slices.  The
\* hypothesis is needed: once a slice has ended, the answer of the iterator waits
\* in the scheduler's queue, and ml_iter_next of diffused, which has nothing like
\* the Head of buffered to look at, asks again.
THEOREM IteratorIsAskedOnce ==
  ASSUME DiffusedWhole
  PROVE  Spec => []OneRequest
  <1>1. PipeInv => OneRequest
    BY NumbersAre DEF PipeInv, OneFetch, OneRequest
  <1> QED
    BY <1>1, PipelinesInvariance, PTL
------------------------------------------------------------------------------
(* buffered implements Pipe: the handlers that are under way.                *)

\* The handlers of F that are under way: on the stack or in the queue.
Way(F) == Many(stack, F) + Many(sched, F)

\* No handler.
Nothing == <<"nothing", 0>>

\* a is over, f and g are new; each of them may be Nothing.
Moves(a, f, g) ==
  \A F \in SUBSET Frames :
    Many(stack', F) + Many(sched', F) = Way(F) - In(a, F) + In(f, F) + In(g, F)

LEMMA NothingIn ==
  ASSUME NEW F \in SUBSET Frames
  PROVE  In(Nothing, F) = 0
  BY DEF In, Nothing, Frames

LEMMA WayNat ==
  ASSUME Types, NEW F
  PROVE  Many(stack, F) \in Nat /\ Many(sched, F) \in Nat /\ Way(F) \in Nat
  BY ManyFinite DEF Types, Way

LEMMA WayLess ==
  ASSUME Types, NEW F, NEW G, F \subseteq G
  PROVE  Way(F) <= Way(G)
  <1>1. Many(stack, F) <= Many(stack, G) /\ Many(sched, F) <= Many(sched, G)
    BY ManyLess DEF Types
  <1> QED
    BY <1>1, WayNat DEF Way

LEMMA WayTop ==
  ASSUME Types, stack # <<>>, NEW F, stack[1] \in F
  PROVE  Way(F) >= 1
  <1>1. Tail(stack) \in Seq(Frames) /\ Many(stack, F) = Many(Tail(stack), F) + 1
    BY TailMany DEF Types, In
  <1>2. Many(Tail(stack), F) \in Nat
    BY <1>1, ManyFinite
  <1> QED
    BY <1>1, <1>2, WayNat DEF Way

\* One of the handlers that are counted.
LEMMA ManySome ==
  ASSUME NEW s \in Seq(Frames), NEW F, Many(s, F) # 0
  PROVE  \E f \in Frames : f \in F /\ Many(s, {f}) # 0
  <1>1. PICK i \in DOMAIN s : s[i] \in F
    <2>1. Places(s, F) # {}
      BY FS_EmptySet DEF Many
    <2> QED
      BY <2>1 DEF Places
  <1>2. s[i] \in Frames
    BY <1>1
  <1>3. i \in Places(s, {s[i]})
    BY <1>1 DEF Places
  <1>4. Many(s, {s[i]}) # 0
    BY <1>3, ManyFinite, FS_EmptySet DEF Many
  <1> QED
    BY <1>1, <1>2, <1>4

LEMMA WaySome ==
  ASSUME Types, NEW F, Way(F) # 0
  PROVE  \E f \in Frames : f \in F /\ Way({f}) # 0
  <1>1. \A f : Many(stack, {f}) \in Nat /\ Many(sched, {f}) \in Nat
    BY WayNat
  <1>2. Many(stack, F) # 0 \/ Many(sched, F) # 0
    BY WayNat DEF Way
  <1>3. CASE Many(stack, F) # 0
    <2>1. PICK f \in Frames : f \in F /\ Many(stack, {f}) # 0
      BY <1>3, ManySome DEF Types
    <2>2. Many(stack, {f}) \in Nat /\ Many(sched, {f}) \in Nat
      BY <1>1
    <2>3. Way({f}) # 0
      BY <2>1, <2>2 DEF Way
    <2> QED
      BY <2>1, <2>3
  <1>4. CASE Many(sched, F) # 0
    <2>1. PICK f \in Frames : f \in F /\ Many(sched, {f}) # 0
      BY <1>4, ManySome DEF Types
    <2>2. Many(stack, {f}) \in Nat /\ Many(sched, {f}) \in Nat
      BY <1>1
    <2>3. Way({f}) # 0
      BY <2>1, <2>2 DEF Way
    <2> QED
      BY <2>1, <2>3
  <1> QED
    BY <1>2, <1>3, <1>4

LEMMA ManyUnion ==
  ASSUME NEW s \in Seq(Frames), NEW F, NEW G, F \intersect G = {}
  PROVE  Many(s, F \union G) = Many(s, F) + Many(s, G)
  <1>1. /\ Places(s, F \union G) = Places(s, F) \union Places(s, G)
        /\ Places(s, F) \intersect Places(s, G) = {}
    <2>1. \A i : i \in Places(s, F \union G) <=> i \in Places(s, F) \union Places(s, G)
      BY DEF Places
    <2>2. \A i : i \notin Places(s, F) \intersect Places(s, G)
      BY DEF Places
    <2> QED
      BY <2>1, <2>2
  <1>2. Cardinality({}) = 0
    BY FS_EmptySet
  <1>3. IsFiniteSet(Places(s, F)) /\ IsFiniteSet(Places(s, G))
        /\ Many(s, F) \in Nat /\ Many(s, G) \in Nat
    BY ManyFinite
  <1>4. Cardinality(Places(s, F) \union Places(s, G))
          = Cardinality(Places(s, F)) + Cardinality(Places(s, G))
              - Cardinality(Places(s, F) \intersect Places(s, G))
    BY <1>3, FS_Union, Zenon
  <1>5. Cardinality(Places(s, F) \intersect Places(s, G)) = 0
    BY <1>1, <1>2, Zenon
  <1>6. Many(s, F \union G) = Cardinality(Places(s, F) \union Places(s, G))
    BY <1>1, Zenon DEF Many
  <1>7. Many(s, F) = Cardinality(Places(s, F)) /\ Many(s, G) = Cardinality(Places(s, G))
    BY DEF Many
  <1> QED
    BY ONLY <1>3, <1>4, <1>5, <1>6, <1>7

LEMMA WayUnion ==
  ASSUME Types, NEW F, NEW G, F \intersect G = {}
  PROVE  Way(F \union G) = Way(F) + Way(G)
  <1>1. /\ Many(stack, F \union G) = Many(stack, F) + Many(stack, G)
        /\ Many(sched, F \union G) = Many(sched, F) + Many(sched, G)
    BY ManyUnion DEF Types
  <1> QED
    BY <1>1, WayNat DEF Way

\* Continue and Calls, above what is left of the stack.
LEMMA OneMoves ==
  ASSUME Types, NEW rest \in Seq(Frames), NEW a, NEW f \in Frames, NEW g,
         \A F \in SUBSET Frames : Many(rest, F) = Many(stack, F) - In(a, F) + In(g, F),
         Continue(f, rest) \/ Calls(f, rest)
  PROVE  Moves(a, f, g)
  <1> SUFFICES ASSUME NEW F \in SUBSET Frames
               PROVE  Many(stack', F) + Many(sched', F)
                        = Way(F) - In(a, F) + In(f, F) + In(g, F)
    BY DEF Moves
  <1>1. /\ Many(rest, F) = Many(stack, F) - In(a, F) + In(g, F)
        /\ In(a, F) \in {0, 1} /\ In(f, F) \in {0, 1} /\ In(g, F) \in {0, 1}
        /\ Many(stack, F) \in Nat /\ Many(sched, F) \in Nat
    BY WayNat DEF In
  <1>2. \/ stack' = rest /\ sched' = Append(sched, f)
        \/ stack' = Above(f, rest) /\ sched' = sched
    BY DEF Continue, Calls, Above
  <1>3. Many(Append(sched, f), F) = Many(sched, F) + In(f, F)
    BY AppendMany DEF Types
  <1>4. Many(Above(f, rest), F) = Many(rest, F) + In(f, F)
    BY AboveMany
  <1>5. CASE stack' = rest /\ sched' = Append(sched, f)
    BY <1>1, <1>3, <1>5 DEF Way
  <1>6. CASE stack' = Above(f, rest) /\ sched' = sched
    BY <1>1, <1>4, <1>6 DEF Way
  <1> QED
    BY <1>2, <1>5, <1>6

\* The running handler is followed by f.
LEMMA ContinueMoves ==
  ASSUME Types, stack # <<>>, NEW f \in Frames,
         Continue(f, Tail(stack)) \/ Calls(f, Tail(stack))
  PROVE  Moves(stack[1], f, Nothing)
  <1>1. Tail(stack) \in Seq(Frames)
        /\ \A F : Many(stack, F) = Many(Tail(stack), F) + In(stack[1], F)
    BY TailMany DEF Types
  <1>2. ASSUME NEW F \in SUBSET Frames
        PROVE  Many(Tail(stack), F) = Many(stack, F) - In(stack[1], F) + In(Nothing, F)
    <2>1. Many(Tail(stack), F) \in Nat /\ In(Nothing, F) = 0 /\ In(stack[1], F) \in {0, 1}
      BY <1>1, ManyFinite, NothingIn DEF In
    <2>2. Many(stack, F) = Many(Tail(stack), F) + In(stack[1], F)
      BY <1>1
    <2> QED
      BY <2>1, <2>2
  <1> QED
    BY <1>1, <1>2, OneMoves

\* It is followed by f, above the handler g.
LEMMA BothMove ==
  ASSUME Types, stack # <<>>, NEW f \in Frames, NEW g \in Frames,
         Continue(f, <<g>> \o Tail(stack)) \/ Calls(f, <<g>> \o Tail(stack))
  PROVE  Moves(stack[1], f, g)
  <1> DEFINE rest == Above(g, Tail(stack))
  <1>1. Tail(stack) \in Seq(Frames)
        /\ \A F : Many(stack, F) = Many(Tail(stack), F) + In(stack[1], F)
    BY TailMany DEF Types
  <1>2. rest \in Seq(Frames) /\ \A F : Many(rest, F) = Many(Tail(stack), F) + In(g, F)
    BY <1>1, AboveMany
  <1>3. Continue(f, rest) \/ Calls(f, rest)
    BY DEF Above
  <1> HIDE DEF rest
  <1>4. ASSUME NEW F \in SUBSET Frames
        PROVE  Many(rest, F) = Many(stack, F) - In(stack[1], F) + In(g, F)
    <2>1. Many(Tail(stack), F) \in Nat /\ In(g, F) \in {0, 1} /\ In(stack[1], F) \in {0, 1}
      BY <1>1, ManyFinite DEF In
    <2>2. Many(stack, F) = Many(Tail(stack), F) + In(stack[1], F)
      BY <1>1
    <2> QED
      BY <1>2, <2>1, <2>2
  <1> QED
    BY <1>2, <1>3, <1>4, OneMoves

LEMMA ReturnsMove ==
  ASSUME Types, stack # <<>>, Returns
  PROVE  Moves(stack[1], Nothing, Nothing)
  <1>1. Tail(stack) \in Seq(Frames)
        /\ \A F : Many(stack, F) = Many(Tail(stack), F) + In(stack[1], F)
    BY TailMany DEF Types
  <1>2. stack' = Tail(stack) /\ sched' = sched
    BY DEF Returns
  <1>3. ASSUME NEW F \in SUBSET Frames
        PROVE  Many(stack', F) + Many(sched', F)
                 = Way(F) - In(stack[1], F) + In(Nothing, F) + In(Nothing, F)
    <2>1. Many(Tail(stack), F) \in Nat /\ In(Nothing, F) = 0 /\ In(stack[1], F) \in {0, 1}
      BY <1>1, ManyFinite, NothingIn DEF In
    <2>2. Many(stack, F) = Many(Tail(stack), F) + In(stack[1], F) /\ Many(sched, F) \in Nat
      BY <1>1, WayNat
    <2> QED
      BY <1>2, <2>1, <2>2 DEF Way
  <1> QED
    BY <1>3 DEF Moves

\* A handler starts that nobody was below.
LEMMA StartMoves ==
  ASSUME Types, stack = <<>>, NEW f \in Frames,
         Continue(f, <<>>) \/ (stack' = <<f>> /\ sched' = sched)
  PROVE  Moves(Nothing, f, Nothing)
  <1>1. <<>> \in Seq(Frames)
    OBVIOUS
  <1>2. Continue(f, <<>>) \/ Calls(f, <<>>)
    <2>1. <<f>> \o <<>> = <<f>>
      OBVIOUS
    <2> QED
      BY <2>1 DEF Calls
  <1>3. ASSUME NEW F \in SUBSET Frames
        PROVE  Many(<<>>, F) = Many(stack, F) - In(Nothing, F) + In(Nothing, F)
    <2>1. Many(<<>>, F) = 0 /\ In(Nothing, F) = 0
      BY <1>1, ManyFinite, NothingIn
    <2> QED
      BY <2>1
  <1> QED
    BY <1>1, <1>2, <1>3, OneMoves

LEMMA RunNextMoves ==
  ASSUME Types, RunNext
  PROVE  Moves(Nothing, Nothing, Nothing)
  <1> DEFINE f == Head(sched)
  <1>1. stack = <<>> /\ sched # <<>> /\ stack' = <<f>> /\ sched' = Tail(sched)
    BY DEF RunNext
  <1>2. /\ f \in Frames /\ Tail(sched) \in Seq(Frames)
        /\ \A F : Many(sched, F) = Many(Tail(sched), F) + In(f, F)
    BY <1>1, TailMany DEF Types
  <1> HIDE DEF f
  <1>3. ASSUME NEW F \in SUBSET Frames
        PROVE  Many(stack', F) + Many(sched', F)
                 = Way(F) - In(Nothing, F) + In(Nothing, F) + In(Nothing, F)
    <2>1. <<>> \in Seq(Frames) /\ Append(<<>>, f) = <<f>>
      OBVIOUS
    <2>2. Many(<<>>, F) = 0 /\ Many(<<f>>, F) = Many(<<>>, F) + In(f, F)
      <3>1. Many(<<>>, F) = 0
        BY <2>1, ManyFinite
      <3>2. Many(Append(<<>>, f), F) = Many(<<>>, F) + In(f, F)
        BY <1>2, <2>1, AppendMany
      <3> QED
        BY <2>1, <3>1, <3>2
    <2>3. Many(Tail(sched), F) \in Nat /\ In(f, F) \in {0, 1} /\ In(Nothing, F) = 0
      BY <1>2, ManyFinite, NothingIn DEF In
    <2>4. Many(sched, F) = Many(Tail(sched), F) + In(f, F)
      BY <1>2
    <2> QED
      BY <1>1, <2>2, <2>3, <2>4 DEF Way
  <1> QED
    BY <1>3 DEF Moves

LEMMA StayMoves ==
  ASSUME Types, stack' = stack, sched' = sched
  PROVE  Moves(Nothing, Nothing, Nothing)
  <1> SUFFICES ASSUME NEW F \in SUBSET Frames
               PROVE  Many(stack', F) + Many(sched', F)
                        = Way(F) - In(Nothing, F) + In(Nothing, F) + In(Nothing, F)
    BY DEF Moves
  <1>1. In(Nothing, F) = 0 /\ Many(stack, F) \in Nat /\ Many(sched, F) \in Nat
    BY NothingIn, WayNat
  <1> QED
    BY <1>1 DEF Way
------------------------------------------------------------------------------
(* buffered: the invariant.                                                  *)

\* The handlers with a name in H that are under way; whether f is; a truth
\* value as a number.
Count(H) == Way(Named(H))
Under(f) == Way({f}) # 0
Tok(b) == IF b THEN 1 ELSE 0

\* The next pair is being fetched; more can be fetched.
Fetching == Count(Fetch) # 0
Alive == Fetching \/ head

\* The entries from Use to Fetch, and what each of them is for: a pair, or the
\* end of the iteration.
Window == use .. fetch - 1
Pair(n) == IF Alive \/ n < fetch - 1 THEN n + 1 ELSE 0
Full(n) == entries[Slot(n)].value # Empty.value

\* v is an answer for entry n.
Fits(n, v) ==
  /\ v[2] = Pair(n)
  /\ v[1] \in (IF Pair(n) = 0 THEN {"nil", "error"} ELSE {"result", "failed"})
  /\ v[1] = "nil" => n = case.length

\* Entries are reserved in order and at most Size of them; the one that is being
\* fetched has room; when nothing can be fetched, one entry holds the end.
WindowFits ==
  /\ use <= fetch /\ fetch - use <= case.size /\ fetch <= case.length + 1
  /\ Fetching => fetch - use < case.size
  /\ IF Alive THEN fetch <= case.length ELSE use < fetch

\* The handlers that fetch agree about which pair it is.
FetchFits(f) ==
  /\ f[1] = "begin" => position = 0 /\ fetch = 0
  /\ f[1] \in {"iterate", "key", "value"} => position = fetch + 1
  /\ f = <<"iterate", "iter">> => fetch < case.length
  /\ f = <<"iterate", "nil">> => fetch = case.length
  /\ f[1] \in {"key", "value"} => fetch < case.length /\ f[2] \in {0, fetch + 1}
  /\ f[1] = "value" => entries[Slot(fetch)].key = fetch + 1

FetchesFit ==
  /\ \A f \in Frames : Under(f) => FetchFits(f)
  /\ head => position = fetch

\* Answers for entry s and pair p that are on their way.
EntryOf(s, p) == {<<"entry", <<s, <<x, p>>>>>> : x \in Outcomes}

Answers(s, p) == Way(EntryOf(s, p))

\* Every entry has one answer: on its way, in an open call, or in it.
EntryFits(n) ==
  \E s \in Slots, p \in Nat :
    /\ s = Slot(n) /\ p = Pair(n) /\ entries[s].key = p
    /\ Answers(s, p) + Tok(<<s, p>> \in open) + Tok(Full(n)) = 1
    /\ Full(n) => Fits(n, entries[s].value)

EntriesFit ==
  /\ \A n \in Window : EntryFits(n)
  /\ \A n \in fetch .. use + case.size - 1 : ~ Full(n)
  /\ \A f \in Frames :
       Under(f) /\ f[1] = "entry" => \E n \in Window : f[2][1] = Slot(n) /\ Fits(n, f[2][2])
  /\ \A c \in open : \E n \in Window : Pair(n) = n + 1 /\ c = <<Slot(n), n + 1>>

\* The handlers that serve the consumer.
Telling == {"call", "next", "give", "consumer"}
Served == (IF idle THEN 1 ELSE 0) + (IF final # "none" THEN 1 ELSE 0)
Busy == Count(Telling) + Served

\* The consumer is served by one handler, waits, has a pair, or is done.
ConsumerFits ==
  /\ idle \in BOOLEAN /\ caller \in BOOLEAN /\ Busy <= 1
  /\ Count({"call"}) # 0 => Runs("call") /\ Arg = Slot(use) /\ use < fetch /\ Full(use)
  /\ caller => \/ Busy = 0
               \/ Runs("call")
               \/ use = fetch - 1 /\ ~ Alive /\ Full(use)
  /\ \A f \in Frames : Under(f) /\ f[1] = "consumer" =>
       f[2] \in {"state", "nil", "error"} /\ (f[2] = "nil" => use = case.length)

\* The handlers that have a pair for the consumer.
Readers == {<<"give", 0>>, <<"consumer", "state">>}

\* The consumer has had the pairs in order, each with the result of its own call.
Entry == [key : Nat, value : Outcomes \X Nat]

GivenFits ==
  /\ given \in Seq(Entry) /\ current \in Entry
  /\ \A i \in DOMAIN given : given[i].key = i /\ given[i].value[2] = i
  /\ use = Len(given) + Way(Readers)
  /\ Way(Readers) # 0 => /\ current.key = use /\ current.value[2] = use
                         /\ current.value[1] \in {"result", "failed"}

\* With PipeInv, the inductive invariant of buffered.
BufferedFits == WindowFits /\ FetchesFit /\ EntriesFit /\ ConsumerFits /\ GivenFits
------------------------------------------------------------------------------
(* buffered: counting the handlers that are under way, across a step.        *)

LEMMA NextWay ==
  ASSUME case' = case
  PROVE  /\ \A H : Count(H)' = Many(stack', Named(H)) + Many(sched', Named(H))
         /\ \A f : Under(f)' <=> Many(stack', {f}) + Many(sched', {f}) # 0
         /\ Way(Readers)' = Many(stack', Readers) + Many(sched', Readers)
  <1>1. \A H : Named(H)' = Named(H)
    BY FramesStay DEF Named
  <1>2. \A H : Count(H)' = Many(stack', Named(H)) + Many(sched', Named(H))
    BY <1>1 DEF Count, Way, Many, Places
  <1>3. \A f : Under(f)' <=> Many(stack', {f}) + Many(sched', {f}) # 0
    BY DEF Under, Way, Many, Places
  <1>4. Way(Readers)' = Many(stack', Readers) + Many(sched', Readers)
    BY DEF Way, Many, Places, Readers
  <1> QED
    BY <1>2, <1>3, <1>4

\* The names of the handlers that are under way.
LEMMA CountMoves ==
  ASSUME Types, case' = case, NEW a \in Frames \union {Nothing},
         NEW f \in Frames \union {Nothing}, NEW g \in Frames \union {Nothing},
         Moves(a, f, g), NEW H, "nothing" \notin H
  PROVE  /\ Count(H) \in Nat
         /\ Count(H)' = Count(H) - One(a, H) + One(f, H) + One(g, H)
  <1>1. Named(H) \in SUBSET Frames
    BY DEF Named
  <1>2. \A x \in Frames \union {Nothing} : In(x, Named(H)) = One(x, H)
    BY DEF In, One, Named, Nothing, Frames
  <1>3. Count(H)' = Way(Named(H)) - In(a, Named(H)) + In(f, Named(H)) + In(g, Named(H))
    BY <1>1, NextWay DEF Moves
  <1> QED
    BY <1>2, <1>3, WayNat DEF Count

\* A handler that is under way afterwards is new or was it before.
LEMMA UnderMoves ==
  ASSUME Types, Types', case' = case, NEW a, NEW f, NEW g, Moves(a, f, g),
         NEW h \in Frames, Under(h)'
  PROVE  h = f \/ h = g \/ Under(h)
  <1>1. {h} \in SUBSET Frames
    OBVIOUS
  <1>2. Way({h}) - In(a, {h}) + In(f, {h}) + In(g, {h}) # 0
    BY <1>1, NextWay DEF Moves
  <1>3. Way({h}) \in Nat /\ In(a, {h}) \in {0, 1}
    BY WayNat DEF In
  <1>4. ASSUME h # f, h # g, ~ Under(h)
        PROVE  FALSE
    <2>1. In(f, {h}) = 0 /\ In(g, {h}) = 0 /\ Way({h}) = 0
      BY <1>4 DEF In, Under
    <2>2. Many(stack', {h}) \in Nat /\ Many(sched', {h}) \in Nat
      <3>1. stack' \in Seq(Frames) /\ sched' \in Seq(Frames)
        BY FramesStay DEF Types
      <3> QED
        BY <3>1, ManyFinite
    <2>3. Many(stack', {h}) + Many(sched', {h}) = Way({h}) - In(a, {h}) + In(f, {h}) + In(g, {h})
      BY <1>1 DEF Moves
    <2> QED
      BY <1>2, <1>3, <2>1, <2>2, <2>3
  <1> QED
    BY <1>4
------------------------------------------------------------------------------
(* buffered: the ring.                                                       *)

LEMMA Division ==
  ASSUME NEW n \in Nat, NEW s \in Nat \ {0}
  PROVE  n = s * (n \div s) + (n % s) /\ n \div s \in Nat /\ n % s \in 0 .. s - 1
  OBVIOUS

LEMMA Remainder ==
  ASSUME NEW q \in Nat, NEW t \in Nat, NEW s \in Nat \ {0}, t < s
  PROVE  (s * q + t) % s = t
  OBVIOUS

\* Numbers that are less than s apart have different remainders.
LEMMA RemainderOnce ==
  ASSUME NEW m \in Nat, NEW n \in Nat, NEW s \in Nat \ {0}, n < m, m < n + s
  PROVE  n % s # m % s
  <1> SUFFICES ASSUME n % s = m % s
               PROVE  FALSE
    OBVIOUS
  <1> DEFINE q == n \div s
             r == m \div s
  <1>1. n = s * q + (n % s) /\ m = s * r + (m % s) /\ q \in Nat /\ r \in Nat
    BY Division
  <1>2. s * q \in Nat /\ s * r \in Nat /\ n % s \in Nat
    BY <1>1
  <1>3. s * r - s * q = s * (r - q)
    BY <1>1
  <1> HIDE DEF q, r
  <1>4. m - n = s * r - s * q
    BY <1>1, <1>2
  <1>5. 0 < s * (r - q) /\ s * (r - q) < s
    BY <1>1, <1>3, <1>4
  <1>6. CASE r - q <= 0
    <2>1. s * (r - q) <= 0
      BY <1>1, <1>6
    <2> QED
      BY <1>1, <1>5, <2>1
  <1>7. CASE r - q >= 1
    <2>1. s * (r - q) >= s
      BY <1>1, <1>7
    <2> QED
      BY <1>1, <1>5, <2>1
  <1> QED
    BY <1>1, <1>6, <1>7

\* s numbers in turn have all the remainders.
LEMMA RemainderEvery ==
  ASSUME NEW u \in Nat, NEW t \in Nat, NEW s \in Nat \ {0}, t < s
  PROVE  \E n \in u .. u + s - 1 : n % s = t
  <1> DEFINE q == u \div s
             r == q + 1
  <1>1. u = s * q + (u % s) /\ q \in Nat /\ r \in Nat /\ u % s \in 0 .. s - 1
    <2>1. u = s * q + (u % s) /\ q \in Nat /\ u % s \in 0 .. s - 1
      BY Division
    <2> HIDE DEF q
    <2> QED
      BY <2>1
  <1>2. s * q \in Nat /\ s * r \in Nat /\ s * r = s * q + s
    BY <1>1
  <1> HIDE DEF q, r
  <1>3. (s * q + t) % s = t /\ (s * r + t) % s = t
    BY <1>1, Remainder
  <1>4. CASE u % s <= t
    <2>1. s * q + t \in u .. u + s - 1
      BY <1>1, <1>2, <1>4
    <2> QED
      BY <1>3, <2>1
  <1>5. CASE u % s > t
    <2>1. s * r + t \in u .. u + s - 1
      BY <1>1, <1>2, <1>5
    <2> QED
      BY <1>3, <2>1
  <1> QED
    BY <1>1, <1>4, <1>5

LEMMA SlotOnce ==
  ASSUME case \in Cases, NEW u \in Nat, NEW m \in u .. u + case.size - 1,
         NEW n \in u .. u + case.size - 1, Slot(m) = Slot(n)
  PROVE  m = n
  <1>1. case.size \in Nat \ {0}
    BY CaseIs
  <1>2. m \in Nat /\ n \in Nat /\ m < n + case.size /\ n < m + case.size
    BY <1>1
  <1>3. ~ (m < n) /\ ~ (n < m)
    BY <1>1, <1>2, RemainderOnce DEF Slot
  <1> QED
    BY <1>2, <1>3

LEMMA SlotEvery ==
  ASSUME case \in Cases, NEW u \in Nat, NEW t \in Slots
  PROVE  \E n \in u .. u + case.size - 1 : Slot(n) = t
  <1>1. case.size \in Nat \ {0} /\ t \in Nat /\ t < case.size
    BY CaseIs DEF Slots
  <1> QED
    BY <1>1, RemainderEvery DEF Slot

\* Types, and where the window lies.
LEMMA WindowIs ==
  ASSUME PipeInv, Buffers, WindowFits
  PROVE  /\ case \in Cases /\ case.size \in Nat \ {0} /\ case.length \in Nat
         /\ use \in Nat /\ fetch \in Nat /\ position \in Nat
         /\ Window \subseteq use .. use + case.size - 1 /\ Window \subseteq Nat
         /\ \A n \in Window : /\ Pair(n) \in {0, n + 1} /\ Pair(n) <= case.length
                              /\ Slot(n) \in Slots
         /\ \A n \in Nat : Slot(n) \in Slots
  <1>1. /\ case \in Cases /\ use \in Nat /\ fetch \in Nat /\ position \in Nat
    BY DEF PipeInv, Types
  <1>2. case.size \in Nat \ {0} /\ case.length \in Nat /\ \A n \in Nat : Slot(n) \in Slots
    BY <1>1, CaseIs DEF Slot
  <1>3. Window \subseteq use .. use + case.size - 1 /\ Window \subseteq Nat
    BY <1>1, <1>2 DEF Window, WindowFits
  <1>4. ASSUME NEW n \in Window
        PROVE  Pair(n) \in {0, n + 1} /\ Pair(n) <= case.length
    <2>1. n \in Nat /\ n < fetch /\ fetch <= case.length + 1 /\ (Alive => fetch <= case.length)
      BY <1>1, <1>4 DEF Window, WindowFits
    <2>2. CASE Alive
      BY <1>1, <1>2, <2>1, <2>2 DEF Pair
    <2>3. CASE ~ Alive
      BY <1>1, <1>2, <2>1, <2>3 DEF Pair
    <2> QED
      BY <2>2, <2>3
  <1> QED
    BY <1>1, <1>2, <1>3, <1>4

\* What Pipe sees of the ring: it depends on what is in it only.
RunsPairs == {p \in Nat \ {0} : \E n \in Window : p = Pair(n) /\ ~ Full(n)}
HoldsPairs == {p \in Nat \ {0} : \E n \in Window : p = Pair(n) /\ Full(n)}

\* An answer for p that is on its way.
LEMMA ReturningIs ==
  ASSUME Types, NEW p \in Nat \ {0}
  PROVE  p \in Returning(stack) \union Returning(sched)
           <=> \E f \in Frames : f[1] = "entry" /\ f[2][2][2] = p /\ Under(f)
  <1> DEFINE F == {f \in Frames : f[1] = "entry" /\ f[2][2][2] = p}
  <1>1. ASSUME NEW s \in Seq(Frames)
        PROVE  p \in Returning(s) <=> Many(s, F) # 0
    <2>1. p \in Returning(s) <=> \E i \in DOMAIN s : s[i][1] = "entry" /\ s[i][2][2][2] = p
      BY DEF Returning
    <2>2. \A i \in DOMAIN s : s[i] \in Frames
      OBVIOUS
    <2>3. (\E i \in DOMAIN s : s[i][1] = "entry" /\ s[i][2][2][2] = p) <=> Places(s, F) # {}
      BY <2>2 DEF Places
    <2>4. Places(s, F) # {} <=> Many(s, F) # 0
      BY ManyFinite, FS_EmptySet DEF Many
    <2> QED
      BY <2>1, <2>3, <2>4
  <1>2. p \in Returning(stack) \union Returning(sched) <=> Way(F) # 0
    <2>1. p \in Returning(stack) <=> Many(stack, F) # 0
      BY <1>1 DEF Types
    <2>2. p \in Returning(sched) <=> Many(sched, F) # 0
      BY <1>1 DEF Types
    <2>3. Way(F) # 0 <=> Many(stack, F) # 0 \/ Many(sched, F) # 0
      BY WayNat DEF Way
    <2> QED
      BY <2>1, <2>2, <2>3
  <1>3. Way(F) # 0 => \E f \in Frames : f \in F /\ Under(f)
    BY WaySome DEF Under
  <1>4. ASSUME NEW f \in Frames, f \in F, Under(f)
        PROVE  Way(F) # 0
    <2>1. Way({f}) <= Way(F) /\ Way({f}) \in Nat /\ Way(F) \in Nat
      BY <1>4, WayLess, WayNat
    <2> QED
      BY <1>4, <2>1 DEF Under
  <1> QED
    BY <1>2, <1>3, <1>4

\* The frames are pairs of their name and argument.
LEMMA EntryIs ==
  ASSUME NEW f \in Frames, f[1] = "entry"
  PROVE  /\ f[2][1] \in Slots /\ f[2][2] \in Outcomes \X Nat
         /\ f = <<"entry", <<f[2][1], <<f[2][2][1], f[2][2][2]>>>>>>
         /\ f \in EntryOf(f[2][1], f[2][2][2])
  <1>1. f \in {"entry"} \X (Slots \X (Outcomes \X Nat))
    BY DEF Frames
  <1>2. /\ f[2][1] \in Slots /\ f[2][2] \in Outcomes \X Nat
        /\ f = <<"entry", <<f[2][1], <<f[2][2][1], f[2][2][2]>>>>>>
    BY <1>1
  <1>3. f[2][2][1] \in Outcomes
    BY <1>2
  <1> QED
    BY <1>2, <1>3 DEF EntryOf

LEMMA EntryOfIs ==
  ASSUME NEW s \in Slots, NEW p \in Nat
  PROVE  /\ EntryOf(s, p) \in SUBSET Frames
         /\ \A f \in Frames : f \in EntryOf(s, p)
              <=> f[1] = "entry" /\ f[2][1] = s /\ f[2][2][2] = p
  <1>1. \A x \in Outcomes : <<"entry", <<s, <<x, p>>>>>> \in Frames
    BY DEF Frames
  <1>2. EntryOf(s, p) \in SUBSET Frames
    BY <1>1 DEF EntryOf
  <1>3. ASSUME NEW f \in EntryOf(s, p)
        PROVE  f[1] = "entry" /\ f[2][1] = s /\ f[2][2][2] = p
    BY <1>3 DEF EntryOf
  <1>4. ASSUME NEW f \in Frames, f[1] = "entry", f[2][1] = s, f[2][2][2] = p
        PROVE  f \in EntryOf(s, p)
    BY <1>4, EntryIs
  <1> QED
    BY <1>2, <1>3, <1>4

LEMMA EntryFitsIs ==
  ASSUME EntriesFit, NEW n \in Window
  PROVE  /\ Slot(n) \in Slots /\ Pair(n) \in Nat /\ entries[Slot(n)].key = Pair(n)
         /\ Answers(Slot(n), Pair(n)) + Tok(<<Slot(n), Pair(n)>> \in open) + Tok(Full(n)) = 1
         /\ Full(n) => Fits(n, entries[Slot(n)].value)
  BY DEF EntriesFit, EntryFits

\* While an answer for n is on its way there is none in the entry and no open call.
LEMMA AnswerOnce ==
  ASSUME PipeInv, Buffers, WindowFits, EntriesFit, NEW n \in Window
  PROVE  /\ <<Slot(n), Pair(n)>> \in open => ~ Full(n)
         /\ Answers(Slot(n), Pair(n)) \in Nat
         /\ Answers(Slot(n), Pair(n)) <= 1
         /\ \A f \in Frames :
              Under(f) /\ f[1] = "entry" /\ f[2][1] = Slot(n) /\ f[2][2][2] = Pair(n)
                => ~ Full(n) /\ <<Slot(n), Pair(n)>> \notin open
                     /\ Answers(Slot(n), Pair(n)) = 1
  <1> DEFINE W == Answers(Slot(n), Pair(n))
  <1>1. W + Tok(<<Slot(n), Pair(n)>> \in open) + Tok(Full(n)) = 1
    BY EntryFitsIs
  <1>2. W \in Nat
    BY WayNat DEF PipeInv, Answers
  <1>3. ASSUME NEW f \in Frames,
               Under(f) /\ f[1] = "entry" /\ f[2][1] = Slot(n) /\ f[2][2][2] = Pair(n)
        PROVE  W >= 1
    <2>1. f \in EntryOf(Slot(n), Pair(n))
      BY <1>3, EntryIs
    <2>2. Way({f}) <= W /\ Way({f}) \in Nat
      BY <2>1, WayLess, WayNat DEF PipeInv, Answers
    <2> QED
      BY <1>2, <1>3, <2>2 DEF Under
  <1> HIDE DEF W
  <1>4. ASSUME NEW f \in Frames,
               Under(f) /\ f[1] = "entry" /\ f[2][1] = Slot(n) /\ f[2][2][2] = Pair(n)
        PROVE  ~ Full(n) /\ <<Slot(n), Pair(n)>> \notin open /\ W = 1
    BY <1>1, <1>2, <1>3, <1>4 DEF Tok
  <1>5. W <= 1 /\ (<<Slot(n), Pair(n)>> \in open => ~ Full(n))
    BY <1>1, <1>2 DEF Tok
  <1> QED
    BY <1>2, <1>4, <1>5 DEF W

LEMMA RingIs ==
  ASSUME PipeInv, Buffers, WindowFits, EntriesFit
  PROVE  Running = RunsPairs /\ BufferedHeld = HoldsPairs
  <1>1. /\ case \in Cases /\ case.size \in Nat \ {0} /\ use \in Nat /\ fetch \in Nat
        /\ Window \subseteq use .. use + case.size - 1 /\ Window \subseteq Nat
        /\ \A n \in Window : Pair(n) \in {0, n + 1} /\ Slot(n) \in Slots
    BY WindowIs
  <1>2. ASSUME NEW p \in RunsPairs
        PROVE  p \in Running
    <2>1. PICK n \in Window : p = Pair(n) /\ ~ Full(n) /\ p \in Nat \ {0}
      BY DEF RunsPairs
    <2>2. Answers(Slot(n), p) + Tok(<<Slot(n), p>> \in open) + 0 = 1
      BY <2>1, EntryFitsIs DEF Tok
    <2>3. CASE <<Slot(n), p>> \in open
      BY <2>3 DEF Running
    <2>4. CASE <<Slot(n), p>> \notin open
      <3>1. Answers(Slot(n), p) # 0
        BY <2>2, <2>4, WayNat DEF Tok, PipeInv, Answers
      <3>2. PICK f \in Frames : f \in EntryOf(Slot(n), p) /\ Under(f)
        BY <3>1, WaySome DEF Under, PipeInv, Answers
      <3>3. f[1] = "entry" /\ f[2][2][2] = p
        BY <1>1, <2>1, <3>2, EntryOfIs
      <3> QED
        BY <2>1, <3>2, <3>3, ReturningIs DEF Running, PipeInv
    <2> QED
      BY <2>3, <2>4
  <1>3. ASSUME NEW p \in Running
        PROVE  p \in RunsPairs
    <2>1. CASE p \in {c[2] : c \in open}
      <3>1. PICK n \in Window : Pair(n) = n + 1 /\ <<Slot(n), n + 1>> \in open /\ p = n + 1
        BY <2>1 DEF EntriesFit
      <3>2. ~ Full(n)
        BY <3>1, AnswerOnce
      <3> QED
        BY <1>1, <3>1, <3>2 DEF RunsPairs
    <2>2. CASE p \in Returning(stack) \union Returning(sched)
      <3>1. p \in Nat \ {0}
        <4>1. \A s \in Seq(Frames) : p \in Returning(s) => p \in Nat \ {0}
          <5>1. ASSUME NEW s \in Seq(Frames), NEW i \in DOMAIN s, s[i][1] = "entry"
                PROVE  s[i][2][2][2] \in Nat
            BY <5>1, EntryIs
          <5> QED
            BY <5>1 DEF Returning
        <4> QED
          BY <2>2, <4>1 DEF PipeInv, Types
      <3>2. PICK f \in Frames : f[1] = "entry" /\ f[2][2][2] = p /\ Under(f)
        BY <2>2, <3>1, ReturningIs DEF PipeInv
      <3>3. PICK n \in Window : f[2][1] = Slot(n) /\ Fits(n, f[2][2])
        BY <3>2 DEF EntriesFit
      <3>4. p = Pair(n) /\ ~ Full(n)
        BY <3>2, <3>3, AnswerOnce DEF Fits
      <3> QED
        BY <3>1, <3>4 DEF RunsPairs
    <2> QED
      BY <2>1, <2>2 DEF Running
  <1>4. ASSUME NEW p \in HoldsPairs
        PROVE  p \in BufferedHeld
    <2>1. PICK n \in Window : p = Pair(n) /\ Full(n) /\ p \in Nat \ {0}
      BY DEF HoldsPairs
    <2>2. entries[Slot(n)].key = p /\ Slot(n) \in Slots
      BY <1>1, <2>1, EntryFitsIs
    <2> QED
      BY <2>1, <2>2 DEF BufferedHeld, Full
  <1>5. ASSUME NEW p \in BufferedHeld
        PROVE  p \in HoldsPairs
    <2>1. PICK s \in Slots : /\ entries[s].key # 0 /\ entries[s].value # Empty.value
                             /\ p = entries[s].key
      BY DEF BufferedHeld
    <2>2. PICK n \in use .. use + case.size - 1 : Slot(n) = s
      BY <1>1, SlotEvery
    <2>3. Full(n)
      BY <2>1, <2>2 DEF Full
    <2>4. n \in Window
      BY <1>1, <2>2, <2>3 DEF EntriesFit, Window
    <2>5. p = Pair(n)
      BY <2>1, <2>2, <2>4, EntryFitsIs
    <2> QED
      BY <1>1, <2>1, <2>3, <2>4, <2>5 DEF HoldsPairs
  <1> QED
    BY <1>2, <1>3, <1>4, <1>5
------------------------------------------------------------------------------
(* buffered: what Pipe sees of a step.                                       *)

\* A step of Pipe, or none.
Piped == [P!Next]_(P!vars)

\* There is one handler at most that fetches, and not while Head is set.
LEMMA FetchingIs ==
  ASSUME PipeInv
  PROVE  /\ Count(Fetch) = Fetches /\ Count(Fetch) \in Nat /\ Count(Fetch) + Tok(head) <= 1
         /\ Fetching <=> Count(Fetch) = 1
         /\ Fetching => ~ head
  <1>1. Fetches = Count(Fetch)
    BY NumberIsMany DEF PipeInv, Types, Fetches, Count, Way
  <1>2. Fetches \in Nat /\ Fetches + (IF head THEN 1 ELSE 0) <= 1
    BY NumbersAre DEF PipeInv, OneFetch
  <1> QED
    BY <1>1, <1>2 DEF Tok, Fetching

LEMMA ReadersIs ==
  ASSUME PipeInv, ConsumerFits
  PROVE  Way(Readers) \in {0, 1} /\ Readers \in SUBSET Frames /\ Count(Telling) \in {0, 1}
  <1>1. Readers \subseteq Named(Telling) /\ Readers \in SUBSET Frames
    BY DEF Readers, Named, Telling, Frames
  <1>2. Way(Readers) <= Way(Named(Telling)) /\ Way(Readers) \in Nat /\ Way(Named(Telling)) \in Nat
    BY <1>1, WayLess, WayNat DEF PipeInv
  <1>3. Way(Named(Telling)) <= 1
    BY <1>2 DEF ConsumerFits, Busy, Served, Count
  <1> QED
    BY <1>1, <1>2, <1>3 DEF Count

\* The consumer has, or is about to have, the first use pairs.
LEMMA GivenIs ==
  ASSUME PipeInv, Buffers, ConsumerFits, GivenFits
  PROVE  GivenPairs = [i \in 1 .. use |-> i] /\ P!Given = 1 .. use
  <1>1. Way(Readers) \in {0, 1} /\ use \in Nat
    BY ReadersIs DEF PipeInv, Types
  <1>2. Len(given) \in Nat /\ DOMAIN given = 1 .. Len(given)
    BY DEF GivenFits
  <1>3. use = Len(given) + Way(Readers)
    BY DEF GivenFits
  <1>4. ASSUME NEW i \in 1 .. use
        PROVE  PairOf(IF i <= Len(given) THEN given[i] ELSE current) = i
    <2>1. CASE i <= Len(given)
      <3>1. given[i].key = i /\ given[i].value[2] = i
        BY <1>2, <2>1 DEF GivenFits
      <3> QED
        BY <2>1, <3>1 DEF PairOf
    <2>2. CASE ~ (i <= Len(given))
      <3>1. Way(Readers) # 0 /\ i = use
        BY <1>1, <1>2, <1>3, <2>2
      <3>2. current.key = i /\ current.value[2] = i
        BY <3>1 DEF GivenFits
      <3> QED
        BY <2>2, <3>2 DEF PairOf
    <2> QED
      BY <2>1, <2>2
  <1>5. GivenPairs = [i \in 1 .. use |-> i]
    BY <1>4 DEF GivenPairs
  <1>6. P!Given = {GivenPairs[i] : i \in DOMAIN GivenPairs}
    BY DEF P!Given
  <1> QED
    BY <1>1, <1>5, <1>6

LEMMA SameCardinality ==
  ASSUME NEW S
  PROVE  P!Cardinality(S) = Cardinality(S)
  BY DEF P!Cardinality, Cardinality

\* What Pipe sees: the pairs that are being computed, those that wait for the
\* consumer, and the pairs given to it.
Held == IF Buffers THEN BufferedHeld ELSE DiffusedHeld
Sees == Running = RunsPairs /\ Held = HoldsPairs /\ GivenPairs = [i \in 1 .. use |-> i]

LEMMA SeesNow == PipeInv /\ Buffers /\ BufferedFits => Sees
  <1> SUFFICES ASSUME PipeInv, Buffers, BufferedFits
               PROVE  Sees
    OBVIOUS
  <1>1. WindowFits /\ EntriesFit /\ ConsumerFits /\ GivenFits
    BY DEF BufferedFits
  <1>2. Running = RunsPairs /\ BufferedHeld = HoldsPairs
    BY <1>1, RingIs
  <1>3. GivenPairs = [i \in 1 .. use |-> i]
    BY <1>1, GivenIs
  <1> QED
    BY <1>2, <1>3 DEF Sees, Held

LEMMA SeesNext == PipeInv' /\ Buffers' /\ BufferedFits' => Sees'
  BY SeesNow, PTL

LEMMA SeenIs ==
  ASSUME PipeInv, Buffers, BufferedFits
  PROVE  /\ P!Given = 1 .. use
         /\ use \in Nat /\ fetch \in Nat /\ use <= fetch
         /\ case.size \in Nat \ {0} /\ case.length \in Nat
         /\ IsFiniteSet(RunsPairs \union HoldsPairs)
         /\ P!Cardinality(RunsPairs \union HoldsPairs) \in 0 .. fetch - use
         /\ P!Cardinality(RunsPairs) \in 0 .. fetch - use
         /\ \A p \in RunsPairs \union HoldsPairs : p \in use + 1 .. fetch
         /\ Alive => RunsPairs \union HoldsPairs = use + 1 .. fetch
  <1>1. WindowFits /\ EntriesFit /\ ConsumerFits /\ GivenFits
    BY DEF BufferedFits
  <1>3. P!Given = 1 .. use
    BY <1>1, GivenIs
  <1>4. /\ use \in Nat /\ fetch \in Nat /\ case.size \in Nat \ {0} /\ case.length \in Nat
        /\ use <= fetch
        /\ \A n \in Window : Pair(n) \in {0, n + 1}
    BY <1>1, WindowIs DEF WindowFits
  <1>5. \A p \in RunsPairs \union HoldsPairs : p \in use + 1 .. fetch
    BY <1>4 DEF RunsPairs, HoldsPairs, Window
  <1>6. IsFiniteSet(use + 1 .. fetch) /\ Cardinality(use + 1 .. fetch) = fetch - use
    <2>1. use + 1 \in Int /\ fetch \in Int
      BY <1>4
    <2>2. /\ IsFiniteSet(use + 1 .. fetch)
          /\ Cardinality(use + 1 .. fetch) = IF use + 1 > fetch THEN 0 ELSE fetch - (use + 1) + 1
      BY <2>1, FS_Interval
    <2>3. use \in Nat /\ fetch \in Nat /\ use <= fetch
      BY <1>4
    <2>4. (IF use + 1 > fetch THEN 0 ELSE fetch - (use + 1) + 1) = fetch - use
      BY ONLY <2>3
    <2> QED
      BY ONLY <2>2, <2>4
  <1>7. ASSUME NEW S \in SUBSET (use + 1 .. fetch)
        PROVE  IsFiniteSet(S) /\ P!Cardinality(S) \in 0 .. fetch - use
    <2>1. IsFiniteSet(S) /\ Cardinality(S) <= Cardinality(use + 1 .. fetch)
      BY <1>6, FS_Subset
    <2>2. Cardinality(S) \in Nat
      BY <2>1, FS_CardinalityType
    <2>3. Cardinality(S) <= fetch - use
      BY ONLY <1>6, <2>1
    <2> QED
      BY <1>4, <2>1, <2>2, <2>3, SameCardinality
  <1>8. /\ RunsPairs \union HoldsPairs \in SUBSET (use + 1 .. fetch)
        /\ RunsPairs \in SUBSET (use + 1 .. fetch)
    BY <1>5
  <1>9. Alive => RunsPairs \union HoldsPairs = use + 1 .. fetch
    <2>1. ASSUME Alive, NEW p \in use + 1 .. fetch
          PROVE  p \in RunsPairs \union HoldsPairs
      <3>1. p - 1 \in Window /\ Pair(p - 1) = p /\ p \in Nat \ {0}
        BY <1>4, <2>1 DEF Window, Pair
      <3> QED
        BY <3>1 DEF RunsPairs, HoldsPairs
    <2> QED
      BY <1>5, <2>1
  <1> QED
    BY <1>3, <1>4, <1>5, <1>7, <1>8, <1>9

\* The step leads from one state of the invariant to another.
Between == /\ PipeInv /\ Buffers /\ BufferedFits
           /\ PipeInv' /\ BufferedFits' /\ case' = case

LEMMA BetweenSees ==
  ASSUME Between
  PROVE  /\ Sees /\ Sees' /\ (Buffers' <=> Buffers) /\ Buffers /\ case' = case
         /\ UNCHANGED <<case.size, case.length, Buffers>>
  <1>1. (Buffers' <=> Buffers) /\ case' = case /\ UNCHANGED <<case.size, case.length>>
    BY FramesStay DEF Between
  <1>2. Buffers = TRUE /\ Buffers' = TRUE
    BY <1>1 DEF Between, Buffers
  <1> QED
    BY <1>1, <1>2, SeesNow, SeesNext DEF Between

\* Nothing that Pipe sees has changed, but perhaps the end.
LEMMA PipeQuiet ==
  ASSUME Between, use' = use, RunsPairs' = RunsPairs, HoldsPairs' = HoldsPairs,
         \/ final' = final
         \/ /\ final = "none" /\ final' \in {"nil", "error"}
            /\ final' = "nil" => use = case.length
  PROVE  Piped
  <1>1. Running' = Running /\ GivenPairs' = GivenPairs /\ Held' = Held
    BY BetweenSees DEF Sees
  <1>2. P!Given = 1 .. use
    BY SeenIs DEF Between
  <1>3. UNCHANGED <<case.size, case.length, Buffers>>
    BY BetweenSees
  <1>4. CASE final' = final
    BY <1>1, <1>3, <1>4 DEF Piped, P!vars, Held
  <1>5. CASE /\ final = "none" /\ final' \in {"nil", "error"}
             /\ final' = "nil" => use = case.length
    <2>1. P!End(final')
      BY <1>1, <1>2, <1>5 DEF P!End, Held
    <2> QED
      BY <1>3, <1>5, <2>1 DEF Piped, P!Next
  <1> QED
    BY <1>4, <1>5

LEMMA PipeStarts ==
  ASSUME Between, use' = use,
         final' = final, Alive, fetch < case.length, fetch - use < case.size,
         RunsPairs' = RunsPairs \union {fetch + 1}, HoldsPairs' = HoldsPairs
  PROVE  Piped
  <1> DEFINE p == fetch + 1
  <1>1. /\ Running = RunsPairs /\ Held = HoldsPairs /\ Running' = RunsPairs'
        /\ Held' = HoldsPairs' /\ GivenPairs' = GivenPairs
    BY BetweenSees DEF Sees
  <1>2. /\ P!Given = 1 .. use /\ use \in Nat /\ fetch \in Nat /\ use <= fetch
        /\ case.size \in Nat \ {0} /\ case.length \in Nat
        /\ P!Cardinality(RunsPairs \union HoldsPairs) \in 0 .. fetch - use
        /\ P!Cardinality(RunsPairs) \in 0 .. fetch - use
        /\ RunsPairs \union HoldsPairs = use + 1 .. fetch
    BY SeenIs DEF Between
  <1>3. UNCHANGED <<case.size, case.length, Buffers>> /\ p \in 1 .. case.length
    BY <1>2, BetweenSees
  <1>4. /\ P!Cardinality(Running \union Held) <= case.size
        /\ P!Cardinality(Running) < case.size
    BY <1>1, <1>2
  <1>5. P!Started = 1 .. p - 1
    <2>1. P!Started = Running \union Held \union (1 .. use)
      BY <1>2 DEF P!Started, Held
    <2>2. P!Started = (use + 1 .. fetch) \union (1 .. use)
      BY <1>1, <1>2, <2>1
    <2> QED
      BY <1>2, <2>2
  <1>6. P!Start(p)
    BY <1>1, <1>2, <1>4, <1>5 DEF P!Start, Held
  <1> HIDE DEF p
  <1> QED
    BY <1>3, <1>6 DEF Piped, P!Next

LEMMA PipeReturns ==
  ASSUME Between, use' = use,
         final' = final, NEW p \in RunsPairs, p <= case.length,
         RunsPairs' = RunsPairs \ {p}, HoldsPairs' = HoldsPairs \union {p}
  PROVE  Piped
  <1>1. /\ Running = RunsPairs /\ Held = HoldsPairs /\ Running' = RunsPairs'
        /\ Held' = HoldsPairs' /\ GivenPairs' = GivenPairs
    BY BetweenSees DEF Sees
  <1>2. P!Return(p)
    BY <1>1 DEF P!Return, Held
  <1>3. UNCHANGED <<case.size, case.length, Buffers>> /\ p \in 1 .. case.length
    BY BetweenSees, SeenIs DEF RunsPairs, Between
  <1> QED
    BY <1>2, <1>3 DEF Piped, P!Next

LEMMA CountedOn ==
  ASSUME NEW u \in Nat
  PROVE  [i \in 1 .. u + 1 |-> i] = Append([i \in 1 .. u |-> i], u + 1)
  <1> DEFINE s == [i \in 1 .. u |-> i]
             t == [i \in 1 .. u + 1 |-> i]
  <1>1. s \in Seq(Nat) /\ Len(s) = u /\ t \in Seq(Nat) /\ Len(t) = u + 1
    OBVIOUS
  <1>2. Append(s, u + 1) \in Seq(Nat) /\ Len(Append(s, u + 1)) = u + 1
    BY <1>1
  <1>3. \A i \in 1 .. u + 1 : Append(s, u + 1)[i] = t[i]
    BY <1>1
  <1> HIDE DEF s, t
  <1>4. t = Append(s, u + 1)
    BY <1>1, <1>2, <1>3, SeqEqual
  <1> QED
    BY <1>4 DEF s, t

LEMMA PipeGives ==
  ASSUME Between, use' = use + 1, use < case.length, final' = final, final = "none",
         use + 1 \in HoldsPairs, RunsPairs' = RunsPairs, HoldsPairs' = HoldsPairs \ {use + 1}
  PROVE  Piped
  <1> DEFINE p == use + 1
  <1>1. /\ Running = RunsPairs /\ Held = HoldsPairs /\ Running' = RunsPairs'
        /\ Held' = HoldsPairs'
        /\ GivenPairs = [i \in 1 .. use |-> i] /\ GivenPairs' = [i \in 1 .. use' |-> i]
    BY BetweenSees DEF Sees
  <1>2. /\ use \in Nat /\ case.length \in Nat
        /\ \A q \in RunsPairs \union HoldsPairs : q \in use + 1 .. fetch
    BY SeenIs DEF Between
  <1>3. GivenPairs' = Append(GivenPairs, p)
    BY <1>1, <1>2, CountedOn
  <1>4. \A q \in Running \union Held : p <= q
    BY <1>1, <1>2
  <1>5. P!Give(p)
    BY <1>1, <1>3, <1>4 DEF P!Give, Held
  <1>6. UNCHANGED <<case.size, case.length, Buffers>> /\ p \in 1 .. case.length
    BY <1>2, BetweenSees
  <1> HIDE DEF p
  <1> QED
    BY <1>5, <1>6 DEF Piped, P!Next
------------------------------------------------------------------------------
(* buffered: what a step keeps.                                              *)

\* A step from the invariant, in which a is over and f and g are new.
Some == Frames \union {Nothing}

Step(a, f, g) ==
  /\ PipeInv /\ Buffers /\ BufferedFits /\ PipeInv' /\ case' = case
  /\ a \in Some /\ f \in Some /\ g \in Some /\ Moves(a, f, g)
  /\ a = Nothing \/ Under(a)

LEMMA StepIs ==
  ASSUME NEW a, NEW f, NEW g, Step(a, f, g)
  PROVE  /\ Types /\ Types' /\ case' = case /\ case \in Cases /\ (Buffers' <=> Buffers)
         /\ a \in Frames \union {Nothing} /\ f \in Frames \union {Nothing}
         /\ g \in Frames \union {Nothing} /\ Moves(a, f, g)
         /\ WindowFits /\ FetchesFit /\ EntriesFit /\ ConsumerFits /\ GivenFits
         /\ \A H : "nothing" \notin H =>
              /\ Count(H) \in Nat
              /\ Count(H)' = Count(H) - One(a, H) + One(f, H) + One(g, H)
  <1>1. Types /\ Types' /\ case' = case /\ case \in Cases /\ (Buffers' <=> Buffers)
    BY FramesStay DEF Step, PipeInv, Types
  <1>2. /\ a \in Frames \union {Nothing} /\ f \in Frames \union {Nothing}
        /\ g \in Frames \union {Nothing} /\ Moves(a, f, g)
    BY DEF Step, Some
  <1>3. WindowFits /\ FetchesFit /\ EntriesFit /\ ConsumerFits /\ GivenFits
    BY DEF Step, BufferedFits
  <1> QED
    BY <1>1, <1>2, <1>3, CountMoves

LEMMA CountNext ==
  ASSUME NEW a, NEW f, NEW g, Step(a, f, g), NEW H
  PROVE  Count(H)' \in Nat
  <1>1. stack' \in Seq(Frames) /\ sched' \in Seq(Frames)
    BY StepIs, FramesStay DEF Types
  <1>2. Count(H)' = Many(stack', Named(H)) + Many(sched', Named(H))
    BY StepIs, NextWay
  <1> QED
    BY <1>1, <1>2, ManyFinite

\* The only handler of H that can be under way afterwards.
LEMMA NoOther ==
  ASSUME NEW a, NEW f, NEW g, Step(a, f, g), NEW H, "nothing" \notin H,
         Count(H) <= One(a, H), NEW h \in Frames, h[1] \in H, Under(h)'
  PROVE  h = f \/ h = g
  <1> SUFFICES ASSUME h # f, h # g
               PROVE  FALSE
    OBVIOUS
  <1>1. Under(h)
    BY StepIs, UnderMoves
  <1>2. /\ Way({h}) \in Nat \ {0} /\ Way({h}) <= Count(H) /\ Count(H) \in Nat
        /\ Count(H) <= One(a, H) /\ One(a, H) \in {0, 1}
    <2>1. {h} \subseteq Named(H)
      BY DEF Named
    <2> QED
      BY <1>1, <2>1, WayLess, WayNat, StepIs DEF Under, Count, One
  <1>3. CASE h = a
    <2>1. Many(stack', {h}) + Many(sched', {h}) = Way({h}) - 1
      <3>1. In(a, {h}) = 1 /\ In(f, {h}) = 0 /\ In(g, {h}) = 0
        BY <1>3 DEF In
      <3>2. {h} \in SUBSET Frames
        OBVIOUS
      <3> QED
        BY <1>2, <3>1, <3>2, StepIs DEF Moves
    <2>2. Many(stack', {h}) + Many(sched', {h}) # 0
      BY NextWay, StepIs
    <2> QED
      BY <1>2, <2>1, <2>2
  <1>4. CASE h # a
    <2>1. One(a, H) = 1 /\ a[1] \in H
      BY <1>2 DEF One
    <2>2. a # Nothing /\ a \in Frames /\ Under(a)
      BY <2>1 DEF Nothing, Step, Some
    <2>3. Way({h} \union {a}) = Way({h}) + Way({a})
      BY <1>4, WayUnion, StepIs
    <2>4. {h} \union {a} \subseteq Named(H)
      BY <2>1, <2>2 DEF Named
    <2>5. Way({h} \union {a}) <= Count(H) /\ Way({a}) \in Nat \ {0}
      BY <2>2, <2>4, WayLess, WayNat, StepIs DEF Count, Under
    <2> QED
      BY ONLY <1>2, <2>3, <2>5
  <1> QED
    BY <1>3, <1>4

\* The next pair is being fetched, or can be.
LEMMA AliveIs ==
  ASSUME PipeInv
  PROVE  /\ Alive <=> Count(Fetch) + Tok(head) = 1
         /\ ~ Alive <=> Count(Fetch) + Tok(head) = 0
         /\ Count(Fetch) \in {0, 1} /\ Tok(head) \in {0, 1}
  BY FetchingIs DEF Alive, Fetching, Tok

LEMMA AliveNext == PipeInv' => (Alive <=> Count(Fetch) + Tok(head) = 1)'
  <1>1. PipeInv => (Alive <=> Count(Fetch) + Tok(head) = 1)
    BY AliveIs
  <1> QED
    BY <1>1, PTL

LEMMA FetchingNext == PipeInv' => (Count(Fetch) \in Nat)'
  <1>1. PipeInv => Count(Fetch) \in Nat
    BY FetchingIs
  <1> QED
    BY <1>1, PTL

LEMMA AliveStays ==
  ASSUME NEW a, NEW f, NEW g, Step(a, f, g),
         One(a, Fetch) + Tok(head) = One(f, Fetch) + One(g, Fetch) + Tok(head')
  PROVE  Alive' <=> Alive
  <1>1. "nothing" \notin Fetch
    BY DEF Fetch
  <1>2. Count(Fetch)' = Count(Fetch) - One(a, Fetch) + One(f, Fetch) + One(g, Fetch)
        /\ Count(Fetch) \in Nat
    BY <1>1, StepIs
  <1>3. /\ One(a, Fetch) \in {0, 1} /\ One(f, Fetch) \in {0, 1} /\ One(g, Fetch) \in {0, 1}
        /\ Tok(head) \in {0, 1} /\ Tok(head') \in {0, 1} /\ Tok(head)' = Tok(head')
    BY DEF One, Tok
  <1>4. Count(Fetch)' + Tok(head)' = Count(Fetch) + Tok(head)
    BY <1>2, <1>3
  <1> QED
    BY <1>4, AliveIs, AliveNext DEF Step

LEMMA FetchingMoves ==
  ASSUME NEW a, NEW f, NEW g, Step(a, f, g)
  PROVE  Fetching' => Fetching \/ f[1] \in Fetch \/ g[1] \in Fetch
  <1>1. "nothing" \notin Fetch
    BY DEF Fetch
  <1>2. Count(Fetch)' = Count(Fetch) - One(a, Fetch) + One(f, Fetch) + One(g, Fetch)
        /\ Count(Fetch) \in Nat /\ One(a, Fetch) \in {0, 1}
    BY <1>1, StepIs DEF One
  <1>3. CASE f[1] \notin Fetch /\ g[1] \notin Fetch /\ Count(Fetch) = 0 /\ Fetching'
    <2>1. One(f, Fetch) = 0 /\ One(g, Fetch) = 0 /\ Count(Fetch)' # 0
      BY <1>3 DEF One, Fetching
    <2>2. Count(Fetch)' \in Nat
      BY FetchingNext DEF Step
    <2> QED
      BY <1>2, <1>3, <2>1, <2>2
  <1> QED
    BY <1>3 DEF Fetching

LEMMA WindowKeep ==
  ASSUME NEW a, NEW f, NEW g, Step(a, f, g), use' = use, fetch' = fetch, Alive' <=> Alive,
         Room \/ (f[1] \notin Fetch /\ g[1] \notin Fetch)
  PROVE  WindowFits'
  <1>1. Fetching' => Fetching \/ Room
    BY FetchingMoves
  <1> QED
    BY <1>1, StepIs DEF WindowFits, Room

\* No handler that fetches is new.
LEMMA FetchKeep ==
  ASSUME NEW a, NEW f, NEW g, Step(a, f, g), f[1] \notin Fetch, g[1] \notin Fetch,
         position' = position, fetch' = fetch, head' => head,
         entries'[Slot(fetch)].key = entries[Slot(fetch)].key \/ ~ Fetching
  PROVE  FetchesFit'
  <1>1. ASSUME NEW h \in Frames, Under(h)', h[1] \in Fetch
        PROVE  FetchFits(h)'
    <2>1. Under(h)
      BY <1>1, StepIs, UnderMoves
    <2>2. Fetching
      <3>1. {h} \subseteq Named(Fetch)
        BY <1>1 DEF Named
      <3>2. Way({h}) # 0 /\ Way({h}) <= Count(Fetch) /\ Way({h}) \in Nat /\ Count(Fetch) \in Nat
        BY <2>1, <3>1, WayLess, WayNat, StepIs DEF Under, Count
      <3> QED
        BY <3>2 DEF Fetching
    <2>3. FetchFits(h)
      BY <2>1, StepIs DEF FetchesFit
    <2>4. Slot(fetch)' = Slot(fetch)
      BY StepIs DEF Slot
    <2> QED
      BY <2>2, <2>3, <2>4, StepIs DEF FetchFits
  <1>2. \A h \in Frames : h[1] \notin Fetch => FetchFits(h)'
    BY DEF FetchFits, Fetch
  <1>3. head' => position' = fetch'
    BY StepIs DEF FetchesFit
  <1>4. Frames' = Frames
    BY StepIs, FramesStay
  <1> QED
    BY <1>1, <1>2, <1>3, <1>4 DEF FetchesFit

\* f is the only one.
LEMMA FetchNew ==
  ASSUME NEW a, NEW f, NEW g, Step(a, f, g), Count(Fetch) <= One(a, Fetch),
         g[1] \notin Fetch, f[1] \in Fetch => FetchFits(f)', head' => position' = fetch'
  PROVE  FetchesFit'
  <1>1. "nothing" \notin Fetch
    BY DEF Fetch
  <1>2. ASSUME NEW h \in Frames, Under(h)', h[1] \in Fetch
        PROVE  FetchFits(h)'
    <2>1. h = f
      BY <1>1, <1>2, NoOther
    <2> QED
      BY <1>2, <2>1
  <1>3. \A h \in Frames : h[1] \notin Fetch => FetchFits(h)'
    BY DEF FetchFits, Fetch
  <1>4. Frames' = Frames
    BY StepIs, FramesStay
  <1> QED
    BY <1>2, <1>3, <1>4 DEF FetchesFit

LEMMA WayOfMoves ==
  ASSUME NEW a, NEW f, NEW g, Step(a, f, g), NEW F \in SUBSET Frames, F' = F
  PROVE  /\ Way(F) \in Nat
         /\ Way(F)' = Way(F) - In(a, F) + In(f, F) + In(g, F)
  <1>1. Way(F)' = Many(stack', F) + Many(sched', F)
    BY DEF Way, Many, Places
  <1> QED
    BY <1>1, WayNat, StepIs DEF Moves

\* The counterpart for the answers for an entry.
LEMMA AnswersMove ==
  ASSUME NEW a, NEW f, NEW g, Step(a, f, g), NEW s \in Slots, NEW p \in Nat
  PROVE  /\ Answers(s, p) \in Nat
         /\ Answers(s, p)' = Answers(s, p) - In(a, EntryOf(s, p)) + In(f, EntryOf(s, p))
                               + In(g, EntryOf(s, p))
  <1>1. EntryOf(s, p) \in SUBSET Frames
    BY EntryOfIs
  <1>2. EntryOf(s, p)' = EntryOf(s, p)
    BY DEF EntryOf
  <1>3. Answers(s, p)' = Many(stack', EntryOf(s, p)) + Many(sched', EntryOf(s, p))
    BY <1>2 DEF Answers, Way, Many, Places
  <1> QED
    BY <1>1, <1>3, WayNat, StepIs DEF Moves, Answers

LEMMA NoAnswer ==
  ASSUME NEW x, x[1] # "entry", NEW s, NEW p
  PROVE  In(x, EntryOf(s, p)) = 0
  BY DEF In, EntryOf

\* The ring is as before.
LEMMA EntryKeep ==
  ASSUME NEW a, NEW f, NEW g, Step(a, f, g),
         a[1] # "entry", f[1] # "entry", g[1] # "entry",
         use' = use, fetch' = fetch, open' = open, Alive' <=> Alive,
         \A n \in Nat : entries'[Slot(n)].value = entries[Slot(n)].value,
         \A n \in Window : entries'[Slot(n)].key = entries[Slot(n)].key
  PROVE  EntriesFit' /\ RunsPairs' = RunsPairs /\ HoldsPairs' = HoldsPairs
  <1>1. /\ case' = case /\ case.size \in Nat /\ Window \subseteq Nat /\ use \in Nat /\ fetch \in Nat
        /\ \A n \in Window : Slot(n) \in Slots /\ Pair(n) \in Nat
        /\ EntriesFit /\ Types /\ Types' /\ Slots' = Slots /\ Frames' = Frames
    BY WindowIs, StepIs, FramesStay DEF Step
  <1>2. /\ Window' = Window /\ \A n : Slot(n)' = Slot(n) /\ (Pair(n)' = Pair(n))
    BY <1>1 DEF Window, Slot, Pair
  <1>3. \A n \in Nat : Full(n)' <=> Full(n)
    BY <1>1, <1>2 DEF Full, Empty, Slot
  <1>4. \A n : \A v : Fits(n, v)' <=> Fits(n, v)
    BY <1>1, <1>2 DEF Fits
  <1>5. \A s \in Slots, p \in Nat : Answers(s, p)' = Answers(s, p)
    BY AnswersMove, NoAnswer
  <1>6. ASSUME NEW n \in Window
        PROVE  EntryFits(n)'
    <2>1. PICK s \in Slots, p \in Nat :
            /\ s = Slot(n) /\ p = Pair(n) /\ entries[s].key = p
            /\ Answers(s, p) + Tok(<<s, p>> \in open) + Tok(Full(n)) = 1
            /\ Full(n) => Fits(n, entries[s].value)
      BY <1>1 DEF EntriesFit, EntryFits
    <2>2. n \in Nat /\ entries'[s].key = p /\ entries'[s].value = entries[s].value
      BY <1>1, <1>6, <2>1
    <2>3. Answers(s, p)' = Answers(s, p) /\ (Full(n)' <=> Full(n))
          /\ Pair(n)' = Pair(n) /\ Slot(n)' = Slot(n)
      BY <1>2, <1>3, <1>5, <2>2
    <2> QED
      BY <1>1, <2>1, <2>2, <2>3 DEF EntryFits, Tok, Fits
  <1>7. \A n \in fetch .. use + case.size - 1 : ~ Full(n)'
    BY <1>1, <1>3 DEF EntriesFit
  <1>8. ASSUME NEW h \in Frames, Under(h)', h[1] = "entry"
        PROVE  \E n \in Window : h[2][1] = Slot(n) /\ Fits(n, h[2][2])
    <2>1. Under(h)
      BY <1>8, StepIs, UnderMoves
    <2> QED
      BY <1>1, <1>8, <2>1 DEF EntriesFit
  <1>9. \A c \in open : \E n \in Window : Pair(n) = n + 1 /\ c = <<Slot(n), n + 1>>
    BY <1>1 DEF EntriesFit
  <1>10. EntriesFit'
    BY <1>1, <1>2, <1>4, <1>6, <1>7, <1>8, <1>9 DEF EntriesFit
  <1>11. RunsPairs' = RunsPairs /\ HoldsPairs' = HoldsPairs
    BY <1>1, <1>2, <1>3 DEF RunsPairs, HoldsPairs
  <1> QED
    BY <1>10, <1>11

\* No handler that serves the consumer ends or is new.
LEMMA ConsumerKeep ==
  ASSUME NEW a, NEW f, NEW g, Step(a, f, g), ~ Runs("call"),
         a[1] \notin Telling, f[1] \notin Telling, g[1] \notin Telling,
         idle' = idle, final' = final, caller' = caller, use' = use,
         \/ Alive
         \/ fetch' = fetch /\ (Alive' <=> Alive) /\ entries'[Slot(use)].value = entries[Slot(use)].value
  PROVE  ConsumerFits'
  <1>1. /\ ConsumerFits /\ case' = case /\ Frames' = Frames
        /\ \A H : "nothing" \notin H =>
              /\ Count(H) \in Nat
              /\ Count(H)' = Count(H) - One(a, H) + One(f, H) + One(g, H)
    BY StepIs, FramesStay
  <1>2. "nothing" \notin Telling /\ "nothing" \notin {"call"}
    BY DEF Telling
  <1>3. /\ One(a, Telling) = 0 /\ One(f, Telling) = 0 /\ One(g, Telling) = 0
        /\ One(a, {"call"}) = 0 /\ One(f, {"call"}) = 0 /\ One(g, {"call"}) = 0
    BY DEF One, Telling
  <1>4. Count(Telling)' = Count(Telling) /\ Count({"call"})' = Count({"call"})
        /\ Count(Telling) \in Nat /\ Count({"call"}) \in Nat
    BY <1>1, <1>2, <1>3
  <1>5. Count({"call"}) = 0
    BY <1>1 DEF ConsumerFits
  <1>6. Busy' = Busy
    BY <1>4 DEF Busy, Served
  <1>7. ASSUME NEW h \in Frames, Under(h)', h[1] = "consumer"
        PROVE  h[2] \in {"state", "nil", "error"} /\ (h[2] = "nil" => use = case.length)
    <2>1. h # f /\ h # g
      BY <1>7 DEF Telling
    <2>2. Under(h)
      BY <1>7, <2>1, StepIs, UnderMoves
    <2> QED
      BY <1>1, <1>7, <2>2 DEF ConsumerFits
  <1>8. caller => \/ Busy = 0
                  \/ use = fetch' - 1 /\ ~ Alive' /\ Full(use)'
    <2>1. caller => Busy = 0 \/ (use = fetch - 1 /\ ~ Alive /\ Full(use))
      BY <1>1 DEF ConsumerFits
    <2>2. Slot(use)' = Slot(use)
      BY <1>1 DEF Slot
    <2>3. ASSUME entries'[Slot(use)].value = entries[Slot(use)].value
          PROVE  Full(use)' <=> Full(use)
      BY <2>2, <2>3 DEF Full, Empty
    <2> QED
      BY <2>1, <2>3
  <1>9. Count({"call"})' = 0
    BY <1>4, <1>5
  <1>10. idle' \in BOOLEAN /\ caller' \in BOOLEAN /\ Busy' <= 1
    BY <1>1, <1>6 DEF ConsumerFits
  <1>11. caller' => \/ Busy' = 0
                    \/ use' = fetch' - 1 /\ ~ Alive' /\ Full(use)'
    BY <1>6, <1>8
  <1> QED
    BY <1>1, <1>7, <1>9, <1>10, <1>11 DEF ConsumerFits

\* The pairs that the consumer got, or is about to get, stay.
LEMMA GivenKeep ==
  ASSUME NEW a, NEW f, NEW g, Step(a, f, g),
         In(a, Readers) = In(f, Readers) + In(g, Readers),
         given' = given, use' = use, current' = current
  PROVE  GivenFits'
  <1>1. GivenFits /\ Readers \in SUBSET Frames /\ Readers' = Readers
    BY StepIs DEF Readers, Frames
  <1>2. Way(Readers)' = Way(Readers)
    <2>1. /\ Way(Readers) \in Nat
          /\ Way(Readers)' = Way(Readers) - In(a, Readers) + In(f, Readers) + In(g, Readers)
      BY <1>1, WayOfMoves
    <2>2. In(a, Readers) \in {0, 1} /\ In(f, Readers) \in {0, 1} /\ In(g, Readers) \in {0, 1}
      BY DEF In
    <2> QED
      BY <2>1, <2>2
  <1> QED
    BY <1>1, <1>2 DEF GivenFits, Entry

LEMMA NoReader ==
  ASSUME NEW x, x[1] \notin Telling
  PROVE  In(x, Readers) = 0
  BY DEF In, Readers, Telling

\* The step keeps the invariant and is one of Pipe's, or none.
Goes == BufferedFits' /\ Piped

LEMMA BetweenIs ==
  ASSUME NEW a, NEW f, NEW g, Step(a, f, g), BufferedFits'
  PROVE  Between
  BY DEF Step, Between

\* The ring is as before: Pipe sees the end at most.
LEMMA RingKeep ==
  ASSUME NEW a, NEW f, NEW g, Step(a, f, g),
         a[1] # "entry", f[1] # "entry", g[1] # "entry",
         use' = use, fetch' = fetch, open' = open,
         One(a, Fetch) + Tok(head) = One(f, Fetch) + One(g, Fetch) + Tok(head'),
         Room \/ (f[1] \notin Fetch /\ g[1] \notin Fetch),
         \A n \in Nat : entries'[Slot(n)].value = entries[Slot(n)].value,
         \A n \in Window : entries'[Slot(n)].key = entries[Slot(n)].key,
         FetchesFit', ConsumerFits', GivenFits',
         \/ final' = final
         \/ /\ final = "none" /\ final' \in {"nil", "error"}
            /\ final' = "nil" => use = case.length
  PROVE  Goes
  <1>1. Alive' <=> Alive
    BY AliveStays
  <1>2. EntriesFit' /\ RunsPairs' = RunsPairs /\ HoldsPairs' = HoldsPairs
    BY <1>1, EntryKeep
  <1>3. WindowFits'
    BY <1>1, WindowKeep
  <1>4. BufferedFits'
    BY <1>2, <1>3 DEF BufferedFits
  <1>5. Between
    BY <1>4, BetweenIs
  <1> QED
    BY <1>2, <1>4, <1>5, PipeQuiet DEF Goes

\* A step that only enters and leaves handlers that neither fetch nor serve the consumer.
LEMMA QuietGoes ==
  ASSUME NEW a, NEW f, NEW g, Step(a, f, g), ~ Runs("call"),
         \A x \in {a, f, g} : x[1] \notin Telling \union Fetch \union {"entry"},
         UNCHANGED <<use, fetch, open, head, position, entries, idle, final, caller,
                     given, current>>
  PROVE  Goes
  <1>1. /\ use' = use /\ fetch' = fetch /\ open' = open /\ head' = head
        /\ position' = position /\ entries' = entries /\ idle' = idle /\ final' = final
        /\ caller' = caller /\ given' = given /\ current' = current
    OBVIOUS
  <1>2. \A x \in {a, f, g} : One(x, Fetch) = 0 /\ In(x, Readers) = 0
    BY NoReader DEF One
  <1>3. One(a, Fetch) + Tok(head) = One(f, Fetch) + One(g, Fetch) + Tok(head')
    BY <1>1, <1>2 DEF Tok
  <1>4. FetchesFit'
    BY <1>1, FetchKeep
  <1>5. ConsumerFits'
    <2>1. Alive' <=> Alive
      BY <1>3, AliveStays
    <2> QED
      BY <1>1, <2>1, ConsumerKeep
  <1>6. GivenFits'
    BY <1>1, <1>2, GivenKeep
  <1> QED
    BY <1>1, <1>3, <1>4, <1>5, <1>6, RingKeep
------------------------------------------------------------------------------
(* buffered: the steps that leave the ring as it is.                         *)

\* The step starts in the invariant, and what is proved above is kept.
Good == PipeInv /\ Buffers /\ BufferedFits /\ PipeInv' /\ case' = case

LEMMA GoodIs ==
  ASSUME Good
  PROVE  /\ Types /\ case \in Cases /\ case.size \in Nat \ {0} /\ case.length \in Nat
         /\ use \in Nat /\ fetch \in Nat /\ position \in Nat /\ head \in BOOLEAN
         /\ use <= fetch /\ \A n \in Nat : Slot(n) \in Slots
         /\ stack # <<>> => stack[1] \in Frames /\ Under(stack[1])
         /\ WindowFits /\ FetchesFit /\ EntriesFit /\ ConsumerFits /\ GivenFits
  <1>1. stack # <<>> => stack[1] \in Frames /\ Under(stack[1])
    <2>1. ASSUME stack # <<>>
          PROVE  stack[1] \in Frames /\ Under(stack[1])
      <3>1. stack[1] \in Frames
        BY <2>1, TailMany DEF Good, PipeInv, Types
      <3>2. Way({stack[1]}) >= 1
        BY <2>1, WayTop DEF Good, PipeInv
      <3> QED
        BY <3>1, <3>2, WayNat DEF Under, Good, PipeInv
    <2> QED
      BY <2>1
  <1>2. WindowFits /\ FetchesFit /\ EntriesFit /\ ConsumerFits /\ GivenFits
    BY DEF Good, BufferedFits
  <1> QED
    BY <1>1, <1>2, WindowIs DEF Good, PipeInv, Types, WindowFits

LEMMA NothingIs ==
  /\ Nothing \in Some /\ Nothing[1] \notin Telling \union Fetch \union {"entry"}
  /\ One(Nothing, Fetch) = 0 /\ In(Nothing, Readers) = 0 /\ One(Nothing, Telling) = 0
  /\ One(Nothing, {"call"}) = 0
  BY DEF Nothing, Some, Telling, Fetch, One, In, Readers

LEMMA FollowStep ==
  ASSUME Good, stack # <<>>, NEW f \in Frames,
         Continue(f, Tail(stack)) \/ Calls(f, Tail(stack))
  PROVE  Step(stack[1], f, Nothing)
  BY GoodIs, NothingIs, ContinueMoves DEF Step, Good, Some

LEMMA BothStep ==
  ASSUME Good, stack # <<>>, NEW f \in Frames, NEW g \in Frames,
         Continue(f, <<g>> \o Tail(stack)) \/ Calls(f, <<g>> \o Tail(stack))
  PROVE  Step(stack[1], f, g)
  BY GoodIs, NothingIs, BothMove DEF Step, Good, Some

LEMMA ReturnsStep ==
  ASSUME Good, stack # <<>>, Returns
  PROVE  Step(stack[1], Nothing, Nothing)
  BY GoodIs, NothingIs, ReturnsMove DEF Step, Good, Some

LEMMA StartStep ==
  ASSUME Good, stack = <<>>, NEW f \in Frames,
         Continue(f, <<>>) \/ (stack' = <<f>> /\ sched' = sched)
  PROVE  Step(Nothing, f, Nothing)
  BY GoodIs, NothingIs, StartMoves DEF Step, Good, Some

\* The running handler fetches.
LEMMA FetchRuns ==
  ASSUME Good, stack # <<>>, stack[1][1] \in Fetch
  PROVE  /\ Count(Fetch) = 1 /\ Fetching /\ Alive /\ head = FALSE
         /\ One(stack[1], Fetch) = 1 /\ One(stack[1], Telling) = 0
         /\ stack[1][1] \notin Telling /\ stack[1][1] # "entry"
         /\ FetchFits(stack[1]) /\ fetch - use < case.size /\ fetch <= case.length
         /\ ~ Runs("call") /\ In(stack[1], Readers) = 0
  <1>1. stack[1] \in Frames /\ Under(stack[1]) /\ Types /\ head \in BOOLEAN /\ PipeInv
        /\ FetchesFit /\ WindowFits
    BY GoodIs DEF Good
  <1>2. Fetching
    <2>1. stack[1] \in Named(Fetch)
      BY <1>1 DEF Named
    <2>2. Count(Fetch) >= 1
      BY <1>1, <2>1, WayTop DEF Count
    <2> QED
      BY <2>2, FetchingIs DEF Good, Fetching
  <1>3. Count(Fetch) = 1 /\ ~ head /\ Alive
    BY <1>1, <1>2, FetchingIs DEF Alive
  <1>4. stack[1][1] \notin Telling /\ stack[1][1] # "entry" /\ stack[1][1] # "call"
    BY DEF Fetch, Telling
  <1> QED
    BY <1>1, <1>2, <1>3, <1>4, NoReader DEF FetchesFit, WindowFits, One, Runs

\* The pair that the iterator is at is read.
LEMMA ReadGoes ==
  ASSUME Good, stack # <<>>, stack[1][1] \in Fetch, NEW h \in {"key", "value"}, Reads(h),
         fetch < case.length, position = fetch + 1,
         h = "value" => entries'[Slot(fetch)].key = fetch + 1,
         \A n \in Nat : entries'[Slot(n)].value = entries[Slot(n)].value,
         \A n \in Window : entries'[Slot(n)].key = entries[Slot(n)].key,
         UNCHANGED <<use, fetch, open, head, position, idle, final, caller, given, current>>
  PROVE  Goes
  <1>1. /\ use' = use /\ fetch' = fetch /\ open' = open /\ head' = head
        /\ position' = position /\ idle' = idle /\ final' = final
        /\ caller' = caller /\ given' = given /\ current' = current /\ case' = case
    BY DEF Good
  <1>2. PICK f \in Frames : /\ f[1] = h /\ f[2] \in {fetch + 1, 0}
                            /\ Continue(f, Tail(stack))
    <2>1. PICK k \in {position, 0} : Continue(<<h, k>>, Tail(stack))
      BY DEF Reads
    <2>2. <<h, k>> \in Frames
      BY GoodIs DEF Frames
    <2> QED
      BY <2>1, <2>2
  <1>3. FetchFits(f)'
    <2>1. Slot(fetch)' = Slot(fetch)
      BY <1>1 DEF Slot
    <2> QED
      BY <1>1, <1>2, <2>1, GoodIs DEF FetchFits
  <1>4. Step(stack[1], f, Nothing)
    BY <1>2, FollowStep
  <1>5. f[1] \in Fetch /\ f[1] \notin Telling /\ f[1] # "entry"
        /\ One(f, Fetch) = 1 /\ In(f, Readers) = 0
    <2>1. f[1] \in Fetch /\ f[1] \notin Telling /\ f[1] # "entry"
      BY <1>2 DEF Fetch, Telling
    <2> QED
      BY <2>1, NoReader DEF One
  <1>6. /\ Count(Fetch) = 1 /\ Alive /\ Tok(head) = 0 /\ ~ head
        /\ One(stack[1], Fetch) = 1 /\ stack[1][1] \notin Telling /\ stack[1][1] # "entry"
        /\ ~ Runs("call") /\ In(stack[1], Readers) = 0 /\ Room
    BY FetchRuns DEF Tok, Room
  <1>7. /\ Nothing[1] \notin Telling /\ Nothing[1] \notin Fetch /\ Nothing[1] # "entry"
        /\ One(Nothing, Fetch) = 0 /\ In(Nothing, Readers) = 0
    BY NothingIs
  <1>8. FetchesFit'
    BY <1>1, <1>3, <1>4, <1>6, <1>7, FetchNew
  <1>9. ConsumerFits'
    BY <1>1, <1>4, <1>5, <1>6, <1>7, ConsumerKeep
  <1>10. GivenFits'
    BY <1>1, <1>4, <1>5, <1>6, <1>7, GivenKeep
  <1>11. One(stack[1], Fetch) + Tok(head) = One(f, Fetch) + One(Nothing, Fetch) + Tok(head')
    BY <1>1, <1>5, <1>6, <1>7
  <1> QED
    BY <1>1, <1>4, <1>5, <1>6, <1>7, <1>8, <1>9, <1>10, <1>11, RingKeep

\* What the running handler h has under way.
LEMMA RunsIs ==
  ASSUME Good, NEW h, Runs(h)
  PROVE  /\ stack # <<>> /\ stack[1] \in Frames /\ stack[1][1] = h /\ Under(stack[1])
         /\ FetchFits(stack[1]) /\ stack[1] = <<h, Arg>>
         /\ h # "call" => ~ Runs("call")
  <1>1. stack # <<>> /\ stack[1][1] = h
    BY DEF Runs
  <1>2. stack[1] \in Frames /\ Under(stack[1]) /\ FetchFits(stack[1])
    BY <1>1, GoodIs DEF FetchesFit
  <1>3. stack[1] = <<h, Arg>>
    BY <1>1, <1>2 DEF Frames, Arg
  <1> QED
    BY <1>1, <1>2, <1>3 DEF Runs

LEMMA IterateReads ==
  ASSUME Good, BufferedIterate, Arg = "iter"
  PROVE  Goes
  <1>1. /\ Reads("key") /\ UNCHANGED <<entries, fetch>>
        /\ UNCHANGED <<position, open, caller, given, idle, final, use, head, current>>
    BY DEF BufferedIterate
  <1>2. stack # <<>> /\ stack[1] = <<"iterate", "iter">> /\ FetchFits(stack[1])
    BY RunsIs DEF BufferedIterate
  <1>3. fetch < case.length /\ position = fetch + 1
    BY <1>2 DEF FetchFits
  <1>4. stack[1][1] \in Fetch
    BY <1>2 DEF Fetch
  <1> QED
    BY <1>1, <1>2, <1>3, <1>4, ReadGoes

LEMMA KeyReads ==
  ASSUME Good, BufferedKey, Arg # 0
  PROVE  Goes
  <1>1. /\ entries' = [entries EXCEPT ![Slot(fetch)].key = Arg]
        /\ Reads("value") /\ UNCHANGED fetch
        /\ UNCHANGED <<position, open, caller, given, idle, final, use, head, current>>
    BY DEF BufferedKey
  <1>2. stack # <<>> /\ stack[1] = <<"key", Arg>> /\ FetchFits(stack[1])
    BY RunsIs DEF BufferedKey
  <1>3. fetch < case.length /\ position = fetch + 1 /\ Arg = fetch + 1
    BY <1>2 DEF FetchFits
  <1>4. stack[1][1] \in Fetch
    BY <1>2 DEF Fetch
  <1>5. /\ \A n \in Nat : Slot(n) \in Slots
        /\ entries \in [Slots -> [key : Nat, value : Outcomes \X Nat]]
        /\ fetch \in Nat /\ use \in Nat /\ case \in Cases /\ case.size \in Nat \ {0}
        /\ fetch - use < case.size /\ use <= fetch
    BY <1>2, <1>4, GoodIs, FetchRuns DEF Types
  <1>6. ASSUME NEW n \in Nat
        PROVE  entries'[Slot(n)].value = entries[Slot(n)].value
    BY <1>1, <1>5
  <1>7. ASSUME NEW n \in Window
        PROVE  entries'[Slot(n)].key = entries[Slot(n)].key
    <2>1. n \in use .. use + case.size - 1 /\ fetch \in use .. use + case.size - 1 /\ n # fetch
      <3>1. n \in use .. fetch - 1
        BY <1>7 DEF Window
      <3> QED
        BY ONLY <1>5, <3>1
    <2>2. Slot(n) # Slot(fetch)
      BY <1>5, <2>1, SlotOnce
    <2>3. n \in Nat
      BY <1>5, <2>1
    <2> QED
      BY <1>1, <1>5, <2>2, <2>3
  <1>8. entries'[Slot(fetch)].key = fetch + 1
    BY <1>1, <1>3, <1>5
  <1> QED
    BY <1>1, <1>2, <1>3, <1>4, <1>6, <1>7, <1>8, ReadGoes

\* What the iterator answers when it is asked for the pair after p.
LEMMA AskIs ==
  ASSUME Good, position = fetch, fetch <= case.length, NEW rest, AskIter(rest), fetch' = fetch
  PROVE  /\ position' = fetch + 1
         /\ \E f \in Frames : /\ f[1] = "iterate" /\ FetchFits(f)' /\ Continue(f, rest)
  <1>1. PICK x \in {IF position < case.length THEN "iter" ELSE "nil", "error"} :
          Continue(<<"iterate", x>>, rest)
    BY DEF AskIter
  <1>2. position' = fetch + 1 /\ case' = case /\ fetch \in Nat /\ case.length \in Nat
    BY GoodIs DEF AskIter, Good
  <1>3. PICK f \in Frames : f = <<"iterate", x>>
    BY DEF Frames
  <1>4. FetchFits(f)'
    <2>1. f[1] = "iterate" /\ f = <<"iterate", x>>
      BY <1>3
    <2>2. f = <<"iterate", "iter">> => fetch < case.length
      BY <1>2, <1>3
    <2>3. f = <<"iterate", "nil">> => fetch = case.length
      BY <1>2, <1>3
    <2> QED
      BY <1>2, <2>1, <2>2, <2>3 DEF FetchFits
  <1>5. Continue(f, rest) /\ f[1] = "iterate"
    BY <1>1, <1>3
  <1> QED
    BY <1>2, <1>4, <1>5

\* The handler f fetches; it is new, with a over, or with Head reset.
LEMMA FetchedIs ==
  ASSUME NEW f, f[1] = "iterate"
  PROVE  /\ f[1] \in Fetch /\ f[1] \notin Telling /\ f[1] # "entry"
         /\ One(f, Fetch) = 1 /\ In(f, Readers) = 0
         /\ One(f, Telling) = 0 /\ One(f, {"call"}) = 0
  <1>1. f[1] \in Fetch /\ f[1] \notin Telling /\ f[1] # "entry" /\ f[1] # "call"
    BY DEF Fetch, Telling
  <1> QED
    BY <1>1, NoReader DEF One

\* The iterator is at the pair before fetch.
LEMMA HeadIs ==
  ASSUME Good, head
  PROVE  Alive /\ Count(Fetch) = 0 /\ ~ Fetching /\ position = fetch /\ fetch <= case.length
         /\ Tok(head) = 1
  <1>1. Count(Fetch) = 0 /\ Alive /\ ~ Fetching
    BY FetchingIs DEF Good, Alive, Tok, Fetching
  <1>2. FetchesFit /\ WindowFits
    BY GoodIs
  <1> QED
    BY <1>1, <1>2 DEF FetchesFit, WindowFits, Tok

LEMMA RestAsks ==
  ASSUME Good, BufferedRest, Room, head
  PROVE  Goes
  <1>1. /\ head' = FALSE /\ AskIter(Tail(stack))
        /\ entries' = entries /\ open' = open /\ caller' = caller /\ given' = given
        /\ idle' = idle /\ final' = final /\ use' = use /\ fetch' = fetch /\ current' = current
    BY DEF BufferedRest, FetchNext
  <1>2. stack # <<>> /\ stack[1][1] = "rest" /\ ~ Runs("call")
    BY RunsIs DEF BufferedRest
  <1>3. Alive /\ Count(Fetch) = 0 /\ position = fetch /\ fetch <= case.length /\ Tok(head) = 1
    BY HeadIs
  <1>4. PICK f \in Frames : f[1] = "iterate" /\ FetchFits(f)' /\ Continue(f, Tail(stack))
    BY <1>1, <1>3, AskIs
  <1>5. Step(stack[1], f, Nothing)
    BY <1>2, <1>4, FollowStep
  <1>6. /\ stack[1][1] \notin Telling /\ stack[1][1] # "entry" /\ stack[1][1] \notin Fetch
        /\ In(stack[1], Readers) = 0 /\ One(stack[1], Fetch) = 0
    <2>1. /\ stack[1][1] \notin Telling /\ stack[1][1] # "entry" /\ stack[1][1] \notin Fetch
      BY <1>2 DEF Telling, Fetch
    <2> QED
      BY <2>1, NoReader DEF One
  <1>7. /\ Nothing[1] \notin Telling /\ Nothing[1] \notin Fetch /\ Nothing[1] # "entry"
        /\ One(Nothing, Fetch) = 0 /\ In(Nothing, Readers) = 0
    BY NothingIs
  <1>8. /\ f[1] \in Fetch /\ f[1] \notin Telling /\ f[1] # "entry"
        /\ One(f, Fetch) = 1 /\ In(f, Readers) = 0
    BY <1>4, FetchedIs
  <1>9. FetchesFit'
    BY <1>1, <1>3, <1>4, <1>5, <1>6, <1>7, FetchNew
  <1>10. ConsumerFits'
    BY <1>1, <1>2, <1>3, <1>5, <1>6, <1>7, <1>8, ConsumerKeep
  <1>11. GivenFits'
    BY <1>1, <1>5, <1>6, <1>7, <1>8, GivenKeep
  <1>12. One(stack[1], Fetch) + Tok(head) = One(f, Fetch) + One(Nothing, Fetch) + Tok(head')
    BY <1>1, <1>3, <1>6, <1>7, <1>8 DEF Tok
  <1> QED
    BY <1>1, <1>5, <1>6, <1>7, <1>8, <1>9, <1>10, <1>11, <1>12, RingKeep

LEMMA RestGoes ==
  ASSUME Good, BufferedRest
  PROVE  Goes
  <1>1. CASE Room /\ head
    BY <1>1, RestAsks
  <1>2. CASE ~ (Room /\ head)
    <2>1. /\ Returns
          /\ UNCHANGED <<use, fetch, open, head, position, entries, idle, final, caller,
                         given, current>>
      BY <1>2 DEF BufferedRest
    <2>2. stack # <<>> /\ stack[1][1] = "rest" /\ ~ Runs("call")
      BY RunsIs DEF BufferedRest
    <2>3. Step(stack[1], Nothing, Nothing)
      BY <2>1, <2>2, ReturnsStep
    <2>4. "rest" \notin Telling \union Fetch \union {"entry"}
      BY DEF Telling, Fetch
    <2>5. \A x \in {stack[1], Nothing, Nothing} : x[1] \notin Telling \union Fetch \union {"entry"}
      BY <2>2, <2>4, NothingIs
    <2> QED
      BY <2>1, <2>2, <2>3, <2>5, QuietGoes
  <1> QED
    BY <1>1, <1>2

LEMMA BeginGoes ==
  ASSUME Good, Begin, UNCHANGED <<own, lists>>
  PROVE  Goes
  <1>1. /\ AskIter(Tail(stack)) /\ head' = head
        /\ entries' = entries /\ open' = open /\ caller' = caller /\ given' = given
        /\ idle' = idle /\ final' = final /\ use' = use /\ fetch' = fetch /\ current' = current
    BY DEF Begin, own
  <1>2. stack # <<>> /\ stack[1][1] = "begin" /\ FetchFits(stack[1])
    BY RunsIs DEF Begin
  <1>3. stack[1][1] \in Fetch
    BY <1>2 DEF Fetch
  <1>4. /\ Count(Fetch) = 1 /\ Alive /\ Tok(head) = 0 /\ ~ head
        /\ One(stack[1], Fetch) = 1 /\ stack[1][1] \notin Telling /\ stack[1][1] # "entry"
        /\ ~ Runs("call") /\ In(stack[1], Readers) = 0 /\ Room /\ fetch <= case.length
    BY <1>2, <1>3, FetchRuns DEF Tok, Room
  <1>5. position = fetch
    BY <1>2 DEF FetchFits
  <1>6. PICK f \in Frames : f[1] = "iterate" /\ FetchFits(f)' /\ Continue(f, Tail(stack))
    BY <1>1, <1>4, <1>5, AskIs
  <1>7. Step(stack[1], f, Nothing)
    BY <1>2, <1>6, FollowStep
  <1>8. /\ Nothing[1] \notin Telling /\ Nothing[1] \notin Fetch /\ Nothing[1] # "entry"
        /\ One(Nothing, Fetch) = 0 /\ In(Nothing, Readers) = 0
    BY NothingIs
  <1>9. /\ f[1] \in Fetch /\ f[1] \notin Telling /\ f[1] # "entry"
        /\ One(f, Fetch) = 1 /\ In(f, Readers) = 0
    BY <1>6, FetchedIs
  <1>10. FetchesFit'
    BY <1>1, <1>4, <1>6, <1>7, <1>8, FetchNew
  <1>11. ConsumerFits'
    BY <1>1, <1>4, <1>7, <1>8, <1>9, ConsumerKeep
  <1>12. GivenFits'
    BY <1>1, <1>4, <1>7, <1>8, <1>9, GivenKeep
  <1>13. One(stack[1], Fetch) + Tok(head) = One(f, Fetch) + One(Nothing, Fetch) + Tok(head')
    BY <1>1, <1>4, <1>8, <1>9
  <1> QED
    BY <1>1, <1>4, <1>7, <1>8, <1>9, <1>10, <1>11, <1>12, <1>13, RingKeep
------------------------------------------------------------------------------
(* buffered: the steps that serve the consumer.                              *)

\* How much of the consumer is being served.
LEMMA BusyMoves ==
  ASSUME NEW a, NEW f, NEW g, Step(a, f, g), g[1] \notin Telling
  PROVE  /\ Busy' = Busy - Served - One(a, Telling) + One(f, Telling) + Served'
         /\ Busy \in Nat /\ Busy' \in Nat /\ Busy <= 1 /\ Served \in Nat
         /\ Served' = (IF idle' THEN 1 ELSE 0) + (IF final' # "none" THEN 1 ELSE 0)
         /\ One(f, Telling) \in {0, 1}
  <1>1. "nothing" \notin Telling /\ One(g, Telling) = 0
    BY DEF Telling, One
  <1>2. /\ Count(Telling) \in Nat /\ Count(Telling)' \in Nat
        /\ Count(Telling)' = Count(Telling) - One(a, Telling) + One(f, Telling)
        /\ One(a, Telling) \in {0, 1} /\ One(f, Telling) \in {0, 1}
    BY <1>1, StepIs, CountNext DEF One
  <1>3. /\ Served \in Nat /\ Served' \in Nat
        /\ Served' = (IF idle' THEN 1 ELSE 0) + (IF final' # "none" THEN 1 ELSE 0)
    BY DEF Served
  <1>4. Busy = Count(Telling) + Served /\ Busy' = Count(Telling)' + Served' /\ Busy <= 1
    BY StepIs DEF Busy, ConsumerFits
  <1> QED
    BY <1>2, <1>3, <1>4

LEMMA ConsumerNew ==
  ASSUME NEW a, NEW f, NEW g, Step(a, f, g), idle' \in BOOLEAN, caller' \in BOOLEAN,
         g[1] \notin Telling, Busy' <= 1,
         Count({"call"}) <= One(a, {"call"}),
         f[1] = "call" => /\ Runs("call")' /\ Arg' = Slot(use) /\ use' = use /\ use < fetch'
                          /\ entries'[Slot(use)].value # Empty.value,
         f[1] = "consumer" => /\ f[2] \in {"state", "nil", "error"}
                              /\ f[2] = "nil" => use' = case.length,
         use' = use \/ Count(Telling) <= One(a, Telling),
         caller' => \/ Busy' = 0 \/ Runs("call")'
                    \/ /\ use' = use /\ use = fetch' - 1 /\ ~ Alive'
                       /\ entries'[Slot(use)].value # Empty.value
  PROVE  ConsumerFits'
  <1>1. /\ ConsumerFits /\ case' = case /\ Frames' = Frames
        /\ \A H : "nothing" \notin H =>
              /\ Count(H) \in Nat
              /\ Count(H)' = Count(H) - One(a, H) + One(f, H) + One(g, H)
    BY StepIs, FramesStay
  <1>2. "nothing" \notin Telling /\ "nothing" \notin {"call"}
    BY DEF Telling
  <1>3. One(g, {"call"}) = 0
    BY DEF One, Telling
  <1>4. /\ Count({"call"})' = Count({"call"}) - One(a, {"call"}) + One(f, {"call"})
        /\ Count({"call"}) \in Nat
        /\ One(a, {"call"}) \in {0, 1} /\ One(f, {"call"}) \in {0, 1}
        /\ Count({"call"}) <= One(a, {"call"}) /\ Count({"call"})' \in Nat
    BY <1>1, <1>2, <1>3, CountNext DEF One
  <1>7. Slot(use)' = use' % case.size /\ Slot(use) = use % case.size
    BY <1>1 DEF Slot
  <1>8. Count({"call"})' # 0 =>
          Runs("call")' /\ Arg' = Slot(use)' /\ use' < fetch' /\ Full(use)'
    <2>1. Count({"call"})' # 0 => f[1] = "call"
      <3>1. Count({"call"})' # 0 => One(f, {"call"}) # 0
        BY ONLY <1>4
      <3> QED
        BY ONLY <3>1 DEF One
    <2> QED
      BY <1>7, <2>1 DEF Full, Empty
  <1>9. ASSUME NEW h \in Frames, Under(h)', h[1] = "consumer"
        PROVE  h[2] \in {"state", "nil", "error"} /\ (h[2] = "nil" => use' = case.length)
    <2>1. CASE h = f
      BY <1>9, <2>1
    <2>2. CASE h # f
      <3>1. h # g /\ h[1] \in Telling
        BY <1>9 DEF Telling
      <3>2. ~ (Count(Telling) <= One(a, Telling))
        BY <1>2, <1>9, <2>2, <3>1, NoOther
      <3>3. Under(h) /\ use' = use
        BY <1>9, <2>2, <3>1, <3>2, StepIs, UnderMoves
      <3> QED
        BY <1>1, <1>9, <3>3 DEF ConsumerFits
    <2> QED
      BY <2>1, <2>2
  <1>11. caller' => \/ Busy' = 0
                    \/ Runs("call")'
                    \/ use' = fetch' - 1 /\ ~ Alive' /\ Full(use)'
    BY <1>7 DEF Full, Empty
  <1> QED
    BY <1>1, <1>8, <1>9, <1>11 DEF ConsumerFits

\* The running handler serves the consumer.
LEMMA TellRuns ==
  ASSUME Good, stack # <<>>, stack[1][1] \in Telling
  PROVE  /\ Count(Telling) = 1 /\ One(stack[1], Telling) = 1 /\ Busy = 1
         /\ idle = FALSE /\ final = "none" /\ Served = 0
         /\ caller \in BOOLEAN
         /\ Count({"call"}) = One(stack[1], {"call"})
         /\ stack[1][1] \notin Fetch /\ stack[1][1] # "entry" /\ One(stack[1], Fetch) = 0
         /\ Count({"call"}) # 0 => Arg = Slot(use) /\ use < fetch /\ Full(use)
         /\ caller => Runs("call") \/ (use = fetch - 1 /\ ~ Alive /\ Full(use))
         /\ Way(Readers) = In(stack[1], Readers)
  <1>1. stack[1] \in Frames /\ Under(stack[1]) /\ Types /\ ConsumerFits
    BY GoodIs
  <1>2. Count(Telling) \in Nat /\ Count(Telling) >= 1 /\ Count({"call"}) \in Nat
    <2>1. stack[1] \in Named(Telling)
      BY <1>1 DEF Named
    <2> QED
      BY <1>1, <2>1, WayTop, WayNat DEF Count
  <1>3. Busy <= 1 /\ idle \in BOOLEAN /\ caller \in BOOLEAN
    BY <1>1 DEF ConsumerFits
  <1>4. /\ Count(Telling) = 1 /\ Busy = 1 /\ idle = FALSE /\ final = "none"
    <2>1. Served \in Nat /\ (Served = 0 => idle = FALSE /\ final = "none")
      BY <1>3 DEF Served
    <2>2. Count(Telling) = 1 /\ Served = 0
      BY <1>2, <1>3, <2>1 DEF Busy
    <2> QED
      BY <1>3, <2>1, <2>2 DEF Busy
  <1>5. Count({"call"}) = One(stack[1], {"call"})
    <2>1. CASE stack[1][1] = "call"
      <3>1. stack[1] \in Named({"call"}) /\ Named({"call"}) \subseteq Named(Telling)
        BY <1>1, <2>1 DEF Named, Telling
      <3>2. Count({"call"}) >= 1 /\ Count({"call"}) <= Count(Telling)
        BY <1>1, <3>1, WayTop, WayLess DEF Count
      <3> QED
        BY <1>2, <1>4, <2>1, <3>2 DEF One
    <2>2. CASE stack[1][1] # "call"
      BY <1>1, <2>2 DEF One, ConsumerFits, Runs
    <2> QED
      BY <2>1, <2>2
  <1>6. stack[1][1] \notin Fetch /\ stack[1][1] # "entry"
    BY DEF Fetch, Telling
  <1>7. Way(Readers) = In(stack[1], Readers)
    <2>1. Way(Readers) \in {0, 1} /\ Readers \in SUBSET Frames
      BY <1>1, ReadersIs DEF Good
    <2>2. CASE stack[1] \in Readers
      BY <1>1, <2>1, <2>2, WayTop DEF In
    <2>3. CASE stack[1] \notin Readers /\ Way(Readers) # 0
      <3>1. PICK h \in Frames : h \in Readers /\ Way({h}) # 0
        BY <1>1, <2>3, WaySome
      <3>2. h # stack[1] /\ {h} \union {stack[1]} \subseteq Named(Telling)
        BY <1>1, <2>3, <3>1 DEF Named, Readers, Telling
      <3>3. Way({h} \union {stack[1]}) = Way({h}) + Way({stack[1]})
        BY <1>1, <3>2, WayUnion
      <3>4. Way({h} \union {stack[1]}) <= 1
        BY <1>1, <1>4, <3>2, WayLess DEF Count
      <3>5. Way({h}) \in Nat \ {0} /\ Way({stack[1]}) \in Nat \ {0}
        BY <1>1, <3>1, WayNat DEF Under
      <3>6. FALSE
        BY ONLY <3>3, <3>4, <3>5
      <3> QED
        BY <3>6
    <2> QED
      BY <2>2, <2>3 DEF In
  <1>8. Served = 0 /\ One(stack[1], Telling) = 1
        /\ One(stack[1], Fetch) = 0
    BY <1>4, <1>6 DEF Served, One
  <1>9. /\ Count({"call"}) # 0 => Arg = Slot(use) /\ use < fetch /\ Full(use)
        /\ caller => Runs("call") \/ (use = fetch - 1 /\ ~ Alive /\ Full(use))
    BY <1>1, <1>4 DEF ConsumerFits
  <1> QED
    BY <1>2, <1>3, <1>4, <1>5, <1>6, <1>7, <1>8, <1>9

\* The ring is as before, and so is what the iterator does.
LEMMA TellGoes ==
  ASSUME Good, stack # <<>>, stack[1][1] \in Telling, NEW f, Step(stack[1], f, Nothing),
         f = Nothing \/ f[1] \in Telling,
         UNCHANGED <<use, fetch, open, head, position, entries>>,
         ConsumerFits', GivenFits',
         \/ final' = final
         \/ final' \in {"nil", "error"} /\ (final' = "nil" => use = case.length)
  PROVE  Goes
  <1>1. /\ use' = use /\ fetch' = fetch /\ open' = open /\ head' = head
        /\ position' = position /\ entries' = entries
    OBVIOUS
  <1>2. /\ Nothing[1] \notin Telling /\ Nothing[1] \notin Fetch /\ Nothing[1] # "entry"
        /\ One(Nothing, Fetch) = 0
    BY NothingIs
  <1>3. f[1] \notin Fetch /\ f[1] # "entry" /\ One(f, Fetch) = 0
    <2>1. f[1] \notin Fetch /\ f[1] # "entry"
      BY <1>2 DEF Telling, Fetch
    <2> QED
      BY <2>1 DEF One
  <1>4. /\ stack[1][1] \notin Fetch /\ stack[1][1] # "entry" /\ One(stack[1], Fetch) = 0
        /\ final = "none"
    BY TellRuns
  <1>5. FetchesFit'
    BY <1>1, <1>2, <1>3, FetchKeep
  <1>6. One(stack[1], Fetch) + Tok(head) = One(f, Fetch) + One(Nothing, Fetch) + Tok(head')
    BY <1>1, <1>2, <1>3, <1>4 DEF Tok
  <1> QED
    BY <1>1, <1>2, <1>3, <1>4, <1>5, <1>6, RingKeep

LEMMA GiveGoes ==
  ASSUME Good, BufferedGive
  PROVE  Goes
  <1> DEFINE f == <<"consumer", "state">>
  <1>1. /\ Continue(f, Tail(stack)) /\ caller' = caller /\ given' = given
        /\ idle' = idle /\ final' = final /\ use' = use /\ current' = current
        /\ UNCHANGED <<use, fetch, open, head, position, entries>> /\ fetch' = fetch
        /\ entries' = entries /\ open' = open /\ head' = head
    BY DEF BufferedGive, own
  <1>2. /\ stack # <<>> /\ stack[1] = <<"give", 0>> /\ stack[1][1] \in Telling
    BY RunsIs DEF BufferedGive, Frames, Telling
  <1>3. f \in Frames /\ f[1] \in Telling /\ f[1] = "consumer" /\ f[2] = "state"
        /\ f \in Readers
    BY DEF Frames, Telling, Readers
  <1> HIDE DEF f
  <1>4. Step(stack[1], f, Nothing)
    BY <1>1, <1>2, <1>3, FollowStep
  <1>5. /\ One(f, Telling) = 1 /\ One(f, {"call"}) = 0 /\ In(f, Readers) = 1
        /\ One(stack[1], {"call"}) = 0 /\ In(stack[1], Readers) = 1
    BY <1>2, <1>3 DEF One, In, Readers
  <1>6. /\ Count(Telling) = 1 /\ One(stack[1], Telling) = 1
        /\ idle = FALSE /\ final = "none" /\ caller \in BOOLEAN
        /\ Count({"call"}) = One(stack[1], {"call"})
        /\ caller => use = fetch - 1 /\ ~ Alive /\ Full(use)
        /\ One(stack[1], Fetch) = 0
    <2>1. ~ Runs("call")
      BY <1>2 DEF Runs
    <2> QED
      BY <1>2, <2>1, TellRuns
  <1>7. Nothing[1] \notin Telling /\ In(Nothing, Readers) = 0 /\ One(Nothing, Fetch) = 0
    BY NothingIs
  <1>8. Alive' <=> Alive
    <2>1. One(f, Fetch) = 0
      BY <1>3 DEF One, Fetch
    <2>2. One(stack[1], Fetch) + Tok(head) = One(f, Fetch) + One(Nothing, Fetch) + Tok(head')
      BY <1>1, <1>6, <1>7, <2>1 DEF Tok
    <2> QED
      BY <1>4, <2>2, AliveStays
  <1>9. caller' => /\ use' = use /\ use = fetch' - 1 /\ ~ Alive'
                   /\ entries'[Slot(use)].value # Empty.value
    BY <1>1, <1>6, <1>8 DEF Full
  <1>10. ConsumerFits'
    <2>1. Busy' <= 1
      <3>1. /\ Busy' = Busy - Served - One(stack[1], Telling) + One(f, Telling) + Served'
            /\ Busy = 1 /\ Served = 0 /\ Served' = 0
        BY <1>1, <1>2, <1>4, <1>6, <1>7, BusyMoves, TellRuns
      <3> QED
        BY <1>5, <1>6, <3>1
    <2>2. Count({"call"}) <= One(stack[1], {"call"})
      BY <1>5, <1>6
    <2>3. f[1] # "call" /\ idle' \in BOOLEAN /\ caller' \in BOOLEAN
      BY <1>1, <1>3, <1>6
    <2> QED
      BY <1>1, <1>3, <1>4, <1>7, <1>9, <2>1, <2>2, <2>3, ConsumerNew
  <1>11. GivenFits'
    BY <1>1, <1>4, <1>5, <1>7, GivenKeep
  <1> QED
    BY <1>1, <1>2, <1>3, <1>4, <1>10, <1>11, TellGoes

LEMMA NextGoes ==
  ASSUME Good, BufferedNext
  PROVE  Goes
  <1>1. /\ given' = given /\ idle' = idle /\ final' = final
        /\ use' = use /\ fetch' = fetch /\ open' = open /\ head' = head
        /\ position' = position /\ entries' = entries /\ current' = current
    BY DEF BufferedNext, own
  <1>2. /\ stack # <<>> /\ stack[1][1] = "next" /\ stack[1] \in Frames
        /\ stack[1][1] \in Telling /\ In(stack[1], Readers) = 0
        /\ One(stack[1], {"call"}) = 0 /\ ~ Runs("call")
    BY RunsIs DEF BufferedNext, Telling, One, In, Readers, Runs
  <1>3. /\ Count(Telling) = 1 /\ One(stack[1], Telling) = 1 /\ Busy = 1
        /\ idle = FALSE /\ final = "none" /\ caller \in BOOLEAN
        /\ Served = 0
        /\ Count({"call"}) = One(stack[1], {"call"})
        /\ caller => use = fetch - 1 /\ ~ Alive /\ Full(use)
    BY <1>2, TellRuns
  <1>4. Nothing[1] \notin Telling /\ In(Nothing, Readers) = 0 /\ One(Nothing, Fetch) = 0
        /\ One(Nothing, Telling) = 0 /\ Nothing[1] # "call" /\ Nothing[1] # "consumer"
    BY NothingIs DEF Telling
  <1>5. CASE Full(use)
    <2>1. PICK f \in Frames : f = <<"call", Slot(use)>>
      BY GoodIs DEF Frames
    <2>2. Calls(f, Tail(stack)) /\ caller' = caller
      BY <1>5, <2>1 DEF BufferedNext, Full
    <2>3. Step(stack[1], f, Nothing)
      BY <1>2, <2>2, FollowStep
    <2>4. f[1] = "call" /\ f[2] = Slot(use) /\ f[1] \in Telling
          /\ One(f, Telling) = 1 /\ In(f, Readers) = 0
      BY <2>1 DEF Telling, One, In, Readers
    <2>5. Runs("call")' /\ Arg' = Slot(use)
      <3>1. stack' # <<>> /\ stack'[1] = f
        <4>1. Tail(stack) \in Seq(Frames)
          BY <1>2, TailMany, GoodIs DEF Types
        <4> QED
          BY <2>2, <4>1, AboveMany DEF Calls, Above
      <3> QED
        BY <2>4, <3>1 DEF Runs, Arg
    <2>6. use < fetch'
      <3>1. \A n \in fetch .. use + case.size - 1 : ~ Full(n)
        BY GoodIs DEF EntriesFit
      <3>2. ~ (use \in fetch .. use + case.size - 1)
        BY <1>5, <3>1
      <3>3. use \in Nat /\ fetch \in Nat /\ use <= fetch /\ case.size \in Nat \ {0}
        BY GoodIs
      <3> QED
        BY <1>1, <3>2, <3>3
    <2>7. entries'[Slot(use)].value # Empty.value
      BY <1>1, <1>5 DEF Full
    <2>8. ConsumerFits'
      <3>1. Busy' <= 1
        <4>1. /\ Busy' = Busy - Served - One(stack[1], Telling) + One(f, Telling) + Served'
              /\ Served' = 0
          BY <1>1, <1>3, <1>4, <2>3, BusyMoves
        <4> QED
          BY <1>3, <2>4, <4>1
      <3>2. Count({"call"}) <= One(stack[1], {"call"})
        BY <1>2, <1>3
      <3>3. f[1] # "consumer" /\ idle' \in BOOLEAN /\ caller' \in BOOLEAN
        BY <1>1, <1>3, <2>2, <2>4
      <3> QED
        BY <1>1, <1>4, <2>3, <2>5, <2>6, <2>7, <3>1, <3>2, <3>3, ConsumerNew
    <2>9. GivenFits'
      BY <1>1, <1>2, <1>4, <2>3, <2>4, GivenKeep
    <2> QED
      BY <1>1, <1>2, <2>3, <2>4, <2>8, <2>9, TellGoes
  <1>6. CASE ~ Full(use)
    <2>1. Returns /\ caller' = TRUE
      BY <1>6 DEF BufferedNext, Full
    <2>2. Step(stack[1], Nothing, Nothing)
      BY <1>2, <2>1, ReturnsStep
    <2>3. Busy' = 0
      <3>1. /\ Busy' = Busy - Served - One(stack[1], Telling) + One(Nothing, Telling) + Served'
            /\ Served' = 0
        BY <1>1, <1>3, <1>4, <2>2, BusyMoves
      <3> QED
        BY <1>3, <1>4, <3>1
    <2>4. Count({"call"}) <= One(stack[1], {"call"}) /\ Busy' <= 1
          /\ idle' \in BOOLEAN /\ caller' \in BOOLEAN
      <3>1. idle' \in BOOLEAN
        BY <1>1, <1>3
      <3>2. caller' \in BOOLEAN
        BY <2>1
      <3> QED
        BY <1>2, <1>3, <2>3, <3>1, <3>2
    <2>5. ConsumerFits'
      BY <1>1, <1>4, <2>2, <2>3, <2>4, ConsumerNew
    <2>6. GivenFits'
      BY <1>1, <1>2, <1>4, <2>2, GivenKeep
    <2> QED
      BY <1>1, <1>2, <2>2, <2>5, <2>6, TellGoes
  <1> QED
    BY <1>5, <1>6

\* The entry at Use is full when it is taken.
LEMMA CallIs ==
  ASSUME Good, Runs("call")
  PROVE  /\ stack # <<>> /\ stack[1] \in Frames /\ stack[1][1] = "call"
         /\ stack[1][1] \in Telling /\ Arg = Slot(use)
         /\ Count(Telling) = 1 /\ One(stack[1], Telling) = 1 /\ One(stack[1], {"call"}) = 1
         /\ Busy = 1 /\ Served = 0 /\ idle = FALSE /\ final = "none" /\ caller \in BOOLEAN
         /\ Count({"call"}) = 1 /\ In(stack[1], Readers) = 0 /\ Way(Readers) = 0
         /\ One(stack[1], Fetch) = 0 /\ stack[1][1] \notin Fetch /\ stack[1][1] # "entry"
         /\ use < fetch /\ use \in Window /\ Full(use)
         /\ entries[Slot(use)].key = Pair(use) /\ Fits(use, entries[Slot(use)].value)
  <1>1. stack # <<>> /\ stack[1] \in Frames /\ stack[1][1] = "call"
    BY RunsIs
  <1>2. stack[1][1] \in Telling /\ One(stack[1], {"call"}) = 1 /\ In(stack[1], Readers) = 0
    BY <1>1 DEF Telling, One, In, Readers
  <1>3. /\ Count(Telling) = 1 /\ One(stack[1], Telling) = 1 /\ Busy = 1 /\ Served = 0
        /\ idle = FALSE /\ final = "none" /\ caller \in BOOLEAN
        /\ Count({"call"}) = One(stack[1], {"call"})
        /\ stack[1][1] \notin Fetch /\ stack[1][1] # "entry" /\ One(stack[1], Fetch) = 0
        /\ Count({"call"}) # 0 => Arg = Slot(use) /\ use < fetch /\ Full(use)
        /\ Way(Readers) = In(stack[1], Readers)
    BY <1>1, <1>2, TellRuns
  <1>4. use < fetch /\ Full(use) /\ Arg = Slot(use)
    BY <1>2, <1>3
  <1>5. use \in Window
    BY <1>4, GoodIs DEF Window
  <1>6. entries[Slot(use)].key = Pair(use) /\ Fits(use, entries[Slot(use)].value)
    BY <1>4, <1>5, EntryFitsIs, GoodIs
  <1> QED
    BY <1>1, <1>2, <1>3, <1>4, <1>5, <1>6

\* The end of the iteration is what the consumer gets.
LEMMA CallEnds ==
  ASSUME Good, BufferedCall, entries[Arg].key = 0
  PROVE  Goes
  <1>1. Runs("call")
    BY DEF BufferedCall
  <1>2. /\ stack # <<>> /\ stack[1] \in Frames /\ stack[1][1] \in Telling /\ Arg = Slot(use)
        /\ Count(Telling) = 1 /\ One(stack[1], Telling) = 1 /\ One(stack[1], {"call"}) = 1
        /\ Busy = 1 /\ Served = 0 /\ idle = FALSE /\ final = "none" /\ caller \in BOOLEAN
        /\ Count({"call"}) = 1 /\ In(stack[1], Readers) = 0
        /\ use < fetch /\ use \in Window /\ Full(use) /\ One(stack[1], Fetch) = 0
        /\ entries[Slot(use)].key = Pair(use) /\ Fits(use, entries[Slot(use)].value)
    BY <1>1, CallIs
  <1> DEFINE x == entries[Slot(use)].value[1]
  <1>3. /\ Continue(<<"consumer", x>>, Tail(stack))
        /\ UNCHANGED <<position, entries, caller, own, open, given, idle, final>>
    BY <1>2 DEF BufferedCall
  <1>4. /\ caller' = caller /\ given' = given /\ idle' = idle /\ final' = final
        /\ use' = use /\ current' = current /\ fetch' = fetch
        /\ entries' = entries /\ open' = open /\ head' = head /\ position' = position
    BY <1>3 DEF own
  <1>5. Pair(use) = 0 /\ ~ Alive /\ use = fetch - 1
    <2>1. use \in Nat /\ fetch \in Nat /\ Pair(use) = 0
      BY <1>2, GoodIs
    <2>2. ~ (Alive \/ use < fetch - 1)
      <3>1. CASE Alive \/ use < fetch - 1
        BY <2>1, <3>1 DEF Pair
      <3> QED
        BY <3>1
    <2> QED
      BY <1>2, <2>1, <2>2
  <1>6. x \in {"nil", "error"} /\ (x = "nil" => use = case.length)
    BY <1>2, <1>5 DEF Fits
  <1>7. PICK f \in Frames : f = <<"consumer", x>>
    BY <1>6 DEF Frames, Outcomes
  <1> HIDE DEF x
  <1>8. Continue(f, Tail(stack)) /\ f[1] = "consumer" /\ f[2] = x
    BY <1>3, <1>7 DEF x
  <1>9. f[1] \in Telling /\ One(f, Telling) = 1 /\ In(f, Readers) = 0 /\ f[1] # "call"
        /\ One(f, Fetch) = 0
    BY <1>6, <1>7, <1>8 DEF Telling, One, In, Readers, Fetch
  <1>10. Step(stack[1], f, Nothing)
    BY <1>2, <1>8, FollowStep
  <1>11. Nothing[1] \notin Telling /\ In(Nothing, Readers) = 0 /\ One(Nothing, Fetch) = 0
    BY NothingIs
  <1>12. Alive' <=> Alive
    <2>1. One(stack[1], Fetch) + Tok(head) = One(f, Fetch) + One(Nothing, Fetch) + Tok(head')
      BY <1>2, <1>4, <1>9, <1>11 DEF Tok
    <2> QED
      BY <1>10, <2>1, AliveStays
  <1>13. ConsumerFits'
    <2>1. Busy' <= 1
      <3>1. /\ Busy' = Busy - Served - One(stack[1], Telling) + One(f, Telling) + Served'
            /\ Served' = 0
        BY <1>2, <1>4, <1>10, <1>11, BusyMoves
      <3> QED
        BY <1>2, <1>9, <3>1
    <2>2. Count({"call"}) <= One(stack[1], {"call"})
      BY <1>2
    <2>3. idle' \in BOOLEAN /\ caller' \in BOOLEAN
      BY <1>2, <1>4
    <2>4. /\ use' = use /\ use = fetch' - 1 /\ ~ Alive'
          /\ entries'[Slot(use)].value # Empty.value
      BY <1>2, <1>4, <1>5, <1>12 DEF Full
    <2>5. f[2] \in {"state", "nil", "error"} /\ (f[2] = "nil" => use' = case.length)
      BY <1>4, <1>6, <1>8
    <2> QED
      BY <1>9, <1>10, <1>11, <2>1, <2>2, <2>3, <2>4, <2>5, ConsumerNew
  <1>14. GivenFits'
    BY <1>2, <1>4, <1>9, <1>10, <1>11, GivenKeep
  <1> QED
    BY <1>2, <1>4, <1>9, <1>10, <1>13, <1>14, TellGoes

\* The consumer reads the pair that the state has.
LEMMA TakeGoes ==
  ASSUME Good, Runs("consumer"), Arg = "state", Take(current), UNCHANGED own
  PROVE  Goes
  <1>1. /\ given' = Append(given, current) /\ use' = use /\ current' = current
        /\ fetch' = fetch /\ entries' = entries /\ open' = open /\ head' = head
        /\ position' = position /\ caller' = caller
    BY DEF Take, own
  <1>2. /\ stack # <<>> /\ stack[1] \in Frames /\ stack[1] = <<"consumer", "state">>
        /\ ~ Runs("call")
    BY RunsIs
  <1>3. stack[1][1] \in Telling /\ In(stack[1], Readers) = 1 /\ One(stack[1], {"call"}) = 0
    BY <1>2 DEF Telling, In, Readers, One
  <1>4. /\ Count(Telling) = 1 /\ One(stack[1], Telling) = 1 /\ Busy = 1 /\ Served = 0
        /\ idle = FALSE /\ final = "none" /\ caller \in BOOLEAN
        /\ Count({"call"}) = One(stack[1], {"call"}) /\ One(stack[1], Fetch) = 0
        /\ caller => use = fetch - 1 /\ ~ Alive /\ Full(use)
        /\ Way(Readers) = 1
    BY <1>2, <1>3, TellRuns
  <1>5. /\ given \in Seq(Entry) /\ current \in Entry
        /\ \A i \in DOMAIN given : given[i].key = i /\ given[i].value[2] = i
        /\ use = Len(given) + 1
        /\ current.key = use /\ current.value[2] = use
        /\ current.value[1] \in {"result", "failed"}
    BY <1>4, GoodIs DEF GivenFits
  <1>6. PICK f \in Some : /\ Step(stack[1], f, Nothing) /\ (f = Nothing \/ f[1] = "next")
                          /\ f = Nothing => Returns
                          /\ idle' \in BOOLEAN
                          /\ final' \in {"none", "error"}
                          /\ One(f, Telling) + (IF idle' THEN 1 ELSE 0)
                               + (IF final' # "none" THEN 1 ELSE 0) <= 1
    <2>1. CASE /\ idle' = FALSE /\ current.value[1] = "result"
               /\ Calls(<<"next", 0>>, Tail(stack))
      <3>1. PICK f \in Frames : f = <<"next", 0>>
        BY DEF Frames
      <3>2. Step(stack[1], f, Nothing)
        BY <1>2, <2>1, <3>1, FollowStep
      <3>3. final' = "none" /\ f[1] = "next" /\ One(f, Telling) = 1 /\ f \in Some
            /\ f # Nothing
        BY <1>4, <2>1, <3>1 DEF Take, One, Telling, Some, Nothing
      <3>4. /\ idle' \in BOOLEAN /\ final' \in {"none", "error"}
            /\ One(f, Telling) + (IF idle' THEN 1 ELSE 0)
                 + (IF final' # "none" THEN 1 ELSE 0) <= 1
        <4>1. idle' \in BOOLEAN /\ ~ idle'
          BY <2>1
        <4>2. (IF idle' THEN 1 ELSE 0) = 0 /\ (IF final' # "none" THEN 1 ELSE 0) = 0
          BY <3>3, <4>1
        <4> QED
          BY <3>3, <4>1, <4>2
      <3> QED
        BY <3>2, <3>3, <3>4
    <2>2. CASE idle' = (current.value[1] = "result") /\ Returns
      <3>1. Step(stack[1], Nothing, Nothing) /\ Nothing \in Some /\ One(Nothing, Telling) = 0
        BY <1>2, <2>2, ReturnsStep, NothingIs
      <3>2. /\ idle' \in BOOLEAN /\ (idle' <=> current.value[1] = "result")
            /\ final' = IF current.value[1] = "result" THEN "none" ELSE "error"
        BY <1>4, <2>2 DEF Take
      <3>3. /\ final' \in {"none", "error"}
            /\ One(Nothing, Telling) + (IF idle' THEN 1 ELSE 0)
                 + (IF final' # "none" THEN 1 ELSE 0) <= 1
        BY <3>1, <3>2
      <3> QED
        BY <2>2, <3>1, <3>2, <3>3
    <2> QED
      BY <2>1, <2>2 DEF Take
  <1>7. Nothing[1] \notin Telling /\ In(Nothing, Readers) = 0 /\ One(Nothing, Fetch) = 0
        /\ Nothing[1] # "call" /\ Nothing[1] # "consumer"
    BY NothingIs DEF Telling
  <1>8. In(f, Readers) = 0 /\ One(f, Fetch) = 0 /\ f[1] # "call" /\ f[1] # "consumer"
        /\ (f = Nothing \/ f[1] \in Telling)
    BY <1>6, <1>7 DEF In, Readers, One, Fetch, Telling
  <1>9. Alive' <=> Alive
    <2>1. One(stack[1], Fetch) + Tok(head) = One(f, Fetch) + One(Nothing, Fetch) + Tok(head')
      BY <1>1, <1>4, <1>7, <1>8 DEF Tok
    <2> QED
      BY <1>6, <2>1, AliveStays
  <1>10. ConsumerFits'
    <2>1. Busy' <= 1
      <3>1. /\ Busy' = Busy - Served - One(stack[1], Telling) + One(f, Telling) + Served'
            /\ Served' = (IF idle' THEN 1 ELSE 0) + (IF final' # "none" THEN 1 ELSE 0)
            /\ One(f, Telling) \in {0, 1}
        BY <1>6, <1>7, BusyMoves
      <3> QED
        BY <1>4, <1>6, <3>1
    <2>2. Count({"call"}) <= One(stack[1], {"call"})
      BY <1>3, <1>4
    <2>3. caller' \in BOOLEAN
      BY <1>1, <1>4
    <2>4. caller' => /\ use' = use /\ use = fetch' - 1 /\ ~ Alive'
                     /\ entries'[Slot(use)].value # Empty.value
      BY <1>1, <1>4, <1>9 DEF Full
    <2> QED
      BY <1>1, <1>6, <1>7, <1>8, <2>1, <2>2, <2>3, <2>4, ConsumerNew
  <1>11. GivenFits'
    <2>1. Way(Readers)' = 0
      <3>1. Readers \in SUBSET Frames /\ Readers' = Readers
        BY DEF Readers, Frames
      <3>2. Way(Readers)' = Way(Readers) - In(stack[1], Readers) + In(f, Readers)
                              + In(Nothing, Readers)
        BY <1>6, <3>1, WayOfMoves
      <3> QED
        BY <1>3, <1>4, <1>7, <1>8, <3>2
    <2>2. /\ given' \in Seq(Entry) /\ Len(given') = use /\ DOMAIN given' = 1 .. use
          /\ \A i \in 1 .. use : given'[i] = IF i <= Len(given) THEN given[i] ELSE current
      BY <1>1, <1>5
    <2>3. \A i \in DOMAIN given' : given'[i].key = i /\ given'[i].value[2] = i
      BY <1>5, <2>2
    <2>4. use' = Len(given') + Way(Readers)' /\ current' \in Entry
      BY <1>1, <1>5, <2>1, <2>2, GoodIs
    <2> QED
      BY <2>1, <2>2, <2>3, <2>4 DEF GivenFits, Entry
  <1>12. \/ final' = final
         \/ final' \in {"nil", "error"} /\ (final' = "nil" => use = case.length)
    BY <1>4, <1>6
  <1> QED
    BY <1>1, <1>2, <1>3, <1>6, <1>8, <1>10, <1>11, <1>12, TellGoes

LEMMA FinishGoes ==
  ASSUME Good, Runs("consumer"), Arg # "state", Finish, UNCHANGED own
  PROVE  Goes
  <1>1. /\ final' = Arg /\ Returns /\ given' = given /\ idle' = idle
        /\ use' = use /\ current' = current /\ caller' = caller
        /\ fetch' = fetch /\ entries' = entries /\ open' = open /\ head' = head
        /\ position' = position
    BY DEF Finish, own
  <1>2. /\ stack # <<>> /\ stack[1] \in Frames /\ stack[1] = <<"consumer", Arg>>
        /\ ~ Runs("call") /\ Under(stack[1])
    BY RunsIs
  <1>3. stack[1][1] \in Telling /\ In(stack[1], Readers) = 0 /\ One(stack[1], {"call"}) = 0
    BY <1>2 DEF Telling, In, Readers, One
  <1>4. /\ Count(Telling) = 1 /\ One(stack[1], Telling) = 1 /\ Busy = 1 /\ Served = 0
        /\ idle = FALSE /\ final = "none" /\ caller \in BOOLEAN
        /\ Count({"call"}) = One(stack[1], {"call"}) /\ One(stack[1], Fetch) = 0
        /\ caller => use = fetch - 1 /\ ~ Alive /\ Full(use)
    BY <1>2, <1>3, TellRuns
  <1>5. Arg \in {"nil", "error"} /\ (Arg = "nil" => use = case.length)
    <2>1. stack[1][1] = "consumer" /\ stack[1][2] = Arg
      BY <1>2
    <2>2. stack[1][2] \in {"state", "nil", "error"} /\ (stack[1][2] = "nil" => use = case.length)
      BY <1>2, <2>1, GoodIs DEF ConsumerFits
    <2> QED
      BY <2>1, <2>2
  <1>6. Step(stack[1], Nothing, Nothing)
    BY <1>1, <1>2, ReturnsStep
  <1>7. Nothing[1] \notin Telling /\ In(Nothing, Readers) = 0 /\ One(Nothing, Fetch) = 0
        /\ Nothing[1] # "call" /\ Nothing[1] # "consumer" /\ One(Nothing, Telling) = 0
    BY NothingIs DEF Telling
  <1>8. Alive' <=> Alive
    <2>1. One(stack[1], Fetch) + Tok(head) = One(Nothing, Fetch) + One(Nothing, Fetch) + Tok(head')
      BY <1>1, <1>4, <1>7 DEF Tok
    <2> QED
      BY <1>6, <2>1, AliveStays
  <1>9. ConsumerFits'
    <2>1. Busy' <= 1
      <3>1. /\ Busy' = Busy - Served - One(stack[1], Telling) + One(Nothing, Telling) + Served'
            /\ Served' = (IF idle' THEN 1 ELSE 0) + (IF final' # "none" THEN 1 ELSE 0)
        BY <1>6, <1>7, BusyMoves
      <3>2. Served' = 1
        BY <1>1, <1>4, <1>5, <3>1
      <3> QED
        BY <1>4, <1>7, <3>1, <3>2
    <2>2. Count({"call"}) <= One(stack[1], {"call"})
      BY <1>3, <1>4
    <2>3. idle' \in BOOLEAN /\ caller' \in BOOLEAN
      BY <1>1, <1>4
    <2>4. caller' => /\ use' = use /\ use = fetch' - 1 /\ ~ Alive'
                     /\ entries'[Slot(use)].value # Empty.value
      BY <1>1, <1>4, <1>8 DEF Full
    <2> QED
      BY <1>1, <1>6, <1>7, <2>1, <2>2, <2>3, <2>4, ConsumerNew
  <1>10. GivenFits'
    BY <1>1, <1>3, <1>6, <1>7, GivenKeep
  <1>11. final' \in {"nil", "error"} /\ (final' = "nil" => use = case.length)
    BY <1>1, <1>5
  <1> QED
    BY <1>1, <1>2, <1>3, <1>6, <1>9, <1>10, <1>11, TellGoes

LEMMA ConsumerGoes ==
  ASSUME Good, BufferedConsumer
  PROVE  Goes
  BY TakeGoes, FinishGoes DEF BufferedConsumer

\* The consumer has a pair and asks for the next one.
LEMMA AskGoes ==
  ASSUME Good, Ask, UNCHANGED <<own, lists>>
  PROVE  Goes
  <1>1. /\ final' = final /\ given' = given /\ idle /\ ~ idle' /\ idle' \in BOOLEAN
        /\ use' = use /\ current' = current /\ caller' = caller
        /\ fetch' = fetch /\ entries' = entries /\ open' = open /\ head' = head
        /\ position' = position /\ stack = <<>>
    BY DEF Ask, own
  <1>2. PICK f \in Frames : f = <<"next", 0>>
    BY DEF Frames
  <1>3. stack' = <<f>> /\ sched' = sched
    BY <1>2 DEF Ask
  <1>4. Step(Nothing, f, Nothing)
    BY <1>1, <1>3, StartStep
  <1>5. f[1] = "next" /\ One(f, Telling) = 1 /\ In(f, Readers) = 0 /\ f[1] \notin Fetch
        /\ f[1] # "entry" /\ One(f, Fetch) = 0
    BY <1>2 DEF One, In, Telling, Readers, Fetch
  <1>6. Nothing[1] \notin Telling /\ In(Nothing, Readers) = 0 /\ One(Nothing, Fetch) = 0
        /\ Nothing[1] # "call" /\ Nothing[1] # "consumer" /\ One(Nothing, Telling) = 0
        /\ Nothing[1] # "entry" /\ Nothing[1] \notin Fetch /\ One(Nothing, {"call"}) = 0
    BY NothingIs DEF Telling
  <1>7. One(Nothing, Fetch) + Tok(head) = One(f, Fetch) + One(Nothing, Fetch) + Tok(head')
    BY <1>1, <1>5, <1>6 DEF Tok
  <1>8. Alive' <=> Alive
    BY <1>4, <1>7, AliveStays
  <1>9. /\ Busy = 1 /\ Served = 1 /\ final = "none" /\ Count({"call"}) = 0
        /\ caller \in BOOLEAN /\ (caller => use = fetch - 1 /\ ~ Alive /\ Full(use))
    <2>1. ~ Runs("call") /\ ConsumerFits
      BY <1>1, GoodIs DEF Runs
    <2>2. Busy <= 1 /\ Busy = Count(Telling) + Served /\ Count(Telling) \in Nat
      BY <2>1, WayNat, GoodIs DEF ConsumerFits, Busy, Count
    <2>3. Served \in Nat \ {0} /\ (Served = 1 => final = "none")
      BY <1>1 DEF Served
    <2>4. Busy = 1 /\ Served = 1
      BY <2>2, <2>3
    <2> QED
      BY <2>1, <2>3, <2>4 DEF ConsumerFits
  <1>10. ConsumerFits'
    <2>1. Busy' <= 1
      <3>1. /\ Busy' = Busy - Served - One(Nothing, Telling) + One(f, Telling) + Served'
            /\ Served' = (IF idle' THEN 1 ELSE 0) + (IF final' # "none" THEN 1 ELSE 0)
        BY <1>4, <1>6, BusyMoves
      <3>2. Served' = 0
        BY <1>1, <1>9, <3>1
      <3> QED
        BY <1>5, <1>6, <1>9, <3>1, <3>2
    <2>2. Count({"call"}) <= One(Nothing, {"call"})
      BY <1>6, <1>9
    <2>3. caller' => /\ use' = use /\ use = fetch' - 1 /\ ~ Alive'
                     /\ entries'[Slot(use)].value # Empty.value
      BY <1>1, <1>8, <1>9 DEF Full
    <2>4. f[1] # "call" /\ f[1] # "consumer" /\ caller' \in BOOLEAN
      BY <1>1, <1>5, <1>9
    <2> QED
      BY <1>1, <1>4, <1>6, <2>1, <2>2, <2>3, <2>4, ConsumerNew
  <1>11. GivenFits'
    BY <1>1, <1>4, <1>5, <1>6, GivenKeep
  <1>12. FetchesFit'
    BY <1>1, <1>4, <1>5, <1>6, FetchKeep
  <1> QED
    BY <1>1, <1>4, <1>5, <1>6, <1>7, <1>10, <1>11, <1>12, RingKeep

\* The queue is served.
LEMMA RunNextGoes ==
  ASSUME Good, RunNext, UNCHANGED <<own, lists>>
  PROVE  Goes
  <1>1. Step(Nothing, Nothing, Nothing)
    BY GoodIs, NothingIs, RunNextMoves DEF Step, Good
  <1>2. ~ Runs("call")
    BY DEF RunNext, Runs
  <1>3. UNCHANGED <<use, fetch, open, head, position, entries, idle, final, caller,
                    given, current>>
    BY DEF RunNext, own
  <1>4. \A x \in {Nothing, Nothing, Nothing} : x[1] \notin Telling \union Fetch \union {"entry"}
    BY NothingIs
  <1> QED
    BY <1>1, <1>2, <1>3, <1>4, QuietGoes

\* The handlers stay.
LEMMA StayGoes ==
  ASSUME Good, stack' = stack, sched' = sched,
         UNCHANGED <<use, fetch, open, head, position, entries, idle, final, caller,
                     given, current>>
  PROVE  Goes
  <1>1. Step(Nothing, Nothing, Nothing)
    BY GoodIs, NothingIs, StayMoves DEF Step, Good
  <1>2. Nothing[1] \notin Telling /\ In(Nothing, Readers) = 0 /\ One(Nothing, Fetch) = 0
        /\ Nothing[1] # "entry" /\ Nothing[1] \notin Fetch /\ One(Nothing, {"call"}) = 0
        /\ Nothing[1] # "call" /\ Nothing[1] # "consumer" /\ One(Nothing, Telling) = 0
    BY NothingIs DEF Telling
  <1>3. /\ use' = use /\ fetch' = fetch /\ open' = open /\ head' = head
        /\ position' = position /\ entries' = entries /\ idle' = idle /\ final' = final
        /\ caller' = caller /\ given' = given /\ current' = current
    OBVIOUS
  <1>4. One(Nothing, Fetch) + Tok(head) = One(Nothing, Fetch) + One(Nothing, Fetch) + Tok(head')
    BY <1>2, <1>3 DEF Tok
  <1>5. Alive' <=> Alive
    BY <1>1, <1>4, AliveStays
  <1>6. ConsumerFits'
    <2>1. /\ Count({"call"})' = Count({"call"}) /\ Busy' = Busy /\ ConsumerFits
          /\ case' = case /\ Frames' = Frames
      <3>1. Count({"call"})' = Count({"call"})
        BY <1>1, <1>2, StepIs
      <3>2. Busy' = Busy - Served - 0 + 0 + Served' /\ Busy \in Nat /\ Served \in Nat
        BY <1>1, <1>2, BusyMoves
      <3>3. Served' = Served
        BY <1>3 DEF Served
      <3> QED
        BY <1>1, <3>1, <3>2, <3>3, StepIs, FramesStay
    <2>2. (Runs("call")' <=> Runs("call")) /\ Arg' = Arg
      BY DEF Runs, Arg
    <2>3. Slot(use)' = Slot(use) /\ (Full(use)' <=> Full(use))
      BY <1>3, <2>1 DEF Slot, Full, Empty
    <2>4. \A h \in Frames : Under(h)' => Under(h)
      BY <1>1, <1>2, StepIs, UnderMoves DEF Nothing, Frames
    <2> QED
      BY <1>3, <1>5, <2>1, <2>2, <2>3, <2>4 DEF ConsumerFits
  <1>7. GivenFits'
    BY <1>1, <1>2, <1>3, GivenKeep
  <1>8. FetchesFit'
    BY <1>1, <1>2, <1>3, FetchKeep
  <1> QED
    BY <1>1, <1>2, <1>3, <1>4, <1>6, <1>7, <1>8, RingKeep
------------------------------------------------------------------------------
(* buffered: the steps that change the ring.                                 *)

\* An entry that the step leaves alone, but that its answer may have moved.
LEMMA EntryStays ==
  ASSUME NEW a, NEW f, NEW g, Step(a, f, g), NEW n \in Window,
         NEW s \in Slots, NEW p \in Nat, s = Slot(n), p = Pair(n), Pair(n)' = p,
         entries'[s] = entries[s],
         \/ /\ In(a, EntryOf(s, p)) = In(f, EntryOf(s, p)) + In(g, EntryOf(s, p))
            /\ <<s, p>> \in open' <=> <<s, p>> \in open
         \/ /\ In(a, EntryOf(s, p)) = 0
            /\ In(f, EntryOf(s, p)) + In(g, EntryOf(s, p)) = 1
            /\ <<s, p>> \in open \ open'
  PROVE  EntryFits(n)' /\ (Full(n)' <=> Full(n))
  <1>1. /\ case' = case /\ Slots' = Slots /\ EntriesFit
    BY StepIs, FramesStay
  <1>2. Slot(n)' = s
    BY <1>1 DEF Slot
  <1>3. Full(n)' <=> Full(n)
    BY <1>2 DEF Full, Empty
  <1>4. /\ entries[s].key = p
        /\ Answers(s, p) + Tok(<<s, p>> \in open) + Tok(Full(n)) = 1
        /\ Full(n) => Fits(n, entries[s].value)
    BY <1>1, EntryFitsIs
  <1>5. /\ Answers(s, p) \in Nat
        /\ Answers(s, p)' = Answers(s, p) - In(a, EntryOf(s, p)) + In(f, EntryOf(s, p))
                              + In(g, EntryOf(s, p))
    BY AnswersMove
  <1>6. Answers(s, p)' + Tok(<<s, p>> \in open') + Tok(Full(n)) = 1
    BY <1>4, <1>5 DEF In, Tok
  <1>7. Tok(<<s, p>> \in open') = Tok(<<s, p>> \in open)' /\ Tok(Full(n)) = Tok(Full(n))'
    BY <1>3 DEF Tok
  <1>8. Fits(n, entries[s].value) => Fits(n, entries[s].value)'
    BY <1>1 DEF Fits
  <1> QED
    BY <1>1, <1>2, <1>3, <1>4, <1>6, <1>7, <1>8 DEF EntryFits

\* There is room for the entry at Fetch: nothing is under way for it.
LEMMA FreeEntry ==
  ASSUME PipeInv, Buffers, WindowFits, EntriesFit, fetch - use < case.size, NEW p \in Nat
  PROVE  /\ Answers(Slot(fetch), p) = 0 /\ <<Slot(fetch), p>> \notin open /\ ~ Full(fetch)
         /\ fetch \in Nat /\ Slot(fetch) \in Slots
         /\ \A n \in Window : Slot(n) # Slot(fetch)
  <1>1. /\ case \in Cases /\ case.size \in Nat \ {0} /\ use \in Nat /\ fetch \in Nat
        /\ use <= fetch /\ Window \subseteq use .. use + case.size - 1
        /\ \A n \in Nat : Slot(n) \in Slots
    BY WindowIs DEF WindowFits
  <1>2. fetch \in use .. use + case.size - 1 /\ fetch \in fetch .. use + case.size - 1
    BY <1>1
  <1>3. ASSUME NEW n \in Window
        PROVE  Slot(n) # Slot(fetch)
    <2>1. n # fetch /\ n \in use .. use + case.size - 1
      BY <1>1, <1>3 DEF Window
    <2> QED
      BY <1>1, <1>2, <2>1, SlotOnce
  <1>4. ~ Full(fetch)
    BY <1>2 DEF EntriesFit
  <1>5. <<Slot(fetch), p>> \notin open
    BY <1>3 DEF EntriesFit
  <1>6. Answers(Slot(fetch), p) = 0
    <2>1. ASSUME Answers(Slot(fetch), p) # 0
          PROVE  FALSE
      <3>1. PICK f \in Frames : f \in EntryOf(Slot(fetch), p) /\ Under(f)
        BY <2>1, WaySome DEF Under, PipeInv, Answers
      <3>2. f[1] = "entry" /\ f[2][1] = Slot(fetch)
        BY <1>1, <3>1, EntryOfIs
      <3> QED
        BY <1>3, <3>1, <3>2 DEF EntriesFit
    <2> QED
      BY <2>1
  <1> QED
    BY <1>1, <1>3, <1>4, <1>5, <1>6

\* The entry at Fetch is filled: its answer is q, a pair or the end.
LEMMA EntriesGrow ==
  ASSUME NEW a, NEW f, NEW g, Step(a, f, g), a[1] # "entry", g[1] # "entry",
         NEW m \in Nat, m = fetch, NEW q \in {0, m + 1}, Alive, fetch - use < case.size,
         use' = use, fetch' = m + 1, Alive' <=> q # 0,
         \A n \in Nat : entries'[Slot(n)].value = entries[Slot(n)].value,
         \A n \in Window : entries'[Slot(n)] = entries[Slot(n)],
         entries'[Slot(m)].key = q,
         \/ /\ f \in EntryOf(Slot(m), q) /\ open' = open
            /\ f[2][2][1] \in (IF q = 0 THEN {"nil", "error"} ELSE {"result", "failed"})
            /\ f[2][2][1] = "nil" => m = case.length
         \/ f[1] # "entry" /\ q # 0 /\ open' = open \union {<<Slot(m), q>>}
  PROVE  /\ EntriesFit'
         /\ RunsPairs' = RunsPairs \union ({q} \ {0}) /\ HoldsPairs' = HoldsPairs
  <1>0. Step(a, f, g)
    OBVIOUS
  <1>1. /\ case' = case /\ case.size \in Nat \ {0} /\ Window \subseteq Nat /\ use \in Nat
        /\ \A n \in Nat : Slot(n) \in Slots
        /\ EntriesFit /\ WindowFits /\ PipeInv /\ Buffers /\ use <= m
        /\ Types /\ Slots' = Slots /\ Frames' = Frames
    BY WindowIs, StepIs, FramesStay DEF Step, WindowFits
  <1>2. /\ Answers(Slot(m), q) = 0 /\ <<Slot(m), q>> \notin open /\ ~ Full(m)
        /\ \A n \in Window : Slot(n) # Slot(m)
    BY <1>1, FreeEntry
  <1>3. /\ Window' = Window \union {m} /\ m \notin Window
        /\ \A n : Slot(n)' = Slot(n)
        /\ \A n \in Window : Pair(n) = n + 1 /\ Pair(n)' = n + 1
        /\ Pair(m)' = q
    <2>1. Window' = use .. (m + 1) - 1 /\ Window = use .. m - 1 /\ \A n : Slot(n)' = Slot(n)
      BY <1>1 DEF Window, Slot
    <2>2. Window' = Window \union {m} /\ m \notin Window
      BY <1>1, <2>1
    <2>3. ASSUME NEW n \in Window
          PROVE  Pair(n) = n + 1 /\ Pair(n)' = n + 1
      <3>1. n \in Nat /\ n < m
        BY <1>1, <2>1
      <3>2. n < fetch' - 1
        BY <3>1
      <3> QED
        BY <3>2 DEF Pair
    <2>4. Pair(m)' = q
      <3>1. ~ (m < fetch' - 1)
        OBVIOUS
      <3> QED
        BY <3>1 DEF Pair
    <2> QED
      BY <2>1, <2>2, <2>3, <2>4
  <1>4. \A n \in Nat : Full(n)' <=> Full(n)
    BY <1>3 DEF Full, Empty
  <1>5. ASSUME NEW n \in Window
        PROVE  EntryFits(n)'
    <2>1. PICK s \in Slots, p \in Nat : s = Slot(n) /\ p = Pair(n) /\ p = n + 1
      BY <1>1, <1>3
    <2>2. s # Slot(m)
      BY <1>2, <2>1
    <2>3. In(a, EntryOf(s, p)) = 0 /\ In(g, EntryOf(s, p)) = 0 /\ In(f, EntryOf(s, p)) = 0
      <3>1. f \notin EntryOf(s, p)
        BY <2>2 DEF EntryOf
      <3> QED
        BY <3>1, NoAnswer DEF In
    <2>4. <<s, p>> \in open' <=> <<s, p>> \in open
      BY <2>2
    <2>5. Pair(n)' = p /\ entries'[s] = entries[s]
      BY <1>3, <2>1
    <2>6. In(a, EntryOf(s, p)) = In(f, EntryOf(s, p)) + In(g, EntryOf(s, p))
      BY <2>3
    <2> QED
      BY ONLY <1>0, <1>5, <2>1, <2>4, <2>5, <2>6, EntryStays, ZenonT(30)
  <1>6. EntryFits(m)'
    <2>1. PICK s \in Slots : s = Slot(m)
      BY <1>1
    <2>2. /\ Answers(s, q) = 0 /\ <<s, q>> \notin open
          /\ Answers(s, q)' = 0 - In(a, EntryOf(s, q)) + In(f, EntryOf(s, q))
                                + In(g, EntryOf(s, q))
      BY <1>2, <2>1, AnswersMove
    <2>3. In(a, EntryOf(s, q)) = 0 /\ In(g, EntryOf(s, q)) = 0
      BY NoAnswer
    <2>4. Answers(s, q)' + Tok(<<s, q>> \in open)' = 1
      <3>1. CASE f \in EntryOf(s, q) /\ open' = open
        BY <2>2, <2>3, <3>1 DEF In, Tok
      <3>2. CASE f[1] # "entry" /\ open' = open \union {<<s, q>>}
        BY <2>2, <2>3, <3>2, NoAnswer DEF Tok
      <3> QED
        BY <2>1, <3>1, <3>2
    <2>5. ~ Full(m)' /\ Slot(m)' = s /\ entries'[s].key = q
      BY <1>2, <1>3, <1>4, <2>1
    <2>6. Answers(s, q)' + Tok(<<s, q>> \in open)' + Tok(Full(m))' = 1
      BY <2>4, <2>5 DEF Tok
    <2> QED
      BY <1>1, <1>3, <2>5, <2>6 DEF EntryFits
  <1>7. \A n \in fetch' .. use' + case'.size - 1 : ~ Full(n)'
    BY <1>1, <1>4 DEF EntriesFit
  <1>8. ASSUME NEW h \in Frames, Under(h)', h[1] = "entry"
        PROVE  \E n \in Window' : h[2][1] = Slot(n)' /\ Fits(n, h[2][2])'
    <2>1. CASE h = f
      <3>1. f \in EntryOf(Slot(m), q)
            /\ f[2][2][1] \in (IF q = 0 THEN {"nil", "error"} ELSE {"result", "failed"})
            /\ (f[2][2][1] = "nil" => m = case.length)
        BY <1>8, <2>1
      <3>2. f[2][1] = Slot(m) /\ f[2][2][2] = q
        BY <1>1, <1>8, <2>1, <3>1, EntryOfIs
      <3>3. Fits(m, f[2][2])'
        BY <1>1, <1>3, <3>1, <3>2 DEF Fits
      <3> QED
        BY <1>3, <2>1, <3>2, <3>3
    <2>2. CASE h # f
      <3>1. Under(h)
        BY <1>8, <2>2, StepIs, UnderMoves
      <3>2. PICK n \in Window : h[2][1] = Slot(n) /\ Fits(n, h[2][2])
        BY <1>1, <1>8, <3>1 DEF EntriesFit
      <3>3. Fits(n, h[2][2])'
        BY <1>1, <1>3, <3>2 DEF Fits
      <3> QED
        BY <1>3, <3>2, <3>3
    <2> QED
      BY <2>1, <2>2
  <1>9. ASSUME NEW c \in open'
        PROVE  \E n \in Window' : Pair(n)' = n + 1 /\ c = <<Slot(n)', n + 1>>
    <2>1. CASE c \in open
      <3>1. PICK n \in Window : c = <<Slot(n), n + 1>>
        BY <1>1, <2>1 DEF EntriesFit
      <3> QED
        BY <1>3, <3>1
    <2>2. CASE c = <<Slot(m), q>> /\ q = m + 1
      BY <1>3, <2>2
    <2> QED
      BY <1>9, <2>1, <2>2
  <1>10. EntriesFit'
    <2>1. \A n \in Window' : EntryFits(n)'
      BY <1>3, <1>5, <1>6
    <2> QED
      BY <1>1, <1>7, <1>8, <1>9, <2>1 DEF EntriesFit
  <1>11. RunsPairs' = RunsPairs \union ({q} \ {0})
    <2>1. \A p : p \in RunsPairs' <=>
                   p \in Nat \ {0} /\ \E n \in Window' : p = Pair(n)' /\ ~ Full(n)'
      BY DEF RunsPairs
    <2>2. \A p : p \in RunsPairs <=>
                   p \in Nat \ {0} /\ \E n \in Window : p = Pair(n) /\ ~ Full(n)
      BY DEF RunsPairs
    <2>3. ~ Full(m)' /\ \A n \in Window : n \in Nat /\ Pair(n)' = Pair(n) /\ (Full(n)' <=> Full(n))
      BY <1>1, <1>2, <1>3, <1>4
    <2> QED
      BY <1>3, <2>1, <2>2, <2>3
  <1>12. HoldsPairs' = HoldsPairs
    <2>1. \A p : p \in HoldsPairs' <=>
                   p \in Nat \ {0} /\ \E n \in Window' : p = Pair(n)' /\ Full(n)'
      BY DEF HoldsPairs
    <2>2. \A p : p \in HoldsPairs <=>
                   p \in Nat \ {0} /\ \E n \in Window : p = Pair(n) /\ Full(n)
      BY DEF HoldsPairs
    <2>3. ~ Full(m)' /\ \A n \in Window : n \in Nat /\ Pair(n)' = Pair(n) /\ (Full(n)' <=> Full(n))
      BY <1>1, <1>2, <1>3, <1>4
    <2>4. \A p : (\E n \in Window' : p = Pair(n)' /\ Full(n)')
                   <=> (\E n \in Window : p = Pair(n) /\ Full(n))
      BY <1>3, <2>3
    <2> QED
      BY <2>1, <2>2, <2>4
  <1> QED
    BY <1>10, <1>11, <1>12

\* The fetching is over: an answer for the entry at Fetch is on its way, or a call is open.
LEMMA GrowGoes ==
  ASSUME Good, stack # <<>>, stack[1][1] \in Fetch, NEW f, NEW g, Step(stack[1], f, g),
         f[1] \notin Telling, f[1] \notin Fetch,
         g[1] \notin Telling, g[1] \notin Fetch, g[1] # "entry",
         NEW m \in Nat, m = fetch, NEW q \in {0, m + 1},
         fetch' = m + 1, head' = (q # 0), q # 0 => m < case.length /\ position = m + 1,
         UNCHANGED <<position, caller, given, idle, final, use, current>>,
         \A n \in Nat : entries'[Slot(n)].value = entries[Slot(n)].value,
         \A n \in Window : entries'[Slot(n)] = entries[Slot(n)],
         entries'[Slot(m)].key = q,
         \/ /\ f \in EntryOf(Slot(m), q) /\ open' = open
            /\ f[2][2][1] \in (IF q = 0 THEN {"nil", "error"} ELSE {"result", "failed"})
            /\ f[2][2][1] = "nil" => m = case.length
         \/ f[1] # "entry" /\ q # 0 /\ open' = open \union {<<Slot(m), q>>}
  PROVE  Goes
  <1>1. /\ position' = position /\ caller' = caller /\ given' = given /\ idle' = idle
        /\ final' = final /\ use' = use /\ current' = current /\ case' = case
    BY DEF Good
  <1>2. /\ Count(Fetch) = 1 /\ Fetching /\ Alive /\ head = FALSE
        /\ One(stack[1], Fetch) = 1
        /\ stack[1][1] \notin Telling /\ stack[1][1] # "entry"
        /\ m - use < case.size /\ m <= case.length
        /\ ~ Runs("call") /\ In(stack[1], Readers) = 0
    BY FetchRuns
  <1>3. /\ case.size \in Nat \ {0} /\ case.length \in Nat /\ use \in Nat /\ use <= m
    BY GoodIs
  <1>4. One(f, Fetch) = 0 /\ One(g, Fetch) = 0 /\ In(f, Readers) = 0 /\ In(g, Readers) = 0
    BY NoReader DEF One
  <1>5. Count(Fetch)' = 0
    <2>1. "nothing" \notin Fetch
      BY DEF Fetch
    <2>2. Count(Fetch)' = Count(Fetch) - One(stack[1], Fetch) + One(f, Fetch) + One(g, Fetch)
      BY <2>1, StepIs
    <2> QED
      BY <1>2, <1>4, <2>2
  <1>6. ~ Fetching' /\ (Alive' <=> q # 0)
    BY <1>5 DEF Alive, Fetching
  <1>7. WindowFits'
    <2>1. use' <= fetch' /\ fetch' - use' <= case'.size /\ fetch' <= case'.length + 1
      BY <1>1, <1>2, <1>3
    <2>2. IF q # 0 THEN fetch' <= case'.length ELSE use' < fetch'
      BY <1>1, <1>3
    <2> QED
      BY <1>6, <2>1, <2>2 DEF WindowFits
  <1>8. FetchesFit'
    <2>1. head' => position' = fetch'
      BY <1>1
    <2>2. Count(Fetch) <= One(stack[1], Fetch)
      BY <1>2
    <2> QED
      BY <2>1, <2>2, FetchNew
  <1>9. ConsumerFits'
    BY <1>1, <1>2, ConsumerKeep
  <1>10. GivenFits'
    <2>1. In(stack[1], Readers) = In(f, Readers) + In(g, Readers)
      BY <1>2, <1>4
    <2> QED
      BY <1>1, <2>1, GivenKeep
  <1>11. /\ EntriesFit'
         /\ RunsPairs' = RunsPairs \union ({q} \ {0}) /\ HoldsPairs' = HoldsPairs
    <2>1. fetch - use < case.size
      BY <1>2
    <2> QED
      BY <1>1, <1>2, <1>6, <2>1, EntriesGrow
  <1>12. BufferedFits'
    BY <1>7, <1>8, <1>9, <1>10, <1>11 DEF BufferedFits
  <1>13. Between
    BY <1>12, BetweenIs
  <1>14. CASE q = 0
    <2>1. RunsPairs' = RunsPairs
      BY <1>11, <1>14
    <2> QED
      BY <1>1, <1>11, <1>12, <1>13, <2>1, PipeQuiet DEF Goes
  <1>15. CASE q # 0
    <2>1. RunsPairs' = RunsPairs \union {fetch + 1} /\ fetch < case.length
          /\ fetch - use < case.size
      BY <1>2, <1>11, <1>15
    <2> QED
      BY <1>1, <1>2, <1>11, <1>12, <1>13, <2>1, PipeStarts DEF Goes
  <1> QED
    BY <1>14, <1>15

LEMMA EndsGoes ==
  ASSUME Good, stack # <<>>, stack[1][1] \in Fetch, NEW x \in {"nil", "error"}, Ends(x),
         x = "nil" => fetch = case.length,
         UNCHANGED <<position, open, caller, given, idle, final, use, head, current>>
  PROVE  Goes
  <1>1. PICK m \in Nat : m = fetch
    BY GoodIs
  <1>2. /\ \A n \in Nat : Slot(n) \in Slots
        /\ entries \in [Slots -> [key : Nat, value : Outcomes \X Nat]]
        /\ PipeInv /\ Buffers /\ WindowFits /\ EntriesFit /\ Window \subseteq Nat
    BY GoodIs, WindowIs DEF Types, Good
  <1>3. PICK f \in Frames : f = <<"entry", <<Slot(m), <<x, 0>>>>>>
    BY <1>2 DEF Frames, Outcomes
  <1>4. /\ fetch' = m + 1 /\ entries' = [entries EXCEPT ![Slot(m)].key = 0]
        /\ Calls(f, Tail(stack))
    BY <1>1, <1>3 DEF Ends
  <1>5. Step(stack[1], f, Nothing)
    BY <1>4, FollowStep
  <1>6. f[1] \notin Telling /\ f[1] \notin Fetch /\ f[2][2][1] = x /\ f \in EntryOf(Slot(m), 0)
    BY <1>3 DEF Telling, Fetch, EntryOf, Outcomes
  <1>7. Nothing[1] \notin Telling /\ Nothing[1] \notin Fetch /\ Nothing[1] # "entry"
    BY NothingIs
  <1>8. head' = FALSE /\ open' = open
    BY FetchRuns
  <1>9. \A n \in Nat : entries'[Slot(n)].value = entries[Slot(n)].value
    BY <1>2, <1>4
  <1>10. \A n \in Window : entries'[Slot(n)] = entries[Slot(n)]
    <2>1. \A n \in Window : Slot(n) # Slot(m)
      BY <1>1, <1>2, FreeEntry, FetchRuns
    <2> QED
      BY <1>2, <1>4, <2>1
  <1>11. entries'[Slot(m)].key = 0
    BY <1>2, <1>4
  <1>12. PICK q \in {0, m + 1} : q = 0
    OBVIOUS
  <1>13. /\ f \in EntryOf(Slot(m), q) /\ open' = open
         /\ f[2][2][1] \in (IF q = 0 THEN {"nil", "error"} ELSE {"result", "failed"})
         /\ f[2][2][1] = "nil" => m = case.length
    BY <1>1, <1>6, <1>8, <1>12
  <1>14. head' = (q # 0) /\ (q # 0 => m < case.length /\ position = m + 1)
    BY <1>8, <1>12
  <1> QED
    BY <1>1, <1>4, <1>5, <1>6, <1>7, <1>9, <1>10, <1>11, <1>12, <1>13, <1>14, GrowGoes

LEMMA IterateGoes ==
  ASSUME Good, BufferedIterate
  PROVE  Goes
  <1>1. CASE Arg = "iter"
    BY <1>1, IterateReads
  <1>2. CASE Arg # "iter"
    <2>1. stack # <<>> /\ stack[1] = <<"iterate", Arg>> /\ FetchFits(stack[1])
          /\ stack[1] \in Frames
      BY RunsIs DEF BufferedIterate
    <2>2. Arg \in {"nil", "error"}
      BY <1>2, <2>1 DEF Frames
    <2>3. Arg = "nil" => fetch = case.length
      BY <2>1 DEF FetchFits
    <2>4. stack[1][1] \in Fetch
      BY <2>1 DEF Fetch
    <2>5. /\ Ends(Arg)
          /\ UNCHANGED <<position, open, caller, given, idle, final, use, head, current>>
      BY <1>2 DEF BufferedIterate
    <2> QED
      BY <2>1, <2>2, <2>3, <2>4, <2>5, EndsGoes
  <1> QED
    BY <1>1, <1>2

LEMMA KeyGoes ==
  ASSUME Good, BufferedKey
  PROVE  Goes
  <1>1. CASE Arg # 0
    BY <1>1, KeyReads
  <1>2. CASE Arg = 0
    <2>1. stack # <<>> /\ stack[1] = <<"key", Arg>>
      BY RunsIs DEF BufferedKey
    <2>2. stack[1][1] \in Fetch
      BY <2>1 DEF Fetch
    <2>3. /\ Ends("error")
          /\ UNCHANGED <<position, open, caller, given, idle, final, use, head, current>>
      BY <1>2 DEF BufferedKey
    <2>4. "error" \in {"nil", "error"} /\ "error" # "nil"
      OBVIOUS
    <2> QED
      BY <2>1, <2>2, <2>3, <2>4, EndsGoes
  <1> QED
    BY <1>1, <1>2

\* The function is called for the pair at Fetch.
LEMMA ValueCalls ==
  ASSUME Good, BufferedValue, Arg # 0
  PROVE  Goes
  <1>1. /\ head' = TRUE /\ fetch' = fetch + 1 /\ CallFn(Slot(fetch), Arg) /\ entries' = entries
        /\ UNCHANGED <<position, caller, given, idle, final, use, current>>
    BY DEF BufferedValue
  <1>2. stack # <<>> /\ stack[1] = <<"value", Arg>> /\ FetchFits(stack[1])
    BY RunsIs DEF BufferedValue
  <1>3. /\ fetch < case.length /\ position = fetch + 1 /\ Arg = fetch + 1
        /\ entries[Slot(fetch)].key = fetch + 1 /\ stack[1][1] \in Fetch
    BY <1>2 DEF FetchFits, Fetch
  <1>4. PICK m \in Nat : m = fetch
    BY GoodIs
  <1>5. PICK q \in {0, m + 1} : q = m + 1
    OBVIOUS
  <1>6. \A n \in Nat : Slot(n) \in Slots
    BY GoodIs
  <1>7. PICK r \in Frames : r = <<"rest", 0>>
    BY DEF Frames
  <1>8. r[1] \notin Telling /\ r[1] \notin Fetch /\ r[1] # "entry"
    BY <1>7 DEF Telling, Fetch
  <1>9. /\ fetch' = m + 1 /\ entries'[Slot(m)].key = q
        /\ head' = (q # 0) /\ (q # 0 => m < case.length /\ position = m + 1)
        /\ q # 0 /\ Arg = q
    BY <1>1, <1>3, <1>4, <1>5
  <1>10. /\ \A n \in Nat : entries'[Slot(n)].value = entries[Slot(n)].value
         /\ \A n \in Window : entries'[Slot(n)] = entries[Slot(n)]
    BY <1>1
  <1>11. ASSUME NEW x \in {"result", "failed"},
                Continue(<<"entry", <<Slot(fetch), <<x, Arg>>>>>>, << <<"rest", 0>> >> \o Tail(stack)),
                open' = open
         PROVE  Goes
    <2>1. PICK f \in Frames : f = <<"entry", <<Slot(m), <<x, q>>>>>>
      <3>1. q \in Nat /\ x \in Outcomes /\ Slot(m) \in Slots
        BY <1>6 DEF Outcomes
      <3> QED
        BY <3>1 DEF Frames
    <2>2. Continue(f, <<r>> \o Tail(stack))
      BY <1>4, <1>7, <1>9, <1>11, <2>1
    <2>3. Step(stack[1], f, r)
      BY <1>2, <2>2, BothStep
    <2>4. f[1] \notin Telling /\ f[1] \notin Fetch /\ f[2][2][1] = x /\ f \in EntryOf(Slot(m), q)
      BY <2>1 DEF Telling, Fetch, EntryOf, Outcomes
    <2>5. /\ f \in EntryOf(Slot(m), q) /\ open' = open
          /\ f[2][2][1] \in (IF q = 0 THEN {"nil", "error"} ELSE {"result", "failed"})
          /\ f[2][2][1] = "nil" => m = case.length
      BY <1>9, <1>11, <2>4
    <2> QED
      BY <1>1, <1>2, <1>3, <1>4, <1>5, <1>8, <1>9, <1>10, <2>3, <2>4, <2>5, GrowGoes
  <1>12. ASSUME open' = open \union {<<Slot(fetch), Arg>>}, Calls(<<"rest", 0>>, Tail(stack))
         PROVE  Goes
    <2>1. Step(stack[1], r, Nothing)
      BY <1>2, <1>7, <1>12, FollowStep
    <2>2. Nothing[1] \notin Telling /\ Nothing[1] \notin Fetch /\ Nothing[1] # "entry"
      BY NothingIs
    <2>3. r[1] # "entry" /\ q # 0 /\ open' = open \union {<<Slot(m), q>>}
      BY <1>4, <1>8, <1>9, <1>12
    <2> QED
      BY <1>1, <1>2, <1>3, <1>4, <1>5, <1>8, <1>9, <1>10, <2>1, <2>2, <2>3, GrowGoes
  <1> QED
    BY <1>1, <1>11, <1>12 DEF CallFn

LEMMA ValueGoes ==
  ASSUME Good, BufferedValue
  PROVE  Goes
  <1>1. CASE Arg # 0
    BY <1>1, ValueCalls
  <1>2. CASE Arg = 0
    <2>1. stack # <<>> /\ stack[1] = <<"value", Arg>>
      BY RunsIs DEF BufferedValue
    <2>2. stack[1][1] \in Fetch
      BY <2>1 DEF Fetch
    <2>3. /\ Ends("error")
          /\ UNCHANGED <<position, open, caller, given, idle, final, use, head, current>>
      BY <1>2 DEF BufferedValue
    <2>4. "error" \in {"nil", "error"} /\ "error" # "nil"
      OBVIOUS
    <2> QED
      BY <2>1, <2>2, <2>3, <2>4, EndsGoes
  <1> QED
    BY <1>1, <1>2

\* The window is as before: the answer of entry n may have moved.
LEMMA EntriesTurn ==
  ASSUME NEW a, NEW f, NEW g, Step(a, f, g), g[1] # "entry",
         use' = use, fetch' = fetch, Alive' <=> Alive,
         \A c \in open' : c \in open,
         NEW m \in Window, EntryFits(m)',
         \A n \in Window \ {m} : EntryFits(n)' /\ (Full(n)' <=> Full(n)),
         \A n \in Nat \ {m} : entries'[Slot(n)].value # Empty.value
                                => Full(n) \/ Slot(n) = Slot(m),
         f[1] = "entry" => f[2][1] = Slot(m) /\ Fits(m, f[2][2])
  PROVE  EntriesFit' /\ Window' = Window /\ \A n : Pair(n)' = Pair(n)
  <1>1. /\ case' = case /\ case \in Cases /\ case.size \in Nat \ {0} /\ Window \subseteq Nat
        /\ use \in Nat /\ fetch \in Nat /\ Window \subseteq use .. use + case.size - 1
        /\ EntriesFit /\ Frames' = Frames
    BY WindowIs, StepIs, FramesStay DEF Step
  <1>2. /\ Window' = Window /\ \A n : Slot(n)' = Slot(n) /\ (Pair(n)' = Pair(n))
    BY <1>1 DEF Window, Slot, Pair
  <1>3. \A n : \A v : Fits(n, v)' <=> Fits(n, v)
    BY <1>1, <1>2 DEF Fits
  <1>4. \A n \in Window : EntryFits(n)'
    OBVIOUS
  <1>5. ASSUME NEW n \in fetch .. use + case.size - 1
        PROVE  ~ Full(n)'
    <2>1. ~ Full(n)
      BY <1>1 DEF EntriesFit
    <2>2. n \in use .. use + case.size - 1 /\ n # m /\ n \in Nat
      <3>1. use <= fetch
        BY StepIs DEF WindowFits
      <3> QED
        BY <1>1, <3>1 DEF Window
    <2>3. Slot(n) # Slot(m)
      BY <1>1, <2>2, SlotOnce
    <2>4. Full(n)' => entries'[Slot(n)].value # Empty.value
      BY <1>2 DEF Full, Empty
    <2> QED
      BY <2>1, <2>2, <2>3, <2>4
  <1>6. ASSUME NEW h \in Frames, Under(h)', h[1] = "entry"
        PROVE  \E n \in Window : h[2][1] = Slot(n) /\ Fits(n, h[2][2])
    <2>1. CASE h = f
      BY <1>6, <2>1
    <2>2. CASE h # f
      <3>1. Under(h)
        BY <1>6, <2>2, StepIs, UnderMoves
      <3> QED
        BY <1>1, <1>6, <3>1 DEF EntriesFit
    <2> QED
      BY <2>1, <2>2
  <1>7. \A c \in open' : \E n \in Window : Pair(n) = n + 1 /\ c = <<Slot(n), n + 1>>
    BY <1>1 DEF EntriesFit
  <1>8. EntriesFit'
    BY <1>1, <1>2, <1>3, <1>4, <1>5, <1>6, <1>7 DEF EntriesFit
  <1> QED
    BY <1>2, <1>8

\* A call that stayed open returns: its answer is on its way.
LEMMA ResumeGoes ==
  ASSUME Good, NEW c \in open, Resume(c), UNCHANGED <<own, lists>>
  PROVE  Goes
  <1>1. /\ use' = use /\ fetch' = fetch /\ open' = open \ {c} /\ head' = head
        /\ position' = position /\ entries' = entries /\ idle' = idle /\ final' = final
        /\ caller' = caller /\ given' = given /\ current' = current /\ stack = <<>>
    BY DEF Resume, own
  <1>2. /\ case' = case /\ case \in Cases /\ Window \subseteq use .. use + case.size - 1
        /\ Window \subseteq Nat /\ use \in Nat
        /\ \A n \in Window : Slot(n) \in Slots
        /\ PipeInv /\ Buffers /\ WindowFits /\ EntriesFit
    BY GoodIs, WindowIs DEF Good
  <1>3. PICK m \in Window : Pair(m) = m + 1 /\ c = <<Slot(m), m + 1>>
    BY <1>2 DEF EntriesFit
  <1>4. PICK s \in Slots, p \in Nat : s = Slot(m) /\ p = m + 1 /\ p = Pair(m) /\ c = <<s, p>>
    BY <1>2, <1>3
  <1>5. PICK x \in {"result", "failed"} : Continue(<<"entry", <<s, <<x, p>>>>>>, <<>>)
    BY <1>4 DEF Resume
  <1>6. PICK f \in Frames : f = <<"entry", <<s, <<x, p>>>>>>
    BY DEF Frames, Outcomes
  <1>7. Step(Nothing, f, Nothing)
    BY <1>1, <1>5, <1>6, StartStep
  <1>8. /\ f[1] \notin Telling /\ f[1] \notin Fetch /\ In(f, Readers) = 0 /\ One(f, Fetch) = 0
        /\ f \in EntryOf(s, p) /\ f[2][1] = s /\ f[2][2] = <<x, p>>
    BY <1>6 DEF Telling, Fetch, In, Readers, One, EntryOf, Outcomes
  <1>9. Nothing[1] \notin Telling /\ In(Nothing, Readers) = 0 /\ One(Nothing, Fetch) = 0
        /\ Nothing[1] # "entry" /\ Nothing[1] \notin Fetch
    BY NothingIs
  <1>10. Alive' <=> Alive
    <2>1. One(Nothing, Fetch) + Tok(head) = One(f, Fetch) + One(Nothing, Fetch) + Tok(head')
      BY <1>1, <1>8, <1>9 DEF Tok
    <2> QED
      BY <1>7, <2>1, AliveStays
  <1>11. \A n : Pair(n)' = Pair(n)
    BY <1>1, <1>10 DEF Pair
  <1>12. ASSUME NEW n \in Window
         PROVE  EntryFits(n)' /\ (Full(n)' <=> Full(n))
    <2>1. PICK t \in Slots, q \in Nat : t = Slot(n) /\ q = Pair(n)
      BY <1>2, WindowIs
    <2>2. Pair(n)' = q /\ entries'[t] = entries[t]
      BY <1>1, <1>11, <2>1
    <2>3. In(Nothing, EntryOf(t, q)) = 0
      BY <1>9, NoAnswer
    <2>4. CASE n = m
      <3>1. t = s /\ q = p
        BY <1>4, <2>1, <2>4
      <3>2. In(f, EntryOf(t, q)) = 1 /\ <<t, q>> \in open \ open'
        BY <1>1, <1>4, <1>8, <3>1 DEF In
      <3>3. In(f, EntryOf(t, q)) + In(Nothing, EntryOf(t, q)) = 1
        BY <2>3, <3>2
      <3> QED
        BY ONLY <1>7, <1>12, <2>1, <2>2, <2>3, <3>2, <3>3, EntryStays
    <2>5. CASE n # m
      <3>1. t # s
        BY <1>2, <1>4, <2>1, <2>5, SlotOnce
      <3>2. In(f, EntryOf(t, q)) = 0 /\ (<<t, q>> \in open' <=> <<t, q>> \in open)
        BY <1>1, <1>4, <1>6, <3>1 DEF In, EntryOf
      <3>3. In(Nothing, EntryOf(t, q)) = In(f, EntryOf(t, q)) + In(Nothing, EntryOf(t, q))
        BY <2>3, <3>2
      <3> QED
        BY ONLY <1>7, <1>12, <2>1, <2>2, <3>2, <3>3, EntryStays
    <2> QED
      BY <2>4, <2>5
  <1>13. EntriesFit' /\ Window' = Window
    <2>1. Fits(m, f[2][2])
      BY <1>2, <1>3, <1>4, <1>5, <1>8 DEF Fits
    <2>2. \A n \in Nat \ {m} : entries'[Slot(n)].value # Empty.value
                                => Full(n) \/ Slot(n) = Slot(m)
      BY <1>1 DEF Full
    <2>3. f[2][1] = Slot(m) /\ \A d \in open' : d \in open
      BY <1>1, <1>4, <1>8
    <2> QED
      BY <1>1, <1>7, <1>9, <1>10, <1>12, <2>1, <2>2, <2>3, EntriesTurn
  <1>14. RunsPairs' = RunsPairs /\ HoldsPairs' = HoldsPairs
    BY <1>11, <1>12, <1>13 DEF RunsPairs, HoldsPairs
  <1>15. WindowFits'
    BY <1>1, <1>7, <1>8, <1>9, <1>10, WindowKeep
  <1>16. FetchesFit'
    BY <1>1, <1>7, <1>8, <1>9, FetchKeep
  <1>17. ConsumerFits'
    <2>1. ~ Runs("call")
      BY <1>1 DEF Runs
    <2> QED
      BY <1>1, <1>7, <1>8, <1>9, <1>10, <2>1, ConsumerKeep
  <1>18. GivenFits'
    <2>1. In(Nothing, Readers) = In(f, Readers) + In(Nothing, Readers)
      BY <1>8, <1>9
    <2> QED
      BY <1>1, <1>7, <2>1, GivenKeep
  <1>19. BufferedFits'
    BY <1>13, <1>15, <1>16, <1>17, <1>18 DEF BufferedFits
  <1>20. Between
    BY <1>7, <1>19, BetweenIs
  <1> QED
    BY <1>1, <1>14, <1>19, <1>20, PipeQuiet DEF Goes

\* The running answer is for an entry that is empty.
LEMMA EntryRuns ==
  ASSUME Good, Runs("entry")
  PROVE  \E m \in Window, s \in Slots, v \in Outcomes \X Nat :
           /\ stack[1] = <<"entry", <<s, v>>>> /\ stack[1] \in EntryOf(s, v[2])
           /\ s = Slot(m) /\ Fits(m, v) /\ v[2] = Pair(m) /\ v # Empty.value
           /\ ~ Full(m) /\ <<s, v[2]>> \notin open /\ Answers(s, v[2]) = 1
  <1>1. stack[1] \in Frames /\ stack[1][1] = "entry" /\ Under(stack[1])
    BY RunsIs
  <1>2. EntriesFit /\ PipeInv /\ Buffers /\ WindowFits
    BY GoodIs DEF Good
  <1>3. PICK m \in Window : stack[1][2][1] = Slot(m) /\ Fits(m, stack[1][2][2])
    BY <1>1, <1>2 DEF EntriesFit
  <1>4. PICK s \in Slots, v \in Outcomes \X Nat :
          s = stack[1][2][1] /\ v = stack[1][2][2] /\ stack[1] = <<"entry", <<s, v>>>>
          /\ stack[1] \in EntryOf(s, v[2])
    <2>1. /\ stack[1][2][1] \in Slots /\ stack[1][2][2] \in Outcomes \X Nat
          /\ stack[1] \in EntryOf(stack[1][2][1], stack[1][2][2][2])
      BY <1>1, EntryIs
    <2>2. stack[1] = <<"entry", <<stack[1][2][1], stack[1][2][2]>>>>
      BY <1>1, EntryIs
    <2> QED
      BY <2>1, <2>2
  <1>5. s = Slot(m) /\ Fits(m, v) /\ v[2] = Pair(m) /\ v # Empty.value
    BY <1>3, <1>4 DEF Fits, Empty
  <1>6. ~ Full(m) /\ <<Slot(m), Pair(m)>> \notin open /\ Answers(Slot(m), Pair(m)) = 1
    BY <1>1, <1>2, <1>4, <1>5, AnswerOnce
  <1> QED
    BY <1>4, <1>5, <1>6

\* Another handler may follow: the consumer's, when it waits for the entry.
LEMMA EntryFills ==
  ASSUME Good, Runs("entry"), NEW a, NEW f, Step(a, f, Nothing), f[1] # "entry",
         NEW m \in Window, NEW s \in Slots, NEW v \in Outcomes \X Nat,
         a \in EntryOf(s, v[2]),
         s = Slot(m), Fits(m, v), v[2] = Pair(m), v # Empty.value,
         ~ Full(m), <<s, v[2]>> \notin open, Answers(s, v[2]) = 1,
         entries' = [entries EXCEPT ![s].value = v],
         use' = use, fetch' = fetch, open' = open, Alive' <=> Alive
  PROVE  /\ EntriesFit' /\ Pair(m) \in Nat
         /\ RunsPairs' = RunsPairs \ {Pair(m)}
         /\ HoldsPairs' = HoldsPairs \union ({Pair(m)} \ {0})
         /\ Pair(m) # 0 => Pair(m) \in RunsPairs
  <1>0. Step(a, f, Nothing)
    OBVIOUS
  <1>1. /\ case' = case /\ case \in Cases /\ Window \subseteq use .. use + case.size - 1
        /\ Window \subseteq Nat /\ use \in Nat /\ fetch \in Nat /\ case.size \in Nat \ {0}
        /\ \A n \in Window : Slot(n) \in Slots /\ Pair(n) \in {0, n + 1}
        /\ PipeInv /\ Buffers /\ WindowFits /\ EntriesFit /\ Slots' = Slots
        /\ entries \in [Slots -> [key : Nat, value : Outcomes \X Nat]]
        /\ \A n \in Nat : Slot(n) \in Slots
    BY GoodIs, WindowIs, FramesStay DEF Good, Types
  <1>14. \A n \in Window : n \in Nat /\ Slot(n) \in Slots /\ Pair(n) \in {0, n + 1} /\ Pair(n) \in Nat
    <2>1. \A n \in Window : n \in Nat /\ Slot(n) \in Slots /\ Pair(n) \in {0, n + 1}
      BY ONLY <1>1
    <2> QED
      BY ONLY <2>1
  <1>2. PICK p \in Nat : p = v[2] /\ p = Pair(m)
    OBVIOUS
  <1>3. Nothing[1] # "entry"
    BY NothingIs
  <1>4. \A n : Pair(n)' = Pair(n) /\ Slot(n)' = Slot(n)
    BY <1>1 DEF Pair, Slot
  <1>5. entries'[s].key = entries[s].key /\ entries'[s].value = v
    BY <1>1
  <1>6. EntryFits(m)' /\ Full(m)'
    <2>1. /\ Answers(s, p)' = Answers(s, p) - In(a, EntryOf(s, p))
                                + In(f, EntryOf(s, p)) + In(Nothing, EntryOf(s, p))
      BY AnswersMove
    <2>2. In(a, EntryOf(s, p)) = 1
      BY <1>2 DEF In
    <2>3. In(f, EntryOf(s, p)) = 0 /\ In(Nothing, EntryOf(s, p)) = 0
      BY <1>3, NoAnswer
    <2>4. Answers(s, p)' = 0
      BY <1>2, <2>1, <2>2, <2>3
    <2>5. Slot(m)' = s /\ Full(m)'
      BY <1>4, <1>5 DEF Full, Empty
    <2>6. entries[s].key = p
      BY <1>1, <1>2, EntryFitsIs
    <2>7. Tok(<<s, p>> \in open)' = 0 /\ Tok(Full(m))' = 1
      BY <1>2, <2>5 DEF Tok
    <2>8. Fits(m, v)'
      BY <1>1, <1>4 DEF Fits
    <2>9. Fits(m, entries[s].value)'
      BY <1>5, <2>8
    <2>10. Answers(s, p)' + Tok(<<s, p>> \in open)' + Tok(Full(m))' = 1
      BY <2>4, <2>7
    <2>11. Pair(m)' = p /\ entries'[s].key = p
      BY <1>2, <1>4, <1>5, <2>6
    <2> QED
      BY <1>1, <2>5, <2>9, <2>10, <2>11 DEF EntryFits
  <1>7. ASSUME NEW n \in Window \ {m}
        PROVE  EntryFits(n)' /\ (Full(n)' <=> Full(n))
    <2>1. PICK t \in Slots, q \in Nat : t = Slot(n) /\ q = Pair(n)
      BY <1>14
    <2>2. t # s
      BY <1>1, <2>1, SlotOnce
    <2>3. Pair(n)' = q /\ entries'[t] = entries[t]
      BY <1>1, <1>4, <2>1, <2>2
    <2>4. In(Nothing, EntryOf(t, q)) = 0 /\ In(f, EntryOf(t, q)) = 0
      BY <1>3, NoAnswer
    <2>5. In(a, EntryOf(t, q)) = 0
      BY <2>2 DEF In, EntryOf
    <2>6. /\ In(a, EntryOf(t, q)) = In(f, EntryOf(t, q)) + In(Nothing, EntryOf(t, q))
          /\ <<t, q>> \in open' <=> <<t, q>> \in open
      BY <2>4, <2>5
    <2>7. n \in Window
      OBVIOUS
    <2> QED
      BY ONLY <1>0, <2>1, <2>3, <2>6, <2>7, EntryStays
  <1>8. \A n \in Nat \ {m} : entries'[Slot(n)].value # Empty.value
                               => Full(n) \/ Slot(n) = Slot(m)
    BY <1>1 DEF Full
  <1>9. EntriesFit' /\ Window' = Window
    <2>1. \A c \in open' : c \in open
      OBVIOUS
    <2> QED
      BY <1>3, <1>6, <1>7, <1>8, <2>1, EntriesTurn
  <1>10. \A n \in Window \ {m} : Pair(n) = Pair(m) => Pair(m) = 0
    BY ONLY <1>14, m \in Window
  <1>11. RunsPairs' = RunsPairs \ {Pair(m)}
    <2>1. \A q : q \in RunsPairs' <=>
                   q \in Nat \ {0} /\ \E n \in Window : q = Pair(n) /\ ~ Full(n)'
      BY <1>4, <1>9 DEF RunsPairs
    <2>2. \A q : q \in RunsPairs <=>
                   q \in Nat \ {0} /\ \E n \in Window : q = Pair(n) /\ ~ Full(n)
      BY DEF RunsPairs
    <2>3. ~ Full(m) /\ Full(m)' /\ m \in Window
      BY <1>6
    <2>4. \A q : (\E n \in Window : q = Pair(n) /\ ~ Full(n)')
                   <=> \E n \in Window \ {m} : q = Pair(n) /\ ~ Full(n)
      BY ONLY <1>7, <2>3
    <2>5. \A q \in Nat \ {0} : (\E n \in Window \ {m} : q = Pair(n) /\ ~ Full(n))
                   <=> (\E n \in Window : q = Pair(n) /\ ~ Full(n)) /\ q # Pair(m)
      BY ONLY <1>10, <2>3
    <2> QED
      BY ONLY <2>1, <2>2, <2>4, <2>5
  <1>12. HoldsPairs' = HoldsPairs \union ({Pair(m)} \ {0})
    <2>1. \A q : q \in HoldsPairs' <=>
                   q \in Nat \ {0} /\ \E n \in Window : q = Pair(n) /\ Full(n)'
      BY <1>4, <1>9 DEF HoldsPairs
    <2>2. \A q : q \in HoldsPairs <=>
                   q \in Nat \ {0} /\ \E n \in Window : q = Pair(n) /\ Full(n)
      BY DEF HoldsPairs
    <2> QED
      BY <1>2, <1>6, <1>7, <1>10, <2>1, <2>2
  <1>13. Pair(m) # 0 => Pair(m) \in RunsPairs
    BY <1>2 DEF RunsPairs
  <1> QED
    BY <1>2, <1>9, <1>11, <1>12, <1>13

\* What the ring keeps when an answer is stored in it, whatever the consumer does.
LEMMA EntryRing ==
  ASSUME Good, BufferedEntry, NEW f, Step(stack[1], f, Nothing), f[1] # "entry",
         f[1] \notin Fetch, In(f, Readers) = 0, ConsumerFits'
  PROVE  Goes
  <1>1. /\ use' = use /\ fetch' = fetch /\ open' = open /\ head' = head
        /\ position' = position /\ idle' = idle /\ final' = final /\ given' = given
        /\ current' = current /\ Runs("entry") /\ case' = case
    BY DEF BufferedEntry, own, Good
  <1>2. PICK m \in Window, s \in Slots, v \in Outcomes \X Nat :
           /\ stack[1] = <<"entry", <<s, v>>>> /\ stack[1] \in EntryOf(s, v[2])
           /\ s = Slot(m) /\ Fits(m, v) /\ v[2] = Pair(m) /\ v # Empty.value
           /\ ~ Full(m) /\ <<s, v[2]>> \notin open /\ Answers(s, v[2]) = 1
    BY <1>1, EntryRuns
  <1>3. PICK a \in Frames : a = stack[1] /\ Step(a, f, Nothing)
    BY <1>1, RunsIs
  <1>4. entries' = [entries EXCEPT ![s].value = v]
    <2>1. Arg[1] = s /\ Arg[2] = v
      BY <1>2 DEF Arg
    <2> QED
      BY <2>1 DEF BufferedEntry
  <1>5. /\ a[1] = "entry" /\ One(a, Fetch) = 0 /\ In(a, Readers) = 0 /\ One(f, Fetch) = 0
    <2>1. a[1] = "entry"
      BY <1>2, <1>3
    <2> QED
      BY <2>1 DEF One, Fetch, In, Readers
  <1>6. Nothing[1] \notin Telling /\ In(Nothing, Readers) = 0 /\ One(Nothing, Fetch) = 0
        /\ Nothing[1] # "entry" /\ Nothing[1] \notin Fetch
    BY NothingIs
  <1>7. Alive' <=> Alive
    <2>1. One(a, Fetch) + Tok(head) = One(f, Fetch) + One(Nothing, Fetch) + Tok(head')
      BY <1>1, <1>5, <1>6 DEF Tok
    <2> QED
      BY <1>3, <2>1, AliveStays
  <1>8. /\ EntriesFit' /\ Pair(m) \in Nat
        /\ RunsPairs' = RunsPairs \ {Pair(m)}
        /\ HoldsPairs' = HoldsPairs \union ({Pair(m)} \ {0})
        /\ Pair(m) # 0 => Pair(m) \in RunsPairs
    BY <1>1, <1>2, <1>3, <1>4, <1>7, EntryFills
  <1>9. WindowFits'
    BY <1>1, <1>3, <1>6, <1>7, WindowKeep
  <1>10. FetchesFit'
    <2>1. entries'[Slot(fetch)].key = entries[Slot(fetch)].key
      <3>1. entries \in [Slots -> [key : Nat, value : Outcomes \X Nat]] /\ Slot(fetch) \in Slots
        BY GoodIs DEF Types
      <3> QED
        BY <1>4, <3>1
    <2> QED
      BY <1>1, <1>3, <1>6, <2>1, FetchKeep
  <1>11. GivenFits'
    <2>1. In(a, Readers) = In(f, Readers) + In(Nothing, Readers)
      BY <1>5, <1>6
    <2> QED
      BY <1>1, <1>3, <2>1, GivenKeep
  <1>12. BufferedFits'
    BY <1>8, <1>9, <1>10, <1>11 DEF BufferedFits
  <1>13. Between
    BY <1>3, <1>12, BetweenIs
  <1>14. CASE Pair(m) = 0
    <2>1. RunsPairs' = RunsPairs /\ HoldsPairs' = HoldsPairs
      BY <1>8, <1>14 DEF RunsPairs
    <2> QED
      BY <1>1, <1>12, <1>13, <2>1, PipeQuiet DEF Goes
  <1>15. CASE Pair(m) # 0
    <2>1. PICK p \in RunsPairs : p = Pair(m)
      BY <1>8, <1>15
    <2>2. p <= case.length
      BY <2>1, WindowIs, GoodIs DEF Good
    <2>3. RunsPairs' = RunsPairs \ {p} /\ HoldsPairs' = HoldsPairs \union {p}
      BY <1>8, <1>15, <2>1
    <2> QED
      BY <1>1, <1>12, <1>13, <2>2, <2>3, PipeReturns DEF Goes
  <1> QED
    BY <1>14, <1>15

\* The answer is for the entry that the consumer waits for: it is taken.
LEMMA TurnGoes ==
  ASSUME Good, BufferedEntry, Turn(Arg[1])
  PROVE  Goes
  <1>1. /\ use' = use /\ fetch' = fetch /\ idle' = idle /\ final' = final
        /\ caller' = caller /\ Runs("entry") /\ caller /\ Arg[1] = Slot(use)
    BY DEF BufferedEntry, own, Turn
  <1>2. PICK m \in Window, s \in Slots, v \in Outcomes \X Nat :
           /\ stack[1] = <<"entry", <<s, v>>>>
           /\ s = Slot(m) /\ v # Empty.value /\ ~ Full(m)
    BY <1>1, EntryRuns
  <1>3. PICK f \in Frames : f = <<"call", s>>
    BY DEF Frames
  <1>4. Arg[1] = s /\ Arg[2] = v
    BY <1>2 DEF Arg
  <1>5. Calls(f, Tail(stack)) /\ entries' = [entries EXCEPT ![s].value = v]
    BY <1>3, <1>4 DEF BufferedEntry
  <1>6. stack # <<>> /\ stack[1][1] = "entry" /\ ~ Runs("call")
    BY <1>1, RunsIs
  <1>7. Step(stack[1], f, Nothing)
    BY <1>5, <1>6, FollowStep
  <1>8. /\ f[1] = "call" /\ f[1] \notin Fetch /\ In(f, Readers) = 0 /\ One(f, Telling) = 1
        /\ One(stack[1], Telling) = 0 /\ f[2] = Slot(use)
    BY <1>1, <1>3, <1>4, <1>6 DEF Fetch, In, Readers, One, Telling
  <1>9. m = use /\ use < fetch /\ ~ Full(use)
    <2>1. /\ case \in Cases /\ use \in Nat /\ fetch \in Nat /\ case.size \in Nat \ {0}
          /\ Window \subseteq use .. use + case.size - 1 /\ use <= fetch
      BY WindowIs, GoodIs DEF Good
    <2>2. m = use
      <3>1. use \in use .. use + case.size - 1 /\ m \in use .. use + case.size - 1
        BY <2>1
      <3>2. Slot(m) = Slot(use)
        BY <1>1, <1>2, <1>4
      <3> QED
        BY <2>1, <3>1, <3>2, SlotOnce
    <2> QED
      BY <1>2, <2>1, <2>2 DEF Window
  <1>10. Nothing[1] \notin Telling
    BY NothingIs
  <1>11. Busy = 0 /\ Count({"call"}) = 0
    <2>1. ConsumerFits
      BY GoodIs
    <2> QED
      BY <1>1, <1>6, <1>9, <2>1 DEF ConsumerFits
  <1>12. Busy' <= 1
    <2>1. /\ Busy' = Busy - Served - One(stack[1], Telling) + One(f, Telling) + Served'
          /\ Served \in Nat
      BY <1>7, <1>10, BusyMoves
    <2>2. Served' = Served
      BY <1>1 DEF Served
    <2> QED
      BY <1>8, <1>11, <2>1, <2>2
  <1>13. Runs("call")' /\ Arg' = Slot(use)
    <2>1. stack' # <<>> /\ stack'[1] = f
      <3>1. Tail(stack) \in Seq(Frames)
        BY <1>6, TailMany, GoodIs DEF Types
      <3> QED
        BY <1>5, <3>1, AboveMany DEF Calls, Above
    <2> QED
      BY <1>8, <2>1 DEF Runs, Arg
  <1>14. entries'[Slot(use)].value # Empty.value
    <2>1. entries \in [Slots -> [key : Nat, value : Outcomes \X Nat]] /\ s = Slot(use)
      BY <1>1, <1>4, GoodIs DEF Types
    <2> QED
      BY <1>2, <1>5, <2>1
  <1>15. ConsumerFits'
    <2>1. idle' \in BOOLEAN
      BY <1>1, GoodIs DEF ConsumerFits
    <2>2. caller' \in BOOLEAN
      BY <1>1, GoodIs DEF ConsumerFits
    <2>3. Count({"call"}) <= One(stack[1], {"call"})
      BY <1>6, <1>11 DEF One
    <2>4. f[1] # "consumer" /\ use < fetch'
      BY <1>1, <1>8, <1>9
    <2> QED
      BY <1>1, <1>7, <1>10, <1>12, <1>13, <1>14, <2>1, <2>2, <2>3, <2>4, ConsumerNew
  <1> QED
    BY <1>7, <1>8, <1>15, EntryRing

\* The answer stays in its entry.
LEMMA StoreGoes ==
  ASSUME Good, BufferedEntry, ~ Turn(Arg[1])
  PROVE  Goes
  <1>1. /\ use' = use /\ fetch' = fetch /\ idle' = idle /\ final' = final
        /\ caller' = caller /\ Runs("entry") /\ Returns /\ head' = head
    BY DEF BufferedEntry, own
  <1>2. PICK m \in Window, s \in Slots, v \in Outcomes \X Nat :
           stack[1] = <<"entry", <<s, v>>>>
    BY <1>1, EntryRuns
  <1>3. Arg[1] = s /\ Arg[2] = v
    BY <1>2 DEF Arg
  <1>4. entries' = [entries EXCEPT ![s].value = v] /\ ~ (caller /\ s = Slot(use))
    BY <1>3 DEF BufferedEntry, Turn
  <1>5. stack # <<>> /\ stack[1][1] = "entry" /\ ~ Runs("call")
    BY <1>1, RunsIs
  <1>6. Step(stack[1], Nothing, Nothing)
    BY <1>1, <1>5, ReturnsStep
  <1>7. Nothing[1] \notin Telling /\ In(Nothing, Readers) = 0 /\ One(Nothing, Fetch) = 0
        /\ Nothing[1] # "call" /\ Nothing[1] # "consumer" /\ One(Nothing, Telling) = 0
        /\ Nothing[1] # "entry" /\ Nothing[1] \notin Fetch
    BY NothingIs DEF Telling
  <1>8. One(stack[1], Telling) = 0 /\ One(stack[1], Fetch) = 0
    BY <1>5 DEF One, Telling, Fetch
  <1>9. Busy' = Busy /\ Busy <= 1
    <2>1. /\ Busy' = Busy - Served - One(stack[1], Telling) + One(Nothing, Telling) + Served'
          /\ Busy \in Nat /\ Served \in Nat /\ Busy <= 1
      BY <1>6, <1>7, BusyMoves
    <2>2. Served' = Served
      BY <1>1 DEF Served
    <2> QED
      BY <1>7, <1>8, <2>1, <2>2
  <1>10. Alive' <=> Alive
    <2>1. One(stack[1], Fetch) + Tok(head) = One(Nothing, Fetch) + One(Nothing, Fetch) + Tok(head')
      BY <1>1, <1>7, <1>8 DEF Tok
    <2> QED
      BY <1>6, <2>1, AliveStays
  <1>11. /\ idle \in BOOLEAN /\ caller \in BOOLEAN /\ Count({"call"}) = 0
         /\ caller => Busy = 0 \/ (use = fetch - 1 /\ ~ Alive /\ Full(use))
    BY <1>5, GoodIs DEF ConsumerFits
  <1>12. caller' => \/ Busy' = 0
                    \/ /\ use' = use /\ use = fetch' - 1 /\ ~ Alive'
                       /\ entries'[Slot(use)].value # Empty.value
    <2>1. /\ entries \in [Slots -> [key : Nat, value : Outcomes \X Nat]]
          /\ Slot(use) \in Slots
      BY GoodIs DEF Types
    <2>2. caller => entries'[Slot(use)].value = entries[Slot(use)].value
      BY <1>4, <2>1
    <2> QED
      BY <1>1, <1>9, <1>10, <1>11, <2>2 DEF Full
  <1>13. ConsumerFits'
    <2>1. Count({"call"}) <= One(stack[1], {"call"})
      BY <1>11 DEF One
    <2>2. idle' \in BOOLEAN
      BY <1>1, <1>11
    <2>3. caller' \in BOOLEAN
      BY <1>1, <1>11
    <2>4. Busy' <= 1
      BY <1>9
    <2> QED
      BY <1>1, <1>6, <1>7, <1>12, <2>1, <2>2, <2>3, <2>4, ConsumerNew
  <1> QED
    BY <1>6, <1>7, <1>13, EntryRing

LEMMA EntryGoes ==
  ASSUME Good, BufferedEntry
  PROVE  Goes
  BY TurnGoes, StoreGoes

LEMMA RemainderAround ==
  ASSUME NEW u \in Nat, NEW s \in Nat \ {0}
  PROVE  (u + s) % s = u % s
  <1> DEFINE q == u \div s
             t == u % s
  <1>1. u = s * q + t /\ q \in Nat /\ t \in Nat /\ t < s
    BY Division
  <1> HIDE DEF q, t
  <1>2. u + s = s * (q + 1) + t /\ q + 1 \in Nat
    BY <1>1
  <1>3. (s * (q + 1) + t) % s = t
    BY <1>1, <1>2, Remainder
  <1> QED
    BY <1>2, <1>3 DEF t

\* The order of the handlers that are new does not matter.
LEMMA StepSwap ==
  ASSUME NEW a, NEW f, NEW g, Step(a, f, g)
  PROVE  Step(a, g, f)
  <1>1. Types /\ Moves(a, f, g)
    BY StepIs
  <1>2. Moves(a, g, f)
    <2>1. \A F : Way(F) \in Nat
      BY <1>1, WayNat
    <2>2. \A F : In(a, F) \in Nat /\ In(f, F) \in Nat /\ In(g, F) \in Nat
      BY DEF In
    <2> QED
      BY <1>1, <2>1, <2>2 DEF Moves
  <1> QED
    BY <1>2 DEF Step

\* The entry at Use is taken out of the ring.
LEMMA EntriesShift ==
  ASSUME NEW a, NEW f, NEW g, Step(a, f, g),
         a[1] # "entry", f[1] # "entry", g[1] # "entry",
         NEW u \in Window, u = use, Full(u), Pair(u) = u + 1,
         use' = u + 1, fetch' = fetch, open' = open, Alive' <=> Alive,
         entries' = [entries EXCEPT ![Slot(u)] = Empty]
  PROVE  /\ EntriesFit' /\ RunsPairs' = RunsPairs /\ HoldsPairs' = HoldsPairs \ {u + 1}
         /\ u + 1 \in HoldsPairs
  <1>0. Step(a, f, g)
    OBVIOUS
  <1>1. /\ case' = case /\ case \in Cases /\ Window \subseteq use .. use + case.size - 1
        /\ Window \subseteq Nat /\ use \in Nat /\ fetch \in Nat /\ case.size \in Nat \ {0}
        /\ PipeInv /\ Buffers /\ WindowFits /\ EntriesFit /\ Slots' = Slots /\ Frames' = Frames
        /\ entries \in [Slots -> [key : Nat, value : Outcomes \X Nat]]
        /\ \A n \in Nat : Slot(n) \in Slots
    BY StepIs, WindowIs, FramesStay DEF Step, Types
  <1>2. \A n \in Window : n \in Nat /\ Slot(n) \in Slots /\ Pair(n) \in {0, n + 1} /\ Pair(n) \in Nat
    <2>1. \A n \in Window : n \in Nat /\ Slot(n) \in Slots /\ Pair(n) \in {0, n + 1}
      BY <1>1, WindowIs
    <2> QED
      BY ONLY <2>1
  <1>3. /\ Window' = Window \ {u} /\ \A n : Slot(n)' = Slot(n) /\ Pair(n)' = Pair(n)
    <2>1. Window' = u + 1 .. fetch - 1 /\ Window = u .. fetch - 1
      BY DEF Window
    <2>2. Window' = Window \ {u}
      <3>1. u \in Nat /\ fetch \in Nat
        BY <1>1, <1>2
      <3>2. u + 1 .. fetch - 1 = (u .. fetch - 1) \ {u}
        BY ONLY <3>1
      <3> QED
        BY ONLY <2>1, <3>2
    <2> QED
      BY <1>1, <2>2 DEF Slot, Pair
  <1>4. ASSUME NEW n \in u .. u + case.size - 1, n # u
        PROVE  entries'[Slot(n)] = entries[Slot(n)] /\ Slot(n) # Slot(u)
    <2>1. n \in Nat /\ u \in u .. u + case.size - 1
      BY <1>1
    <2>2. Slot(n) # Slot(u)
      BY <1>1, <1>4, <2>1, SlotOnce
    <2> QED
      BY <1>1, <2>1, <2>2
  <1>5. ASSUME NEW n \in Window \ {u}
        PROVE  EntryFits(n)' /\ (Full(n)' <=> Full(n))
    <2>1. PICK s \in Slots, p \in Nat : s = Slot(n) /\ p = Pair(n)
      BY <1>2
    <2>2. Pair(n)' = p /\ entries'[s] = entries[s]
      BY <1>1, <1>3, <1>4, <2>1
    <2>3. In(a, EntryOf(s, p)) = 0 /\ In(f, EntryOf(s, p)) = 0 /\ In(g, EntryOf(s, p)) = 0
      BY NoAnswer
    <2>4. /\ In(a, EntryOf(s, p)) = In(f, EntryOf(s, p)) + In(g, EntryOf(s, p))
          /\ <<s, p>> \in open' <=> <<s, p>> \in open
      BY <2>3
    <2>5. n \in Window
      OBVIOUS
    <2> QED
      BY ONLY <1>0, <2>1, <2>2, <2>4, <2>5, EntryStays
  <1>6. ASSUME NEW n \in fetch .. u + 1 + case.size - 1
        PROVE  ~ Full(n)'
    <2>1. entries'[Slot(n)].value = Empty.value
      <3>1. CASE n = u + case.size
        <4>1. Slot(n) = Slot(u)
          BY <1>1, <1>2, <3>1, RemainderAround DEF Slot
        <4> QED
          BY <1>1, <1>2, <4>1
      <3>2. CASE n # u + case.size
        <4>1. n \in fetch .. u + case.size - 1 /\ u < fetch
          <5>1. u < fetch /\ u \in Nat
            BY <1>1, <1>2 DEF Window
          <5>2. fetch \in Nat /\ case.size \in Nat /\ n \in fetch .. u + 1 + case.size - 1
            BY <1>1
          <5> QED
            BY ONLY <3>2, <5>1, <5>2
        <4>2. n \in u .. u + case.size - 1 /\ n # u
          BY <1>1, <1>2, <4>1
        <4>3. ~ Full(n)
          BY <1>1, <4>1 DEF EntriesFit
        <4> QED
          BY <1>4, <4>2, <4>3 DEF Full
      <3> QED
        BY <3>1, <3>2
    <2> QED
      BY <1>3, <2>1 DEF Full, Empty
  <1>7. ASSUME NEW h \in Frames, Under(h)', h[1] = "entry"
        PROVE  \E n \in Window \ {u} : h[2][1] = Slot(n) /\ Fits(n, h[2][2])
    <2>1. Under(h)
      BY <1>7, StepIs, UnderMoves
    <2>2. PICK n \in Window : h[2][1] = Slot(n) /\ Fits(n, h[2][2])
      BY <1>1, <1>7, <2>1 DEF EntriesFit
    <2>3. ~ Full(n)
      BY <1>1, <1>7, <2>1, <2>2, AnswerOnce DEF Fits
    <2> QED
      BY <2>2, <2>3
  <1>8. ASSUME NEW c \in open
        PROVE  \E n \in Window \ {u} : Pair(n) = n + 1 /\ c = <<Slot(n), n + 1>>
    <2>1. PICK n \in Window : Pair(n) = n + 1 /\ c = <<Slot(n), n + 1>>
      BY <1>1 DEF EntriesFit
    <2>2. ~ Full(n)
      BY <1>1, <2>1, AnswerOnce
    <2> QED
      BY <2>1, <2>2
  <1>9. EntriesFit'
    <2>1. \A n : \A v : Fits(n, v)' <=> Fits(n, v)
      BY <1>1, <1>3 DEF Fits
    <2>2. \A n \in Window' : EntryFits(n)'
      BY <1>3, <1>5
    <2>3. \A n \in fetch' .. use' + case'.size - 1 : ~ Full(n)'
      BY <1>1, <1>6
    <2> QED
      BY <1>1, <1>3, <1>7, <1>8, <2>1, <2>2, <2>3 DEF EntriesFit
  <1>10. RunsPairs' = RunsPairs
    <2>1. \A q : q \in RunsPairs' <=>
                   q \in Nat \ {0} /\ \E n \in Window \ {u} : q = Pair(n) /\ ~ Full(n)'
      BY <1>3 DEF RunsPairs
    <2>2. \A q : q \in RunsPairs <=>
                   q \in Nat \ {0} /\ \E n \in Window : q = Pair(n) /\ ~ Full(n)
      BY DEF RunsPairs
    <2>3. Full(u) /\ u \in Window
      OBVIOUS
    <2> QED
      BY ONLY <1>5, <2>1, <2>2, <2>3
  <1>11. HoldsPairs' = HoldsPairs \ {u + 1}
    <2>1. \A q : q \in HoldsPairs' <=>
                   q \in Nat \ {0} /\ \E n \in Window \ {u} : q = Pair(n) /\ Full(n)'
      BY <1>3 DEF HoldsPairs
    <2>2. \A q : q \in HoldsPairs <=>
                   q \in Nat \ {0} /\ \E n \in Window : q = Pair(n) /\ Full(n)
      BY DEF HoldsPairs
    <2>3. Full(u) /\ u \in Window /\ Pair(u) = u + 1
      OBVIOUS
    <2>4. \A n \in Window \ {u} : Pair(n) # u + 1
      BY ONLY <1>2, <2>3
    <2> QED
      BY ONLY <1>5, <2>1, <2>2, <2>3, <2>4
  <1>12. u + 1 \in HoldsPairs
    BY <1>2 DEF HoldsPairs
  <1> QED
    BY <1>9, <1>10, <1>11, <1>12

\* What buffered_call takes is the next pair with its result.
LEMMA CallTakes ==
  ASSUME Good, BufferedCall, entries[Arg].key # 0
  PROVE  \E u \in Window :
           /\ u = use /\ Full(u) /\ Pair(u) = u + 1 /\ u \in Nat /\ u < case.length
           /\ u + 1 <= fetch /\ (~ Alive => u + 1 < fetch)
           /\ use' = u + 1 /\ fetch' = fetch /\ open' = open /\ caller' = FALSE
           /\ idle' = idle /\ given' = given /\ final' = final
           /\ entries' = [entries EXCEPT ![Slot(u)] = Empty]
           /\ current' \in Entry /\ current'.key = u + 1 /\ current'.value[2] = u + 1
           /\ current'.value[1] \in {"result", "failed"}
  <1>1. Runs("call")
    BY DEF BufferedCall
  <1>2. /\ Arg = Slot(use) /\ use < fetch /\ use \in Window /\ Full(use)
        /\ entries[Slot(use)].key = Pair(use) /\ Fits(use, entries[Slot(use)].value)
    BY <1>1, CallIs
  <1>3. PICK u \in Window : u = use
    BY <1>2
  <1>4. /\ u \in Nat /\ fetch \in Nat /\ case.length \in Nat /\ Slot(u) \in Slots
        /\ Pair(u) \in {0, u + 1} /\ Pair(u) <= case.length
        /\ entries \in [Slots -> [key : Nat, value : Outcomes \X Nat]]
    BY <1>3, GoodIs, WindowIs DEF Good, Types
  <1>5. /\ entries[Slot(u)].key # 0 /\ Full(u) /\ Pair(u) = entries[Slot(u)].key
        /\ Fits(u, entries[Slot(u)].value) /\ u < fetch
    BY <1>2, <1>3
  <1>6. Pair(u) = u + 1
    BY <1>4, <1>5
  <1>7. ~ Alive => u + 1 < fetch
    <2>1. ASSUME ~ Alive, ~ (u < fetch - 1)
          PROVE  FALSE
      BY <1>4, <1>6, <2>1 DEF Pair
    <2> QED
      BY <1>4, <2>1
  <1>8. /\ current' = entries[Slot(u)] /\ use' = u + 1 /\ fetch' = fetch /\ open' = open
        /\ caller' = FALSE /\ idle' = idle /\ given' = given /\ final' = final
        /\ entries' = [entries EXCEPT ![Slot(u)] = Empty]
    BY <1>2, <1>3, <1>5 DEF BufferedCall
  <1>9. /\ current' \in Entry /\ current'.key = u + 1
    BY <1>4, <1>5, <1>6, <1>8 DEF Entry
  <1>10. current'.value[2] = u + 1 /\ current'.value[1] \in {"result", "failed"}
    BY <1>4, <1>5, <1>6, <1>8 DEF Fits
  <1>11. u < case.length /\ u + 1 <= fetch
    BY <1>4, <1>5, <1>6
  <1> QED
    BY ONLY <1>3, <1>4, <1>5, <1>6, <1>7, <1>8, <1>9, <1>10, <1>11

\* Its step, with the handlers f and g that follow: one of them has the pair.
LEMMA ShiftGoes ==
  ASSUME Good, BufferedCall, entries[Arg].key # 0,
         NEW f, NEW g, Step(stack[1], f, g), f[1] # "entry", g[1] # "entry",
         In(f, Readers) + In(g, Readers) = 1,
         One(f, Fetch) + One(g, Fetch) + Tok(head') = Tok(head),
         FetchesFit', ConsumerFits'
  PROVE  Goes
  <1>1. PICK u \in Window :
           /\ u = use /\ Full(u) /\ Pair(u) = u + 1 /\ u \in Nat /\ u < case.length
           /\ u + 1 <= fetch /\ (~ Alive => u + 1 < fetch)
           /\ use' = u + 1 /\ fetch' = fetch /\ open' = open
           /\ given' = given /\ final' = final
           /\ entries' = [entries EXCEPT ![Slot(u)] = Empty]
           /\ current' \in Entry /\ current'.key = u + 1 /\ current'.value[2] = u + 1
           /\ current'.value[1] \in {"result", "failed"}
    BY CallTakes
  <1>2. PICK a : a = stack[1] /\ Step(a, f, g)
    OBVIOUS
  <1>3. /\ a[1] = "call" /\ One(a, Fetch) = 0 /\ In(a, Readers) = 0 /\ Way(Readers) = 0
        /\ final = "none"
    BY <1>2, CallIs DEF BufferedCall
  <1>4. Alive' <=> Alive
    <2>1. One(a, Fetch) + Tok(head) = One(f, Fetch) + One(g, Fetch) + Tok(head')
      BY <1>3 DEF Tok
    <2> QED
      BY <1>2, <2>1, AliveStays
  <1>5. /\ EntriesFit' /\ RunsPairs' = RunsPairs /\ HoldsPairs' = HoldsPairs \ {u + 1}
        /\ u + 1 \in HoldsPairs
    <2>1. a[1] # "entry" /\ f[1] # "entry" /\ g[1] # "entry" /\ Step(a, f, g)
      BY <1>2, <1>3
    <2>2. /\ u \in Window /\ u = use /\ Full(u) /\ Pair(u) = u + 1
          /\ use' = u + 1 /\ fetch' = fetch /\ open' = open
          /\ entries' = [entries EXCEPT ![Slot(u)] = Empty]
      BY <1>1
    <2> QED
      BY ONLY <1>4, <2>1, <2>2, EntriesShift
  <1>6. WindowFits'
    <2>1. /\ u + 1 <= fetch /\ fetch - (u + 1) < case.size /\ fetch <= case.length + 1
          /\ Alive => fetch <= case.length
      <3>1. fetch - u <= case.size /\ fetch <= case.length + 1 /\ (Alive => fetch <= case.length)
        BY <1>1, GoodIs DEF WindowFits
      <3>2. u \in Nat /\ fetch \in Nat /\ case.size \in Nat
        BY <1>1, GoodIs
      <3> QED
        BY <1>1, <3>1, <3>2
    <2>2. case' = case /\ case.size \in Nat
      BY GoodIs DEF Good
    <2>3. use' <= fetch' /\ fetch' - use' < case'.size /\ fetch' <= case'.length + 1
          /\ (Alive' => fetch' <= case'.length) /\ (~ Alive' => use' < fetch')
      BY <1>1, <1>4, <2>1, <2>2
    <2>4. fetch' - use' <= case'.size
      BY <1>1, <2>1, <2>2, GoodIs
    <2> QED
      BY <2>3, <2>4 DEF WindowFits
  <1>7. GivenFits'
    <2>1. Way(Readers)' = 1
      <3>1. Readers \in SUBSET Frames /\ Readers' = Readers
        BY DEF Readers, Frames
      <3>2. Way(Readers)' = Way(Readers) - In(a, Readers) + In(f, Readers) + In(g, Readers)
        BY <1>2, <3>1, WayOfMoves
      <3>3. In(f, Readers) \in Nat /\ In(g, Readers) \in Nat
        BY DEF In
      <3> QED
        BY <1>3, <3>2, <3>3
    <2>2. /\ given \in Seq(Entry) /\ \A i \in DOMAIN given : given[i].key = i /\ given[i].value[2] = i
          /\ u = Len(given)
      BY <1>1, <1>3, GoodIs DEF GivenFits
    <2>3. use' = Len(given') + Way(Readers)'
      BY <1>1, <2>1, <2>2
    <2> QED
      BY <1>1, <2>1, <2>2, <2>3 DEF GivenFits, Entry
  <1>8. BufferedFits'
    BY <1>5, <1>6, <1>7 DEF BufferedFits
  <1>9. Between
    BY <1>2, <1>8, BetweenIs
  <1> QED
    BY <1>1, <1>3, <1>5, <1>8, <1>9, PipeGives DEF Goes

\* Into the room the next pair is fetched, before the consumer goes on.
LEMMA CallFetches ==
  ASSUME Good, BufferedCall, entries[Arg].key # 0, FetchNext(<< <<"give", 0>> >> \o Tail(stack))
  PROVE  Goes
  <1>1. Runs("call") /\ head /\ head' = FALSE /\ AskIter(<< <<"give", 0>> >> \o Tail(stack))
    BY DEF BufferedCall, FetchNext
  <1>2. /\ fetch' = fetch /\ caller' = FALSE /\ idle' = idle /\ final' = final
    BY CallTakes
  <1>3. /\ stack # <<>> /\ stack[1] \in Frames /\ stack[1][1] = "call"
        /\ Count(Telling) = 1 /\ One(stack[1], Telling) = 1 /\ One(stack[1], {"call"}) = 1
        /\ Busy = 1 /\ Served = 0 /\ idle = FALSE /\ final = "none"
        /\ Count({"call"}) = 1 /\ One(stack[1], Fetch) = 0
    BY <1>1, CallIs
  <1>4. Alive /\ Count(Fetch) = 0 /\ position = fetch /\ fetch <= case.length /\ Tok(head) = 1
    BY <1>1, HeadIs
  <1>5. PICK f \in Frames : f[1] = "iterate" /\ FetchFits(f)'
                            /\ Continue(f, << <<"give", 0>> >> \o Tail(stack))
    BY <1>1, <1>2, <1>4, AskIs
  <1>6. PICK g \in Frames : g = <<"give", 0>>
    BY DEF Frames
  <1>7. Step(stack[1], f, g)
    BY <1>3, <1>5, <1>6, BothStep
  <1>8. /\ f[1] \in Fetch /\ f[1] \notin Telling /\ f[1] # "entry"
        /\ One(f, Fetch) = 1 /\ In(f, Readers) = 0
    BY <1>5, FetchedIs
  <1>9. /\ g[1] = "give" /\ g[1] \notin Fetch /\ One(g, Fetch) = 0 /\ In(g, Readers) = 1
        /\ One(g, Telling) = 1
    BY <1>6 DEF Fetch, One, In, Readers, Telling
  <1>10. FetchesFit'
    <2>1. Count(Fetch) <= One(stack[1], Fetch) /\ ~ head'
      BY <1>1, <1>3, <1>4
    <2> QED
      BY <1>5, <1>7, <1>9, <2>1, FetchNew
  <1>11. ConsumerFits'
    <2>1. Step(stack[1], g, f)
      BY <1>7, StepSwap
    <2>2. Busy' <= 1
      <3>1. /\ Busy' = Busy - Served - One(stack[1], Telling) + One(g, Telling) + Served'
            /\ Served' = (IF idle' THEN 1 ELSE 0) + (IF final' # "none" THEN 1 ELSE 0)
        BY <1>8, <2>1, BusyMoves
      <3> QED
        BY <1>2, <1>3, <1>9, <3>1
    <2>3. idle' \in BOOLEAN
      BY <1>2, <1>3
    <2>4. caller' \in BOOLEAN /\ ~ caller'
      BY <1>2
    <2>5. Count(Telling) <= One(stack[1], Telling) /\ Count({"call"}) <= One(stack[1], {"call"})
      BY <1>3
    <2>6. g[1] # "call" /\ g[1] # "consumer"
      BY <1>9
    <2> QED
      BY <1>8, <2>1, <2>2, <2>3, <2>4, <2>5, <2>6, ConsumerNew
  <1>12. One(f, Fetch) + One(g, Fetch) + Tok(head') = Tok(head)
    BY <1>1, <1>4, <1>8, <1>9 DEF Tok
  <1>13. In(f, Readers) + In(g, Readers) = 1
    BY <1>8, <1>9
  <1> QED
    BY <1>7, <1>8, <1>9, <1>10, <1>11, <1>12, <1>13, ShiftGoes

\* Nothing can be fetched: the consumer goes on.
LEMMA CallTells ==
  ASSUME Good, BufferedCall, entries[Arg].key # 0,
         ~ head, Continue(<<"consumer", "state">>, Tail(stack)),
         UNCHANGED <<position, asked, head>>
  PROVE  Goes
  <1>1. Runs("call") /\ head' = head /\ position' = position
    BY DEF BufferedCall
  <1>2. PICK u \in Window :
           /\ u = use /\ use' = u + 1
           /\ fetch' = fetch /\ caller' = FALSE /\ idle' = idle /\ final' = final
           /\ entries' = [entries EXCEPT ![Slot(u)] = Empty]
    BY CallTakes
  <1>3. /\ stack # <<>> /\ stack[1] \in Frames /\ stack[1][1] = "call"
        /\ Count(Telling) = 1 /\ One(stack[1], Telling) = 1 /\ One(stack[1], {"call"}) = 1
        /\ Busy = 1 /\ Served = 0 /\ idle = FALSE /\ final = "none"
        /\ Count({"call"}) = 1 /\ One(stack[1], Fetch) = 0
    BY <1>1, CallIs
  <1>4. PICK f \in Frames : f = <<"consumer", "state">>
    BY DEF Frames
  <1>5. Step(stack[1], f, Nothing)
    BY <1>3, <1>4, FollowStep
  <1>6. /\ f[1] = "consumer" /\ f[2] = "state" /\ f[1] \notin Fetch /\ One(f, Fetch) = 0
        /\ In(f, Readers) = 1 /\ One(f, Telling) = 1 /\ f[1] # "entry"
    BY <1>4 DEF Fetch, One, In, Readers, Telling
  <1>7. /\ Nothing[1] \notin Telling /\ In(Nothing, Readers) = 0 /\ One(Nothing, Fetch) = 0
        /\ Nothing[1] # "entry" /\ Nothing[1] \notin Fetch
    BY NothingIs
  <1>8. FetchesFit'
    <2>1. entries'[Slot(fetch)].key = entries[Slot(fetch)].key \/ ~ Fetching
      <3>1. ASSUME Fetching
            PROVE  entries'[Slot(fetch)].key = entries[Slot(fetch)].key
        <4>1. fetch - use < case.size
          BY <3>1, GoodIs DEF WindowFits
        <4>2. Slot(u) # Slot(fetch)
          BY <4>1, FreeEntry, GoodIs DEF Good
        <4>3. entries \in [Slots -> [key : Nat, value : Outcomes \X Nat]]
              /\ Slot(fetch) \in Slots
          BY GoodIs DEF Types
        <4> QED
          BY <1>2, <4>2, <4>3
      <3> QED
        BY <3>1
    <2> QED
      BY <1>1, <1>2, <1>5, <1>6, <1>7, <2>1, FetchKeep
  <1>9. ConsumerFits'
    <2>1. Busy' <= 1
      <3>1. /\ Busy' = Busy - Served - One(stack[1], Telling) + One(f, Telling) + Served'
            /\ Served' = (IF idle' THEN 1 ELSE 0) + (IF final' # "none" THEN 1 ELSE 0)
        BY <1>5, <1>7, BusyMoves
      <3> QED
        BY <1>2, <1>3, <1>6, <3>1
    <2>2. idle' \in BOOLEAN
      BY <1>2, <1>3
    <2>3. caller' \in BOOLEAN /\ ~ caller'
      BY <1>2
    <2>4. Count(Telling) <= One(stack[1], Telling) /\ Count({"call"}) <= One(stack[1], {"call"})
      BY <1>3
    <2>5. f[1] # "call" /\ f[2] \in {"state", "nil", "error"} /\ f[2] # "nil"
      BY <1>6
    <2> QED
      BY <1>5, <1>7, <2>1, <2>2, <2>3, <2>4, <2>5, ConsumerNew
  <1>10. One(f, Fetch) + One(Nothing, Fetch) + Tok(head') = Tok(head)
    BY <1>1, <1>6, <1>7 DEF Tok
  <1>11. In(f, Readers) + In(Nothing, Readers) = 1
    BY <1>6, <1>7
  <1> QED
    BY <1>5, <1>6, <1>7, <1>8, <1>9, <1>10, <1>11, ShiftGoes

LEMMA CallGoes ==
  ASSUME Good, BufferedCall
  PROVE  Goes
  <1>1. CASE entries[Arg].key = 0
    BY <1>1, CallEnds
  <1>2. CASE entries[Arg].key # 0
    <2>1. \/ FetchNext(<< <<"give", 0>> >> \o Tail(stack))
          \/ /\ ~ head /\ Continue(<<"consumer", "state">>, Tail(stack))
             /\ UNCHANGED <<position, asked, head>>
      BY <1>2 DEF BufferedCall
    <2> QED
      BY <1>2, <2>1, CallFetches, CallTells
  <1> QED
    BY <1>1, <1>2
------------------------------------------------------------------------------
(* buffered implements Pipe.                                                 *)

LEMMA CaseStays ==
  ASSUME Buffers, [Next]_vars
  PROVE  case' = case
  <1>1. CASE BufferedStep
    BY <1>1 DEF BufferedStep, BufferedIterate, BufferedKey, BufferedValue, BufferedRest,
                BufferedEntry, BufferedCall, BufferedGive, BufferedNext, BufferedConsumer,
                Take, Finish
  <1>2. CASE Serve
    BY <1>2 DEF Serve, Begin, RunNext
  <1>3. CASE Return
    BY <1>3 DEF Return, Resume
  <1>4. CASE Ask \/ Preempt
    BY <1>4 DEF Ask, Preempt
  <1>5. CASE UNCHANGED vars
    BY <1>5 DEF vars, common
  <1> QED
    BY <1>1, <1>2, <1>3, <1>4, <1>5 DEF Next, Handle

\* Nothing but the end of a slice.
LEMMA PreemptGoes ==
  ASSUME Good, Preempt \/ UNCHANGED common, UNCHANGED own
  PROVE  Goes
  <1>1. /\ stack' = stack /\ sched' = sched
        /\ UNCHANGED <<use, fetch, open, head, position, entries, idle, final, caller,
                       given, current>>
    BY DEF Preempt, common, own
  <1> QED
    BY <1>1, StayGoes

\* Every step keeps the invariant, and is a step of Pipe or none.
LEMMA BufferedStepGoes ==
  PipeInv /\ Buffers /\ BufferedFits /\ [Next]_vars
    => PipeInv' /\ Buffers' /\ BufferedFits' /\ Piped
  <1> SUFFICES ASSUME PipeInv, Buffers, BufferedFits, [Next]_vars
               PROVE  PipeInv' /\ Buffers' /\ BufferedFits' /\ Piped
    OBVIOUS
  <1>1. PipeInv'
    BY NextInv
  <1>2. case' = case
    BY CaseStays
  <1>3. Good /\ Buffers'
    BY <1>1, <1>2 DEF Good, Buffers
  <1>4. CASE Handle
    <2>1. BufferedStep
      BY <1>4 DEF Handle
    <2> QED
      BY <1>1, <1>3, <2>1, IterateGoes, KeyGoes, ValueGoes, RestGoes, EntryGoes, CallGoes,
         GiveGoes, NextGoes, ConsumerGoes DEF BufferedStep, Goes
  <1>5. CASE Serve
    BY <1>1, <1>3, <1>5, BeginGoes, RunNextGoes DEF Serve, Goes
  <1>6. CASE Return
    BY <1>1, <1>3, <1>6, ResumeGoes DEF Return, Goes
  <1>7. CASE (Ask \/ Preempt) /\ UNCHANGED <<own, lists>>
    BY <1>1, <1>3, <1>7, AskGoes, PreemptGoes DEF Goes
  <1>8. CASE UNCHANGED vars
    <2>1. UNCHANGED common /\ UNCHANGED own
      BY <1>8 DEF vars
    <2> QED
      BY <1>1, <1>3, <2>1, PreemptGoes DEF Goes
  <1> QED
    BY <1>4, <1>5, <1>6, <1>7, <1>8 DEF Next

LEMMA BufferedStarts ==
  Init /\ Buffers => BufferedFits /\ P!Init
  <1> SUFFICES ASSUME Init, Buffers
               PROVE  BufferedFits /\ P!Init
    OBVIOUS
  <1>1. /\ case \in Cases /\ stack = << <<"begin", 0>> >> /\ sched = <<>>
        /\ position = 0 /\ entries = [s \in Slots |-> Empty] /\ open = {} /\ caller = TRUE
        /\ given = <<>> /\ idle = FALSE /\ final = "none"
        /\ use = 0 /\ fetch = 0 /\ head = FALSE /\ current = Empty
    BY DEF Init, PipelineInit, BufferedInit
  <1>2. PipeInv
    BY InitInv
  <1>3. PICK b \in Frames : b = <<"begin", 0>>
    BY DEF Frames
  <1>4. ASSUME NEW F
        PROVE  Way(F) = In(b, F)
    <2>1. <<>> \in Seq(Frames) /\ Append(<<>>, b) = stack
      BY <1>1, <1>3
    <2>2. Many(<<>>, F) = 0
      BY <2>1, ManyFinite
    <2>3. Many(Append(<<>>, b), F) = Many(<<>>, F) + In(b, F)
      BY <2>1, AppendMany
    <2>4. Many(stack, F) = In(b, F) /\ Many(sched, F) = 0 /\ In(b, F) \in Nat
      BY <1>1, <2>1, <2>2, <2>3 DEF In
    <2> QED
      BY <2>4 DEF Way
  <1>5. /\ Count(Fetch) = 1 /\ Count(Telling) = 0 /\ Count({"call"}) = 0 /\ Way(Readers) = 0
        /\ \A f \in Frames : Under(f) => f = b
    <2>1. b \in Named(Fetch) /\ b \notin Named(Telling) /\ b \notin Named({"call"})
          /\ b \notin Readers
      BY <1>3 DEF Named, Fetch, Telling, Readers
    <2>2. \A f \in Frames : In(b, {f}) # 0 => f = b
      BY DEF In
    <2> QED
      BY <1>4, <2>1, <2>2 DEF Count, Under, In
  <1>6. /\ case.size \in Nat \ {0} /\ case.length \in Nat /\ Window = {}
        /\ \A n \in Nat : Slot(n) \in Slots
    <2>1. Window = {}
      BY <1>1 DEF Window
    <2> QED
      BY <1>1, <2>1, CaseIs DEF Slot
  <1>7. WindowFits
    BY <1>1, <1>5, <1>6 DEF WindowFits, Alive, Fetching
  <1>8. FetchesFit
    <2>1. FetchFits(b)
      BY <1>1, <1>3 DEF FetchFits
    <2> QED
      BY <1>1, <1>5, <2>1 DEF FetchesFit
  <1>9. EntriesFit
    <2>1. \A n \in fetch .. use + case.size - 1 : ~ Full(n)
      <3>1. \A n \in fetch .. use + case.size - 1 : n \in Nat
        BY <1>1
      <3>2. \A t \in Slots : entries[t].value = Empty.value
        BY <1>1
      <3> QED
        BY <1>6, <3>1, <3>2 DEF Full
    <2>2. b[1] # "entry"
      BY <1>3
    <2> QED
      BY <1>1, <1>5, <1>6, <2>1, <2>2 DEF EntriesFit
  <1>10. ConsumerFits
    <2>1. Busy = 0
      BY <1>1, <1>5 DEF Busy, Served
    <2>2. b[1] # "consumer"
      BY <1>3
    <2>3. idle \in BOOLEAN
      BY <1>1
    <2>4. caller \in BOOLEAN
      BY <1>1
    <2> QED
      BY <1>5, <2>1, <2>2, <2>3, <2>4 DEF ConsumerFits
  <1>11. GivenFits
    <2>1. Empty \in Entry
      BY DEF Empty, Entry, Outcomes
    <2>2. <<>> \in Seq(Entry) /\ Len(<<>>) = 0 /\ DOMAIN <<>> = {}
      OBVIOUS
    <2> QED
      BY <1>1, <1>5, <2>1, <2>2 DEF GivenFits
  <1>12. BufferedFits
    BY <1>7, <1>8, <1>9, <1>10, <1>11 DEF BufferedFits
  <1>13. Running = {} /\ Held = {} /\ GivenPairs = <<>>
    <2>1. Sees
      BY <1>2, <1>12, SeesNow
    <2>2. RunsPairs = {} /\ HoldsPairs = {}
      BY <1>6 DEF RunsPairs, HoldsPairs
    <2>3. [i \in 1 .. 0 |-> i] = <<>>
      OBVIOUS
    <2> QED
      BY <1>1, <2>1, <2>2, <2>3 DEF Sees
  <1> QED
    BY <1>1, <1>12, <1>13 DEF P!Init, Held

------------------------------------------------------------------------------
\* buffered implements Pipe (ImplementsPipe): the consumer gets the pairs of the
\* sequence in order, each once and with the result of its own call; it is told
\* nil only after the last, and nothing after an error; at most Size calls are
\* open.  For sequences of every length, all sizes, calls that return at once,
\* later in any order or never, and slices that end anywhere: what
\* ml_buffered_iterate, ml_buffered_call and the handlers between them do to the
\* ring of entries and its marks Use, Fetch and Head.
THEOREM BufferedImplementsPipe ==
  Spec /\ Buffers => ImplementsPipe
  <1>1. Init => PipeInv
    BY InitInv
  <1>2. Init /\ Buffers => BufferedFits /\ P!Init
    BY BufferedStarts
  <1>3. PipeInv /\ Buffers /\ BufferedFits /\ [Next]_vars
          => PipeInv' /\ Buffers' /\ BufferedFits' /\ [P!Next]_(P!vars)
    BY BufferedStepGoes DEF Piped
  <1> QED
    BY <1>1, <1>2, <1>3, PTL DEF Spec, ImplementsPipe, P!Spec

------------------------------------------------------------------------------
(* diffused: the handlers.  One of them runs, and those below it wait.       *)

Waits == {<<"rest", 0>>, <<"fetched", 0>>}
OnlyWaits(s) == \A i \in DOMAIN s : s[i] \in Waits

Top == IF stack = <<>> THEN Nothing ELSE stack[1]
Below == IF stack = <<>> THEN <<>> ELSE Tail(stack)

\* The handler that runs is over.  f runs, above g if that is a handler; if f is
\* none, the next one of those that wait goes on.
Onto(f, g) ==
  /\ Top' = f \/ (f = Nothing /\ Top' \in Waits)
  /\ OnlyWaits(Below')
  /\ \A H : "nothing" \notin H =>
       Count(H) \in Nat /\ Count(H)' \in Nat
         /\ Count(H)' = Count(H) - One(Top, H) + One(f, H) + One(g, H)

\* diffused while no slice has ended, and a step of it.
Still == PipeInv /\ ~ Buffers /\ DiffusedWhole /\ OnlyWaits(Below)
Whole == Still /\ case' = case /\ PipeInv'

LEMMA StillIs ==
  ASSUME Still
  PROVE  /\ Types /\ ~ Buffers /\ sched = <<>> /\ ~ preempt
         /\ case \in Cases /\ case.size \in Nat \ {0} /\ case.length \in Nat
         /\ Below \in Seq(Frames) /\ OnlyWaits(Below) /\ Top \in Frames \union {Nothing}
  <1>1. /\ Types /\ ~ Buffers /\ sched = <<>> /\ ~ preempt
        /\ case \in Cases /\ OnlyWaits(Below)
    BY DEF Still, PipeInv, Types, OneFetch
  <1>2. /\ Below \in Seq(Frames) /\ Top \in Frames \union {Nothing}
    <2>1. stack \in Seq(Frames)
      BY <1>1 DEF Types
    <2>2. stack # <<>> => stack[1] \in Frames /\ Tail(stack) \in Seq(Frames)
      BY <2>1
    <2>3. <<>> \in Seq(Frames)
      OBVIOUS
    <2> QED
      BY <2>2, <2>3 DEF Below, Top
  <1> QED
    BY <1>1, <1>2, CaseIs

LEMMA WholeIs ==
  ASSUME Whole
  PROVE  /\ Types /\ Types' /\ ~ Buffers /\ sched = <<>> /\ sched' = <<>> /\ ~ preempt
         /\ case' = case /\ case \in Cases /\ case.size \in Nat \ {0} /\ case.length \in Nat
         /\ Below \in Seq(Frames) /\ OnlyWaits(Below) /\ Top \in Frames \union {Nothing}
  <1>1. PipeInv' /\ Types' /\ Still /\ case' = case
    BY DEF Whole, PipeInv
  <1>2. sched' = <<>>
    BY <1>1, StillIs, FramesStay DEF PipeInv, OneFetch
  <1> QED
    BY <1>1, <1>2, StillIs

LEMMA TailWaits ==
  ASSUME NEW s \in Seq(Frames), OnlyWaits(s), s # <<>>
  PROVE  s[1] \in Waits /\ Tail(s) \in Seq(Frames) /\ OnlyWaits(Tail(s))
  <1>1. /\ s[1] \in Waits
    BY DEF OnlyWaits
  <1>2. /\ Tail(s) \in Seq(Frames) /\ DOMAIN Tail(s) = 1 .. Len(s) - 1
        /\ DOMAIN s = 1 .. Len(s) /\ Len(s) \in Nat
    OBVIOUS
  <1>3. ASSUME NEW i \in DOMAIN Tail(s)
        PROVE  Tail(s)[i] \in Waits
    <2>1. Tail(s)[i] = s[i + 1] /\ i + 1 \in DOMAIN s
      BY <1>2
    <2> QED
      BY <2>1 DEF OnlyWaits
  <1> QED
    BY <1>1, <1>2, <1>3 DEF OnlyWaits

LEMMA AboveWaits ==
  ASSUME NEW s \in Seq(Frames), OnlyWaits(s), NEW h \in Waits
  PROVE  Above(h, s) \in Seq(Frames) /\ OnlyWaits(Above(h, s)) /\ h \in Frames
  <1>1. h \in Frames
    BY DEF Waits, Frames
  <1>2. /\ Above(h, s) \in Seq(Frames) /\ Len(Above(h, s)) = Len(s) + 1
        /\ \A i \in DOMAIN Above(h, s) : Above(h, s)[i] = IF i = 1 THEN h ELSE s[i - 1]
        /\ DOMAIN Above(h, s) = 1 .. Len(s) + 1 /\ DOMAIN s = 1 .. Len(s) /\ Len(s) \in Nat
    BY <1>1 DEF Above
  <1>3. ASSUME NEW i \in DOMAIN Above(h, s)
        PROVE  Above(h, s)[i] \in Waits
    <2>1. CASE i = 1
      BY <1>2, <2>1
    <2>2. CASE i # 1
      <3>1. i - 1 \in DOMAIN s
        BY <1>2, <2>2
      <3> QED
        BY <1>2, <2>2, <3>1 DEF OnlyWaits
    <2> QED
      BY <2>1, <2>2
  <1> QED
    BY <1>1, <1>2, <1>3 DEF OnlyWaits

LEMMA AboveIs ==
  ASSUME Whole, NEW f \in Frames, NEW rest \in Seq(Frames), OnlyWaits(rest),
         stack' = Above(f, rest)
  PROVE  Top' = f /\ Below' = rest
  <1>1. Above(f, rest)[1] = f /\ Above(f, rest) # <<>> /\ Tail(Above(f, rest)) = rest
    BY AboveMany
  <1> QED
    BY <1>1 DEF Top, Below

LEMMA TopMoves ==
  ASSUME Whole, NEW f \in Frames \union {Nothing}, NEW g \in Frames \union {Nothing},
         Moves(Top, f, g), NEW H, "nothing" \notin H
  PROVE  /\ Count(H) \in Nat /\ Count(H)' \in Nat
         /\ Count(H)' = Count(H) - One(Top, H) + One(f, H) + One(g, H)
  <1>1. Types /\ Types' /\ case' = case /\ Top \in Frames \union {Nothing}
    BY WholeIs
  <1>5. Count(H)' \in Nat
    <2>1. Count(H)' = Many(stack', Named(H)) + Many(sched', Named(H))
      BY <1>1, NextWay
    <2>2. stack' \in Seq(Frames) /\ sched' \in Seq(Frames)
      BY <1>1, FramesStay DEF Types
    <2> QED
      BY <2>1, <2>2, ManyFinite
  <1>2. PICK a \in Frames \union {Nothing} : a = Top
    BY <1>1
  <1>3. Moves(a, f, g)
    BY <1>2
  <1>4. Count(H) \in Nat /\ Count(H)' = Count(H) - One(a, H) + One(f, H) + One(g, H)
    BY <1>1, <1>3, CountMoves
  <1> QED
    BY <1>2, <1>4, <1>5

\* The running handler is followed by f.
LEMMA OntoOne ==
  ASSUME Whole, NEW f \in Frames,
         \/ stack # <<>> /\ (Continue(f, Tail(stack)) \/ Calls(f, Tail(stack)))
         \/ stack = <<>> /\ Continue(f, <<>>)
         \/ stack = <<>> /\ stack' = <<f>> /\ sched' = sched
  PROVE  Onto(f, Nothing)
  <1>1. Types /\ ~ preempt /\ case' = case /\ OnlyWaits(Below) /\ Below \in Seq(Frames)
        /\ Top \in Frames \union {Nothing}
    BY WholeIs
  <1>2. stack' = Above(f, Below)
    <2>1. <<f>> \o <<>> = <<f>>
      OBVIOUS
    <2> QED
      BY <1>1, <2>1 DEF Continue, Calls, Above, Below
  <1>3. Top' = f /\ Below' = Below
    BY <1>1, <1>2, AboveIs
  <1>4. Moves(Top, f, Nothing)
    <2>1. CASE stack # <<>>
      BY <1>1, <2>1, ContinueMoves DEF Top
    <2>2. CASE stack = <<>>
      BY <1>1, <2>2, StartMoves DEF Top
    <2> QED
      BY <2>1, <2>2
  <1>5. OnlyWaits(Below')
    BY <1>1, <1>3
  <1>9. ASSUME NEW H, "nothing" \notin H
        PROVE  /\ Count(H) \in Nat /\ Count(H)' \in Nat
               /\ Count(H)' = Count(H) - One(Top, H) + One(f, H) + One(Nothing, H)
    BY <1>4, <1>9, TopMoves
  <1> QED
    BY <1>3, <1>5, <1>9 DEF Onto

\* It is followed by f, and h after it.
LEMMA OntoBoth ==
  ASSUME Whole, stack # <<>>, NEW f \in Frames, NEW h \in Waits,
         Continue(f, <<h>> \o Tail(stack)) \/ Calls(f, <<h>> \o Tail(stack))
  PROVE  Onto(f, h)
  <1>1. Types /\ ~ preempt /\ case' = case /\ OnlyWaits(Below) /\ Below \in Seq(Frames)
        /\ Top \in Frames \union {Nothing}
    BY WholeIs
  <1>2. stack' = Above(f, Above(h, Below))
    BY <1>1 DEF Continue, Calls, Above, Below
  <1>3. /\ Above(h, Below) \in Seq(Frames) /\ OnlyWaits(Above(h, Below)) /\ h \in Frames
    BY <1>1, AboveWaits
  <1>4. Top' = f /\ Below' = Above(h, Below)
    BY <1>2, <1>3, AboveIs
  <1>5. Moves(Top, f, h)
    BY <1>1, <1>3, BothMove DEF Top
  <1>6. OnlyWaits(Below')
    BY <1>3, <1>4
  <1>9. ASSUME NEW H, "nothing" \notin H
        PROVE  /\ Count(H) \in Nat /\ Count(H)' \in Nat
               /\ Count(H)' = Count(H) - One(Top, H) + One(f, H) + One(h, H)
    BY <1>3, <1>5, <1>9, TopMoves
  <1> QED
    BY <1>4, <1>6, <1>9 DEF Onto

\* It returns to the one below it.
LEMMA OntoNone ==
  ASSUME Whole, stack # <<>>, Returns
  PROVE  Onto(Nothing, Nothing)
  <1>1. Types /\ case' = case /\ OnlyWaits(Below) /\ Below \in Seq(Frames)
        /\ Top \in Frames \union {Nothing}
    BY WholeIs
  <1>2. stack' = Below
    BY DEF Returns, Below
  <1>3. Top' \in Waits \union {Nothing} /\ OnlyWaits(Below')
    <2>1. CASE Below = <<>>
      BY <1>2, <2>1 DEF Top, Below, OnlyWaits
    <2>2. CASE Below # <<>>
      <3>1. Below[1] \in Waits /\ OnlyWaits(Tail(Below))
        BY <1>1, <2>2, TailWaits
      <3>2. Top' = Below[1] /\ Below' = Tail(Below)
        BY <1>2, <2>2 DEF Top, Below
      <3> QED
        BY <3>1, <3>2
    <2> QED
      BY <2>1, <2>2
  <1>4. Moves(Top, Nothing, Nothing)
    BY <1>1, ReturnsMove DEF Top
  <1>9. ASSUME NEW H, "nothing" \notin H
        PROVE  /\ Count(H) \in Nat /\ Count(H)' \in Nat
               /\ Count(H)' = Count(H) - One(Top, H) + One(Nothing, H) + One(Nothing, H)
    BY <1>4, <1>9, TopMoves
  <1> QED
    BY <1>3, <1>9 DEF Onto

\* Nothing happens to the handlers.
LEMMA OntoSame ==
  ASSUME Whole, stack' = stack, sched' = sched
  PROVE  /\ Top' = Top /\ Below' = Below /\ OnlyWaits(Below')
         /\ \A H : "nothing" \notin H => Count(H) \in Nat /\ Count(H)' = Count(H)
  <1>1. Types /\ case' = case /\ OnlyWaits(Below)
    BY WholeIs
  <1>2. Top' = Top /\ Below' = Below
    BY DEF Top, Below
  <1>3. Moves(Nothing, Nothing, Nothing)
    BY <1>1, StayMoves
  <1>4. ASSUME NEW H, "nothing" \notin H
        PROVE  Count(H) \in Nat /\ Count(H)' = Count(H)
    <2>1. One(Nothing, H) = 0
      BY <1>4 DEF One, Nothing
    <2>2. Count(H) \in Nat /\ Count(H)' = Count(H) - One(Nothing, H) + One(Nothing, H) + One(Nothing, H)
      BY <1>1, <1>3, <1>4, CountMoves
    <2> QED
      BY <2>1, <2>2
  <1>5. OnlyWaits(Below')
    BY <1>1, <1>2
  <1> QED
    BY <1>2, <1>4, <1>5

\* The running handler is a part of the count.
LEMMA CountTop ==
  ASSUME Whole, NEW H, Top[1] \in H, Top # Nothing
  PROVE  Count(H) \in Nat /\ Count(H) >= 1
  <1>1. Types /\ Top \in Frames \union {Nothing}
    BY WholeIs
  <1>2. stack # <<>> /\ stack[1] \in Named(H)
    BY <1>1 DEF Top, Named
  <1> QED
    BY <1>1, <1>2, WayTop, WayNat DEF Count

------------------------------------------------------------------------------
(* diffused: the invariant.                                                  *)

Injective(s) == \A i, j \in DOMAIN s : s[i] = s[j] => i = j

\* The tasks in the two lists, those whose calls have not been answered, and those
\* whose calls failed.
FreeSet == {free[i] : i \in DOMAIN free}
ReadySet == {ready[i] : i \in DOMAIN ready}
Answer == <<Top[2][1], Top[2][2][2]>>
Calling == IF Top[1] = "entry" THEN open \union {Answer} ELSE open
Out == {c[1] : c \in Calling}
Failed == {t \in Slots : entries[t].value[1] = "failed"}
InUse == ReadySet \union Out \union Failed

\* The pair of a task, and the pairs that the consumer has read.
PairAt(t) == entries[t].key
Taken == {given[i].key : i \in DOMAIN given}

\* A task is in one place, and stands for a pair of its own.  Only the first of
\* those with results may have been read.
TasksFit ==
  /\ Injective(free) /\ Injective(ready)
  /\ FreeSet \intersect InUse = {}
  /\ ReadySet \intersect (Out \union Failed) = {} /\ Out \intersect Failed = {}
  /\ IsFiniteSet(open)
  /\ \A c \in Calling : c[2] = PairAt(c[1])
  /\ \A t \in ReadySet : entries[t].value = <<"result", PairAt(t)>>
  /\ \A t \in InUse : PairAt(t) \in 1 .. case.length
  /\ \A t, u \in InUse : PairAt(t) = PairAt(u) => t = u
  /\ \A t \in ReadySet : PairAt(t) \in Taken => t = ready[1]
  /\ \A t \in Out \union Failed : PairAt(t) \notin Taken
  /\ Failed # {} => last = "error"

TakenFits ==
  given \in Seq([key : Nat, value : Outcomes \X Nat])
    /\ \A i \in DOMAIN given : given[i].key = given[i].value[2]

\* The pairs that the iterator has given so far.
Reached == IF Top[1] \in {"iterate", "key", "value"} THEN position - 1 ELSE position
Known == {PairAt(t) : t \in InUse} \union Taken

ReachFits ==
  /\ last = "none" => Known = 1 .. Reached /\ Reached \in 0 .. case.length
  /\ last = "nil" => Known = 1 .. case.length

\* Waiting counts the calls and the results, until there is an error.
WaitingFits ==
  waiting = IF last = "error" THEN 0 ELSE Cardinality(Calling) + Len(ready)

\* The handler that runs: what it fetches, whose answer it has, what it tells.
FetchedFits ==
  /\ Top[1] \in Fetch => last = "none"
  /\ Top[1] = "begin" => position = 0
  /\ Top[1] = "iterate" /\ Top[2] = "iter" => position \in 1 .. case.length
  /\ Top[1] = "iterate" /\ Top[2] = "nil" => position = case.length + 1
  /\ Top[1] = "iterate" => position \in 1 .. case.length + 1
  /\ Top[1] \in {"key", "value"} => position \in 1 .. case.length /\ Top[2] \in {0, position}
  /\ Top[1] = "value" => PairAt(free[1]) = position

AnswerFits ==
  Top[1] = "entry" => /\ Answer \in Slots \X Nat /\ Answer \notin open
                      /\ Top[2][2] \in {"result", "failed"} \X Nat

Fresh == \A t \in ReadySet : PairAt(t) \notin Taken

\* The consumer waits, has asked, or has a pair, the first of those in the list.
Serving == {"next", "consumer", "fetched"}
ReaderFits ==
  /\ caller \in BOOLEAN /\ idle \in BOOLEAN
  /\ Count(Serving) + Tok(caller) + Tok(idle) + Tok(final # "none") <= 1
  /\ Count({"fetched"}) # 0 => Fresh
  /\ idle \/ Top[1] = "next" => ready # <<>> /\ PairAt(ready[1]) \in Taken
  /\ Top[1] = "consumer" =>
       \/ Top[2] = "state" /\ ready # <<>> /\ Fresh
       \/ Top[2] = "nil" /\ Taken = 1 .. case.length
       \/ Top[2] = "error"

DiffusedFits ==
  /\ OnlyWaits(Below) /\ TasksFit /\ TakenFits /\ ReachFits /\ WaitingFits
  /\ FetchedFits /\ AnswerFits /\ ReaderFits

------------------------------------------------------------------------------
(* diffused: what Pipe sees.                                                 *)

\* What answers are on their way: that of the running handler.
LEMMA ReturningTop ==
  ASSUME Still
  PROVE  /\ Returning(sched) = {}
         /\ Returning(stack) = IF Top[1] = "entry" /\ Top[2][2][2] # 0 THEN {Top[2][2][2]} ELSE {}
  <1>1. sched = <<>> /\ stack \in Seq(Frames) /\ OnlyWaits(Below)
    BY StillIs DEF Types
  <1>2. Returning(sched) = {}
    BY <1>1 DEF Returning
  <1>3. CASE stack = <<>>
    <2>1. Returning(stack) = {} /\ Top[1] = "nothing"
      BY <1>3 DEF Returning, Top, Nothing
    <2> QED
      BY <1>2, <2>1
  <1>4. CASE stack # <<>>
    <2>1. DOMAIN stack = 1 .. Len(stack) /\ Len(stack) \in Nat \ {0} /\ Top = stack[1]
          /\ Below = Tail(stack)
      BY <1>1, <1>4 DEF Top, Below
    <2>2. ASSUME NEW i \in DOMAIN stack, i # 1
          PROVE  stack[i][1] # "entry"
      <3>1. i - 1 \in DOMAIN Tail(stack) /\ Tail(stack)[i - 1] = stack[i]
        BY <1>1, <2>1, <2>2
      <3>2. stack[i] \in Waits
        BY <1>1, <2>1, <3>1 DEF OnlyWaits
      <3> QED
        BY <3>2 DEF Waits
    <2>3. \A p : p \in Returning(stack) <=> Top[1] = "entry" /\ Top[2][2][2] # 0 /\ p = Top[2][2][2]
      BY <2>1, <2>2 DEF Returning
    <2> QED
      BY <1>2, <2>3
  <1> QED
    BY <1>3, <1>4

\* diffused in a state of the invariant.
Diffuses == PipeInv /\ ~ Buffers /\ DiffusedWhole /\ DiffusedFits

\* What Pipe sees.
Called == {c[2] : c \in Calling}
DiffusedSees ==
  /\ Running = Called
  /\ DiffusedHeld = ({PairAt(t) : t \in ReadySet} \ Taken) \union {PairAt(t) : t \in Failed}
  /\ GivenPairs = [i \in 1 .. Len(given) |-> given[i].key]
  /\ {GivenPairs[i] : i \in DOMAIN GivenPairs} = Taken
  /\ Called \union DiffusedHeld \union Taken = Known

LEMMA CallingIs ==
  ASSUME Types, AnswerFits
  PROVE  Calling \in SUBSET (Slots \X Nat) /\ Out \in SUBSET Slots
  <1>1. Calling \in SUBSET (Slots \X Nat)
    BY DEF Types, AnswerFits, Calling
  <1> QED
    BY <1>1 DEF Out

LEMMA CallingTasks ==
  ASSUME Types, TasksFit, AnswerFits
  PROVE  /\ \A t : t \in Out <=> <<t, PairAt(t)>> \in Calling
         /\ Called = {PairAt(t) : t \in Out}
  <1>1. \A c \in Calling : c = <<c[1], PairAt(c[1])>> /\ c[2] = PairAt(c[1])
    BY CallingIs DEF TasksFit
  <1> QED
    BY <1>1 DEF Out, Called

LEMMA DiffusedSeesNow == Diffuses => DiffusedSees
  <1> SUFFICES ASSUME Diffuses
               PROVE  DiffusedSees
    OBVIOUS
  <1>1. Still /\ Types /\ TasksFit /\ TakenFits /\ AnswerFits
    BY DEF Diffuses, Still, DiffusedFits, PipeInv
  <1>2. Running = Called
    <2>1. Top[1] = "entry" => Top[2][2][2] # 0
      <3>1. ASSUME Top[1] = "entry"
            PROVE  Answer[2] \in 1 .. case.length
        <4>1. Answer \in Calling /\ Answer[1] \in Out
          BY <3>1 DEF Calling, Out
        <4> QED
          BY <1>1, <4>1 DEF TasksFit, InUse
      <3>2. case.length \in Nat
        BY <1>1, StillIs
      <3> QED
        BY <3>1, <3>2 DEF Answer
    <2>2. Returning(sched) = {} /\ Returning(stack) = IF Top[1] = "entry" THEN {Top[2][2][2]} ELSE {}
      BY <1>1, <2>1, ReturningTop
    <2>3. Answer[2] = Top[2][2][2]
      BY DEF Answer
    <2>4. CASE Top[1] = "entry"
      BY <2>2, <2>3, <2>4 DEF Running, Called, Calling
    <2>5. CASE Top[1] # "entry"
      BY <2>2, <2>5 DEF Running, Called, Calling
    <2> QED
      BY <2>4, <2>5
  <1>3. DiffusedHeld = ({PairAt(t) : t \in ReadySet} \ Taken) \union {PairAt(t) : t \in Failed}
    BY DEF DiffusedHeld, PairAt, ReadySet, Taken, Failed
  <1>4. GivenPairs = [i \in 1 .. Len(given) |-> given[i].key]
    BY <1>1, StillIs DEF GivenPairs, TakenFits, PairOf
  <1>5. {GivenPairs[i] : i \in DOMAIN GivenPairs} = Taken
    <2>1. DOMAIN GivenPairs = DOMAIN given
      BY <1>1, <1>4 DEF TakenFits
    <2> QED
      BY <1>4, <2>1 DEF Taken
  <1>6. Called \union DiffusedHeld \union Taken = Known
    <2>1. Called = {PairAt(t) : t \in Out}
      BY <1>1, CallingTasks
    <2> QED
      BY <1>3, <2>1 DEF Known, InUse
  <1> QED
    BY <1>2, <1>3, <1>4, <1>5, <1>6 DEF DiffusedSees

LEMMA DiffusedSeesNext == Diffuses' => DiffusedSees'
  BY DiffusedSeesNow, PTL

------------------------------------------------------------------------------
(* diffused: what Pipe sees of a step.                                       *)

\* The step leads from one state of the invariant to another.
Across == Diffuses /\ Diffuses' /\ case' = case

LEMMA AcrossSees ==
  ASSUME Across
  PROVE  /\ Running = Called /\ Running' = Called'
         /\ Held = DiffusedHeld /\ Held' = DiffusedHeld'
         /\ P!Given = Taken /\ P!Started = Known
         /\ GivenPairs = [i \in 1 .. Len(given) |-> given[i].key]
         /\ GivenPairs' = [i \in 1 .. Len(given') |-> given'[i].key]
         /\ UNCHANGED <<case.size, case.length, Buffers>> /\ Buffers = FALSE
         /\ case.size \in Nat \ {0} /\ case.length \in Nat
  <1>1. DiffusedSees /\ DiffusedSees'
    BY DiffusedSeesNow, DiffusedSeesNext DEF Across
  <1>2. Buffers = FALSE /\ Buffers' = FALSE /\ UNCHANGED <<case.size, case.length>>
    <2>1. ~ Buffers /\ (Buffers' <=> Buffers)
      BY FramesStay DEF Across, Diffuses
    <2> QED
      BY <2>1 DEF Buffers, Across
  <1>3. Held = DiffusedHeld /\ Held' = DiffusedHeld'
    BY <1>2 DEF Held
  <1>4. P!Given = Taken
    BY <1>1 DEF DiffusedSees, P!Given
  <1>5. P!Started = Known
    BY <1>1, <1>3, <1>4 DEF DiffusedSees, P!Started, Held
  <1>6. case.size \in Nat \ {0} /\ case.length \in Nat
    BY StillIs DEF Across, Diffuses, Still, DiffusedFits
  <1> QED
    BY <1>1, <1>2, <1>3, <1>4, <1>5, <1>6 DEF DiffusedSees

\* Nothing that Pipe sees has changed, but perhaps the end.
LEMMA DiffusedQuiet ==
  ASSUME Across, Called' = Called, DiffusedHeld' = DiffusedHeld, given' = given,
         \/ final' = final
         \/ /\ final = "none" /\ final' \in {"nil", "error"}
            /\ final' = "nil" => Taken = 1 .. case.length
  PROVE  Piped
  <1>1. Running' = Running /\ GivenPairs' = GivenPairs /\ Held' = Held
    BY AcrossSees
  <1>2. P!Given = Taken /\ UNCHANGED <<case.size, case.length, Buffers>>
    BY AcrossSees
  <1>3. CASE final' = final
    BY <1>1, <1>2, <1>3 DEF Piped, P!vars, Held
  <1>4. CASE /\ final = "none" /\ final' \in {"nil", "error"}
             /\ final' = "nil" => Taken = 1 .. case.length
    <2>1. P!End(final')
      BY <1>1, <1>2, <1>4 DEF P!End, Held
    <2> QED
      BY <1>2, <1>4, <2>1 DEF Piped, P!Next
  <1> QED
    BY <1>3, <1>4

\* The tasks that are in use have no more pairs than they are.
LEMMA PairsBounded ==
  ASSUME NEW S, S \in SUBSET (Slots \ {free[1]}), free[1] \in Slots,
         case.size \in Nat \ {0}
  PROVE  P!Cardinality({PairAt(t) : t \in S}) \in 0 .. case.size - 1
  <1> DEFINE T == {PairAt(t) : t \in S}
             f == [t \in S |-> PairAt(t)]
  <1>1. IsFiniteSet(Slots) /\ Cardinality(Slots) = case.size
    <2>1. 0 \in Int /\ case.size - 1 \in Int
      OBVIOUS
    <2>2. IsFiniteSet(Slots) /\ Cardinality(Slots) = IF 0 > case.size - 1 THEN 0 ELSE case.size - 1 - 0 + 1
      BY <2>1, FS_Interval DEF Slots
    <2> QED
      BY <2>2
  <1>2. /\ IsFiniteSet(Slots \ {free[1]}) /\ Cardinality(Slots \ {free[1]}) = case.size - 1
    BY <1>1, FS_RemoveElement
  <1>3. IsFiniteSet(S) /\ Cardinality(S) <= case.size - 1 /\ Cardinality(S) \in Nat
    <2>1. IsFiniteSet(S) /\ Cardinality(S) <= Cardinality(Slots \ {free[1]})
      BY <1>2, FS_Subset
    <2> QED
      BY <1>2, <2>1, FS_CardinalityType
  <1>4. f \in Surjection(S, T)
    BY DEF Surjection
  <1>5. IsFiniteSet(T) /\ Cardinality(T) <= Cardinality(S)
    BY <1>3, <1>4, FS_Surjection
  <1>6. Cardinality(T) \in Nat
    BY <1>5, FS_CardinalityType
  <1> HIDE DEF T
  <1>7. P!Cardinality(T) \in 0 .. case.size - 1
    BY <1>3, <1>5, <1>6, SameCardinality
  <1> QED
    BY <1>7 DEF T

LEMMA DiffusedStarts ==
  ASSUME Across, final' = final, given' = given, NEW p \in 1 .. case.length,
         Known = 1 .. p - 1, Called' = Called \union {p}, DiffusedHeld' = DiffusedHeld,
         free # <<>>
  PROVE  Piped
  <1>1. /\ Running = Called /\ Running' = Running \union {p} /\ Held' = Held
        /\ GivenPairs' = GivenPairs /\ P!Started = 1 .. p - 1
        /\ UNCHANGED <<case.size, case.length, Buffers>>
        /\ case.size \in Nat \ {0} /\ case.length \in Nat /\ Held = DiffusedHeld
    BY AcrossSees
  <1>2. /\ Types /\ TasksFit /\ AnswerFits /\ Out \in SUBSET Slots
    BY CallingIs DEF Across, Diffuses, PipeInv, DiffusedFits
  <1>3. free[1] \in Slots /\ free[1] \in FreeSet /\ ReadySet \in SUBSET Slots
    BY <1>2 DEF Types, FreeSet, ReadySet
  <1> DEFINE S == Out
             T == Out \union {t \in ReadySet : PairAt(t) \notin Taken} \union Failed
  <1>4. /\ S \in SUBSET (Slots \ {free[1]}) /\ T \in SUBSET (Slots \ {free[1]})
    BY <1>2, <1>3 DEF TasksFit, InUse, Failed
  <1>5. Called = {PairAt(t) : t \in S}
    BY <1>2, CallingTasks
  <1>6. Called \union DiffusedHeld = {PairAt(t) : t \in T}
    <2>1. DiffusedHeld = ({PairAt(t) : t \in ReadySet} \ Taken) \union {PairAt(t) : t \in Failed}
      BY DiffusedSeesNow DEF Across, DiffusedSees
    <2> QED
      BY <1>5, <2>1
  <1> HIDE DEF S, T
  <1>7. /\ P!Cardinality(Called) \in 0 .. case.size - 1
        /\ P!Cardinality(Called \union DiffusedHeld) \in 0 .. case.size - 1
    BY <1>1, <1>3, <1>4, <1>5, <1>6, PairsBounded
  <1>8. P!Cardinality(Running) < case.size /\ P!Cardinality(Running \union Held) <= case.size
    BY <1>1, <1>7
  <1>9. P!Start(p)
    BY <1>1, <1>8 DEF P!Start, Held
  <1> QED
    BY <1>1, <1>9 DEF Piped, P!Next

LEMMA DiffusedReturns ==
  ASSUME Across, final' = final, given' = given, NEW p \in 1 .. case.length,
         p \in Called, Called' = Called \ {p}, DiffusedHeld' = DiffusedHeld \union {p}
  PROVE  Piped
  <1>1. /\ Running = Called /\ Running' = Called' /\ Held' = Held \union {p}
        /\ GivenPairs' = GivenPairs /\ UNCHANGED <<case.size, case.length, Buffers>>
    BY AcrossSees
  <1>2. P!Return(p)
    BY <1>1 DEF P!Return, Held
  <1> QED
    BY <1>1, <1>2 DEF Piped, P!Next

LEMMA DiffusedGives ==
  ASSUME Across, final' = final, final = "none", NEW e,
         given' = Append(given, e), e.key \in 1 .. case.length,
         e.key \in DiffusedHeld, Called' = Called, DiffusedHeld' = DiffusedHeld \ {e.key}
  PROVE  Piped
  <1>1. /\ Running' = Running /\ Held = DiffusedHeld /\ Held' = Held \ {e.key}
        /\ GivenPairs = [i \in 1 .. Len(given) |-> given[i].key]
        /\ GivenPairs' = [i \in 1 .. Len(given') |-> given'[i].key]
        /\ UNCHANGED <<case.size, case.length, Buffers>> /\ Buffers = FALSE
    BY AcrossSees
  <1>2. given \in Seq(Entry) /\ given' \in Seq(Entry)
    BY DEF Across, Diffuses, DiffusedFits, TakenFits, Entry
  <1>3. GivenPairs' = Append(GivenPairs, e.key)
    <2>1. /\ Len(given') = Len(given) + 1 /\ Len(given) \in Nat
          /\ \A i \in 1 .. Len(given) : given'[i] = given[i]
          /\ given'[Len(given) + 1] = e
      BY <1>2
    <2>2. /\ GivenPairs \in Seq(Nat) /\ Len(GivenPairs) = Len(given)
          /\ GivenPairs' \in Seq(Nat) /\ Len(GivenPairs') = Len(given) + 1
      <3>1. ASSUME NEW s \in Seq(Entry)
            PROVE  /\ [i \in 1 .. Len(s) |-> s[i].key] \in Seq(Nat)
                   /\ Len([i \in 1 .. Len(s) |-> s[i].key]) = Len(s)
        <4>1. Len(s) \in Nat /\ \A i \in 1 .. Len(s) : s[i].key \in Nat
          <5>1. Len(s) \in Nat /\ \A i \in 1 .. Len(s) : s[i] \in Entry
            OBVIOUS
          <5> QED
            BY <5>1 DEF Entry
        <4> DEFINE t == [i \in 1 .. Len(s) |-> s[i].key]
        <4>2. t \in [1 .. Len(s) -> Nat]
          BY <4>1
        <4> HIDE DEF t
        <4>3. t \in Seq(Nat) /\ Len(t) = Len(s)
          BY <4>1, <4>2
        <4> QED
          BY <4>3 DEF t
      <3>2. GivenPairs \in Seq(Nat) /\ Len(GivenPairs) = Len(given)
        BY <1>1, <1>2, <3>1
      <3>3. GivenPairs' \in Seq(Nat) /\ Len(GivenPairs') = Len(given')
        BY <1>1, <1>2, <3>1
      <3> QED
        BY <2>1, <3>2, <3>3
    <2>3. e.key \in Nat
      <3>1. given'[Len(given) + 1] \in Entry
        BY <1>2, <2>1
      <3> QED
        BY <2>1, <3>1 DEF Entry
    <2>4. /\ Append(GivenPairs, e.key) \in Seq(Nat)
          /\ Len(Append(GivenPairs, e.key)) = Len(given) + 1
          /\ \A i \in 1 .. Len(given) : Append(GivenPairs, e.key)[i] = GivenPairs[i]
          /\ Append(GivenPairs, e.key)[Len(given) + 1] = e.key
      BY <2>2, <2>3
    <2>5. \A i \in 1 .. Len(given) + 1 : GivenPairs'[i] = Append(GivenPairs, e.key)[i]
      BY <1>1, <2>1, <2>4
    <2> QED
      BY <2>2, <2>4, <2>5, SeqEqual
  <1>4. P!Give(e.key)
    BY <1>1, <1>3 DEF P!Give, Held
  <1> QED
    BY <1>1, <1>4 DEF Piped, P!Next

------------------------------------------------------------------------------
(* diffused: what a step keeps.                                              *)

\* The step starts in the invariant, and what is proved above is kept.
Diff == Diffuses /\ PipeInv' /\ case' = case

\* The step keeps the invariant and is one of Pipe's, or none.
DiffusedGoes == DiffusedFits' /\ Piped

LEMMA DiffIs ==
  ASSUME Diff
  PROVE  /\ Whole /\ Types /\ Types' /\ Slots' = Slots /\ case' = case
         /\ case.size \in Nat \ {0} /\ case.length \in Nat
         /\ TasksFit /\ TakenFits /\ ReachFits /\ WaitingFits
         /\ FetchedFits /\ AnswerFits /\ ReaderFits
         /\ Calling \in SUBSET (Slots \X Nat) /\ Out \in SUBSET Slots
         /\ FreeSet \in SUBSET Slots /\ ReadySet \in SUBSET Slots /\ InUse \in SUBSET Slots
         /\ Top \in Frames \union {Nothing}
  <1>1. /\ Whole /\ case' = case /\ TasksFit /\ TakenFits /\ ReachFits /\ WaitingFits
        /\ FetchedFits /\ AnswerFits /\ ReaderFits
    BY DEF Diff, Diffuses, DiffusedFits, Whole, Still
  <1>2. /\ Types /\ Types' /\ case.size \in Nat \ {0} /\ case.length \in Nat
        /\ Top \in Frames \union {Nothing} /\ Slots' = Slots
    BY <1>1, WholeIs, FramesStay
  <1>3. Calling \in SUBSET (Slots \X Nat) /\ Out \in SUBSET Slots
    BY <1>1, <1>2, CallingIs
  <1>4. FreeSet \in SUBSET Slots /\ ReadySet \in SUBSET Slots
    <2>1. /\ \A i \in DOMAIN free : free[i] \in Slots
          /\ \A i \in DOMAIN ready : ready[i] \in Slots
      <3>1. free \in Seq(Slots) /\ ready \in Seq(Slots)
        BY <1>2 DEF Types
      <3> QED
        BY ONLY <3>1
    <2> QED
      BY <2>1 DEF FreeSet, ReadySet
  <1>5. InUse \in SUBSET Slots
    <2>1. Failed \subseteq Slots
      BY DEF Failed
    <2> QED
      BY <1>3, <1>4, <2>1 DEF InUse
  <1> QED
    BY <1>1, <1>2, <1>3, <1>4, <1>5

LEMMA AcrossIs ==
  ASSUME Diff, DiffusedFits'
  PROVE  Across
  <1>1. Buffers' <=> Buffers
    BY FramesStay DEF Diff
  <1> QED
    BY <1>1 DEF Diff, Across, Diffuses, DiffusedWhole

\* The names of the handlers after a step.
LEMMA OntoIs ==
  ASSUME Whole, NEW f \in Frames \union {Nothing}, NEW g \in Frames \union {Nothing}, Onto(f, g)
  PROVE  /\ OnlyWaits(Below')
         /\ \/ Top' = f
            \/ f = Nothing /\ Top'[1] \in {"rest", "fetched"}
         /\ Count(Serving) \in Nat /\ Count(Serving)' \in Nat
         /\ Count(Serving)'
              = Count(Serving) - One(Top, Serving) + One(f, Serving) + One(g, Serving)
         /\ Count({"fetched"}) \in Nat /\ Count({"fetched"})' \in Nat
         /\ Count({"fetched"})' = Count({"fetched"}) - One(Top, {"fetched"})
                                    + One(f, {"fetched"}) + One(g, {"fetched"})
  <1>1. "nothing" \notin Serving /\ "nothing" \notin {"fetched"}
    BY DEF Serving
  <1>2. \A t \in Waits : t[1] \in {"rest", "fetched"}
    BY DEF Waits
  <1> QED
    BY <1>1, <1>2 DEF Onto

\* A task may get a new pair if it is not in use.
LEMMA TasksSame ==
  ASSUME Diff, Calling' = Calling, IsFiniteSet(open'),
         free' = free, ready' = ready, given' = given,
         last' = last \/ last' = "error" \/ last = "none",
         \A t \in InUse : entries'[t] = entries[t], Failed' = Failed
  PROVE  /\ TasksFit' /\ TakenFits'
         /\ Called' = Called /\ DiffusedHeld' = DiffusedHeld /\ Known' = Known /\ Taken' = Taken
         /\ ReadySet' = ReadySet /\ \A t \in InUse : PairAt(t)' = PairAt(t)
  <1>1. /\ TasksFit /\ TakenFits /\ case' = case
    BY DiffIs
  <1>2. /\ FreeSet' = FreeSet /\ ReadySet' = ReadySet /\ Out' = Out /\ InUse' = InUse
        /\ Taken' = Taken /\ Called' = Called
    BY DEF FreeSet, ReadySet, Out, InUse, Taken, Called
  <1>3. \A t \in InUse : PairAt(t)' = PairAt(t)
    BY DEF PairAt
  <1>4. {PairAt(t) : t \in InUse}' = {PairAt(t) : t \in InUse}
    BY <1>2, <1>3
  <1>5. Known' = Known
    BY <1>2, <1>4 DEF Known
  <1>6. DiffusedHeld' = DiffusedHeld
    <2>1. DiffusedHeld = ({PairAt(t) : t \in ReadySet} \ Taken) \union {PairAt(t) : t \in Failed}
      BY DEF DiffusedHeld, PairAt, ReadySet, Taken, Failed
    <2>2. DiffusedHeld' = ({PairAt(t)' : t \in ReadySet'} \ Taken') \union {PairAt(t)' : t \in Failed'}
      BY DEF DiffusedHeld, PairAt, ReadySet, Taken, Failed
    <2>3. {PairAt(t)' : t \in ReadySet'} = {PairAt(t) : t \in ReadySet}
      BY <1>2, <1>3 DEF InUse
    <2>4. {PairAt(t)' : t \in Failed'} = {PairAt(t) : t \in Failed}
      BY <1>3 DEF InUse
    <2> QED
      BY <1>2, <2>1, <2>2, <2>3, <2>4
  <1>7. TakenFits'
    BY <1>1 DEF TakenFits
  <1>8. TasksFit'
    <2>1. \A c \in Calling' : c[2] = PairAt(c[1])'
      <3>1. \A c \in Calling : c[1] \in InUse /\ c[2] = PairAt(c[1])
        BY <1>1 DEF TasksFit, InUse, Out
      <3> QED
        BY <1>3, <3>1
    <2>2. \A t \in ReadySet' : entries'[t].value = <<"result", PairAt(t)'>>
      BY <1>1, <1>2, <1>3 DEF TasksFit, InUse
    <2>3. /\ \A t \in InUse' : PairAt(t)' \in 1 .. case'.length
          /\ \A t, u \in InUse' : PairAt(t)' = PairAt(u)' => t = u
          /\ \A t \in ReadySet' : PairAt(t)' \in Taken' => t = ready'[1]
          /\ \A t \in Out' \union Failed' : PairAt(t)' \notin Taken'
      BY <1>1, <1>2, <1>3 DEF TasksFit, InUse
    <2>4. Failed' # {} => last' = "error"
      BY <1>1 DEF TasksFit
    <2>5. /\ Injective(free)' /\ Injective(ready)'
          /\ FreeSet' \intersect InUse' = {}
          /\ ReadySet' \intersect (Out' \union Failed') = {} /\ Out' \intersect Failed' = {}
      BY <1>1, <1>2 DEF TasksFit, Injective
    <2> QED
      BY <2>1, <2>2, <2>3, <2>4, <2>5 DEF TasksFit
  <1> QED
    BY <1>2, <1>3, <1>5, <1>6, <1>7, <1>8

LEMMA FreshSame ==
  ASSUME ReadySet' = ReadySet, Taken' = Taken, \A t \in ReadySet : PairAt(t)' = PairAt(t)
  PROVE  Fresh' <=> Fresh
  BY DEF Fresh

LEMMA FirstReady ==
  ASSUME Types, ready # <<>>
  PROVE  ready[1] \in ReadySet
  BY DEF Types, ReadySet

\* The step tells the consumer nothing.
LEMMA ReaderSame ==
  ASSUME Diff, NEW f \in Frames \union {Nothing}, NEW g \in Frames \union {Nothing}, Onto(f, g),
         Top[1] \notin Serving, f[1] \notin Serving, g[1] \notin Serving,
         caller' = caller, idle' = idle, final' = final, ready' = ready, Taken' = Taken,
         \A t \in ReadySet : PairAt(t)' = PairAt(t)
  PROVE  ReaderFits'
  <1>1. Whole /\ ReaderFits /\ Types /\ case' = case
    BY DiffIs
  <1>2. /\ One(Top, Serving) = 0 /\ One(f, Serving) = 0 /\ One(g, Serving) = 0
        /\ One(Top, {"fetched"}) = 0 /\ One(f, {"fetched"}) = 0 /\ One(g, {"fetched"}) = 0
    BY DEF One, Serving
  <1>3. Count(Serving)' = Count(Serving) /\ Count({"fetched"})' = Count({"fetched"})
    BY <1>1, <1>2, OntoIs
  <1>4. Top'[1] \notin {"next", "consumer"}
    BY <1>1, OntoIs DEF Serving
  <1>5. ReadySet' = ReadySet /\ (Fresh' <=> Fresh)
    <2>1. ReadySet' = ReadySet
      BY DEF ReadySet
    <2> QED
      BY <2>1, FreshSame
  <1>6. ready # <<>> => PairAt(ready[1])' = PairAt(ready[1])
    <2>1. ASSUME ready # <<>>
          PROVE  PairAt(ready[1])' = PairAt(ready[1])
      <3>1. PICK t \in ReadySet : t = ready[1]
        BY <1>1, <2>1, FirstReady
      <3>2. PairAt(t)' = PairAt(t)
        OBVIOUS
      <3>3. t = ready'[1]
        BY <3>1
      <3> QED
        BY <3>1, <3>2, <3>3 DEF PairAt
    <2> QED
      BY <2>1
  <1> QED
    BY <1>1, <1>3, <1>4, <1>5, <1>6 DEF ReaderFits

LEMMA ReaderMoves ==
  ASSUME Diff, NEW f \in Frames \union {Nothing}, NEW g \in Frames \union {Nothing}, Onto(f, g),
         caller' \in BOOLEAN, idle' \in BOOLEAN,
         One(f, Serving) + One(g, Serving) + Tok(caller') + Tok(idle') + Tok(final' # "none")
           <= One(Top, Serving) + Tok(caller) + Tok(idle) + Tok(final # "none"),
         Count({"fetched"})' # 0 => Fresh',
         idle' \/ f[1] = "next" => ready' # <<>> /\ PairAt(ready[1])' \in Taken',
         f[1] = "consumer" =>
           \/ f[2] = "state" /\ ready' # <<>> /\ Fresh'
           \/ f[2] = "nil" /\ Taken' = 1 .. case.length
           \/ f[2] = "error"
  PROVE  ReaderFits'
  <1>1. Whole /\ ReaderFits /\ case' = case
    BY DiffIs
  <1>2. /\ Count(Serving) \in Nat /\ Count(Serving)' \in Nat
        /\ Count(Serving)' = Count(Serving) - One(Top, Serving) + One(f, Serving) + One(g, Serving)
        /\ Top' = f \/ (f = Nothing /\ Top'[1] \in {"rest", "fetched"})
    BY <1>1, OntoIs
  <1>3. Count(Serving)' + Tok(caller') + Tok(idle') + Tok(final' # "none") <= 1
    <2>1. Count(Serving) + Tok(caller) + Tok(idle) + Tok(final # "none") <= 1
      BY <1>1 DEF ReaderFits
    <2>2. \A b \in BOOLEAN : Tok(b) \in {0, 1}
      BY DEF Tok
    <2>3. /\ Tok(caller) \in {0, 1} /\ Tok(idle) \in {0, 1} /\ Tok(final # "none") \in {0, 1}
          /\ Tok(caller') \in {0, 1} /\ Tok(idle') \in {0, 1} /\ Tok(final' # "none") \in {0, 1}
      BY DEF Tok
    <2>4. One(Top, Serving) \in {0, 1} /\ One(f, Serving) \in {0, 1} /\ One(g, Serving) \in {0, 1}
      BY DEF One
    <2> QED
      BY ONLY <1>2, <2>1, <2>3, <2>4,
         One(f, Serving) + One(g, Serving) + Tok(caller') + Tok(idle') + Tok(final' # "none")
           <= One(Top, Serving) + Tok(caller) + Tok(idle) + Tok(final # "none")
  <1>4. Top'[1] = "next" => f[1] = "next"
    BY <1>2
  <1>5. Top'[1] = "consumer" => f[1] = "consumer" /\ Top'[2] = f[2]
    BY <1>2
  <1> QED
    BY <1>1, <1>3, <1>4, <1>5 DEF ReaderFits

\* The running handler counts: when it serves the consumer, nobody waits below.
LEMMA ServingTop ==
  ASSUME Whole, ReaderFits, Top[1] \in {"next", "consumer"}
  PROVE  /\ Count({"fetched"}) = 0 /\ Count(Serving) = 1
         /\ caller = FALSE /\ idle = FALSE /\ final = "none"
  <1>1. Types /\ Top \in Frames \union {Nothing}
    BY WholeIs
  <1>2. Top # Nothing /\ Top \in Frames
    BY <1>1 DEF Nothing
  <1>3. Count(Serving) \in Nat /\ Count(Serving) >= 1
    BY <1>2, CountTop DEF Serving
  <1>4. Count(Serving) + Tok(caller) + Tok(idle) + Tok(final # "none") <= 1
    BY DEF ReaderFits
  <1>5. Count(Serving) = 1 /\ caller = FALSE /\ idle = FALSE /\ final = "none"
    <2>1. caller \in BOOLEAN /\ idle \in BOOLEAN
      BY DEF ReaderFits
    <2> QED
      BY <1>3, <1>4, <2>1 DEF Tok
  <1>6. Count({"fetched"}) = 0
    <2>1. Named({"fetched"}) \intersect {Top} = {} /\ Named({"fetched"}) \union {Top} \subseteq Named(Serving)
      BY <1>2 DEF Named, Serving
    <2>2. Way(Named({"fetched"}) \union {Top}) = Way(Named({"fetched"})) + Way({Top})
      BY <1>1, <2>1, WayUnion
    <2>3. Way(Named({"fetched"}) \union {Top}) <= Way(Named(Serving))
      BY <1>1, <2>1, WayLess
    <2>4. Way({Top}) >= 1
      <3>1. stack # <<>> /\ stack[1] \in {Top}
        BY <1>2 DEF Top
      <3> QED
        BY <1>1, <3>1, WayTop
    <2>5. Way(Named({"fetched"})) \in Nat /\ Way({Top}) \in Nat
      BY <1>1, WayNat
    <2>6. Way(Named(Serving)) = 1
      BY <1>5 DEF Count
    <2>7. Way(Named({"fetched"})) = 0
      BY ONLY <2>2, <2>3, <2>4, <2>5, <2>6
    <2> QED
      BY <2>7 DEF Count
  <1> QED
    BY <1>5, <1>6

LEMMA TellsOnto ==
  ASSUME Whole, stack # <<>>, ReaderFits, NEW x \in {"state", "nil", "error"}, Tells(x)
  PROVE  \/ caller /\ caller' = FALSE /\ Onto(<<"consumer", x>>, Nothing)
         \/ ~ caller /\ caller' = FALSE /\ Onto(Nothing, Nothing)
  <1>1. <<"consumer", x>> \in Frames
    BY DEF Frames, Outcomes
  <1>2. caller \in BOOLEAN
    BY DEF ReaderFits
  <1>3. CASE caller
    <2>1. caller' = FALSE /\ Continue(<<"consumer", x>>, Tail(stack))
      BY <1>3 DEF Tells
    <2> QED
      BY <1>1, <1>3, <2>1, OntoOne
  <1>4. CASE ~ caller
    BY <1>4, OntoNone DEF Tells
  <1> QED
    BY <1>3, <1>4

\* The handler tells the consumer x if it waits, and returns otherwise.
LEMMA ReaderTells ==
  ASSUME Diff, stack # <<>>, Top[1] \notin Serving,
         NEW x \in {"state", "nil", "error"}, Tells(x),
         idle' = idle, final' = final, Taken' = Taken, Fresh => Fresh',
         ready # <<>> => ready' # <<>> /\ PairAt(ready[1])' = PairAt(ready[1]),
         x = "state" => ready' # <<>> /\ Fresh',
         x = "nil" => Taken = 1 .. case.length
  PROVE  /\ OnlyWaits(Below') /\ ReaderFits'
         /\ Top'[1] \in {"consumer", "nothing", "rest", "fetched"}
  <1>1. Whole /\ ReaderFits /\ case' = case
    BY DiffIs
  <1>2. PICK f \in Frames \union {Nothing} :
          /\ Onto(f, Nothing)
          /\ \/ caller /\ caller' = FALSE /\ f = <<"consumer", x>>
             \/ ~ caller /\ caller' = FALSE /\ f = Nothing
    <2>1. <<"consumer", x>> \in Frames
      BY DEF Frames, Outcomes
    <2> QED
      BY <1>1, <2>1, TellsOnto
  <1>3. /\ Nothing[1] = "nothing" /\ Nothing \in Frames \union {Nothing}
        /\ f[1] \in {"consumer", "nothing"} /\ (f[1] = "consumer" => f[2] = x)
    BY <1>2 DEF Nothing
  <1>4. /\ One(Top, Serving) = 0 /\ One(Nothing, Serving) = 0
        /\ One(f, {"fetched"}) = 0 /\ One(Nothing, {"fetched"}) = 0 /\ One(Top, {"fetched"}) = 0
    BY <1>3 DEF One, Serving
  <1>5. /\ OnlyWaits(Below')
        /\ Top' = f \/ Top'[1] \in {"rest", "fetched"}
        /\ Count({"fetched"})' = Count({"fetched"})
    BY <1>1, <1>2, <1>3, <1>4, OntoIs
  <1>6. caller' \in BOOLEAN /\ idle' \in BOOLEAN
    BY <1>1, <1>2 DEF ReaderFits
  <1>7. One(f, Serving) + One(Nothing, Serving) + Tok(caller') + Tok(idle') + Tok(final' # "none")
          <= One(Top, Serving) + Tok(caller) + Tok(idle) + Tok(final # "none")
    <2>1. One(f, Serving) + Tok(caller') <= Tok(caller) /\ Tok(caller) \in Nat /\ Tok(caller') \in Nat
      BY <1>2, <1>3 DEF One, Serving, Tok
    <2>2. One(f, Serving) \in {0, 1} /\ Tok(idle) \in {0, 1} /\ Tok(final # "none") \in {0, 1}
      BY DEF One, Tok
    <2> QED
      BY <1>4, <2>1, <2>2
  <1>8. Count({"fetched"})' # 0 => Fresh'
    BY <1>1, <1>5 DEF ReaderFits
  <1>9. idle' \/ f[1] = "next" => ready' # <<>> /\ PairAt(ready[1])' \in Taken'
    BY <1>1, <1>3 DEF ReaderFits
  <1>10. f[1] = "consumer" => \/ f[2] = "state" /\ ready' # <<>> /\ Fresh'
                              \/ f[2] = "nil" /\ Taken' = 1 .. case.length
                              \/ f[2] = "error"
    BY <1>3
  <1>11. ReaderFits'
    <2>1. Onto(f, Nothing)
      BY <1>2
    <2> QED
      BY <1>3, <1>6, <1>7, <1>8, <1>9, <1>10, <2>1, ReaderMoves
  <1> QED
    BY <1>3, <1>5, <1>11

\* The handler is followed by another one, which is not the consumer's.
LEMMA ReaderLeaves ==
  ASSUME Diff, Top[1] \notin Serving, NEW f \in Frames \union {Nothing}, f[1] \notin Serving,
         NEW g \in {Nothing, <<"rest", 0>>}, Onto(f, g),
         caller' = caller, idle' = idle, final' = final, ready' = ready, Taken' = Taken,
         \A t \in ReadySet : PairAt(t)' = PairAt(t)
  PROVE  /\ OnlyWaits(Below') /\ ReaderFits'
         /\ Top' = f \/ (f = Nothing /\ Top'[1] \in {"rest", "fetched"})
  <1>1. g \in Frames \union {Nothing} /\ g[1] \notin Serving
    BY DEF Frames, Nothing, Serving
  <1>2. Whole
    BY DiffIs
  <1> QED
    BY <1>1, <1>2, OntoIs, ReaderSame

\* Neither a fetch nor an answer.
LEMMA OtherFits ==
  ASSUME Top'[1] \notin Fetch \union {"entry"}
  PROVE  FetchedFits' /\ AnswerFits'
  BY DEF FetchedFits, AnswerFits, Fetch

LEMMA CallingSame ==
  ASSUME Top[1] # "entry", Top'[1] # "entry", open' = open
  PROVE  Calling' = Calling
  BY DEF Calling

LEMMA EntriesSame ==
  ASSUME Diff, entries' = entries
  PROVE  Failed' = Failed /\ \A t : PairAt(t)' = PairAt(t)
  <1>1. Slots' = Slots
    BY DiffIs
  <1> QED
    BY <1>1 DEF Failed, PairAt

\* Pipe sees nothing, the consumer's end excepted.
LEMMA DiffusedQuietGoes ==
  ASSUME Diff, TasksFit', TakenFits', ReachFits', WaitingFits', FetchedFits', AnswerFits',
         ReaderFits', OnlyWaits(Below'),
         Called' = Called, DiffusedHeld' = DiffusedHeld, given' = given,
         \/ final' = final
         \/ /\ final = "none" /\ final' \in {"nil", "error"}
            /\ final' = "nil" => Taken = 1 .. case.length
  PROVE  DiffusedGoes
  <1>1. DiffusedFits'
    BY DEF DiffusedFits
  <1>2. Across
    BY <1>1, AcrossIs
  <1> QED
    BY <1>1, <1>2, DiffusedQuiet DEF DiffusedGoes

------------------------------------------------------------------------------
(* diffused: the handlers that fetch.                                        *)

LEMMA TopRuns ==
  ASSUME Diff, NEW h, Runs(h)
  PROVE  stack # <<>> /\ Top[1] = h /\ Top[2] = Arg /\ Top = stack[1] /\ Top \in Frames
  <1>1. stack # <<>> /\ Top = stack[1] /\ Top[1] = h /\ Top[2] = Arg
    BY DEF Runs, Arg, Top
  <1>2. stack \in Seq(Frames)
    BY DiffIs DEF Types
  <1> QED
    BY <1>1, <1>2

\* While a pair is fetched there is a free task for it.
LEMMA FetchIs ==
  ASSUME Diff, stack # <<>>, Top[1] \in Fetch
  PROVE  /\ last = "none" /\ free # <<>> /\ free[1] \in Slots /\ free[1] \in FreeSet
         /\ free[1] \notin InUse /\ Failed = {}
  <1>1. Top = stack[1] /\ FetchedFits /\ TasksFit
    BY DiffIs DEF Top
  <1>2. last = "none"
    BY <1>1 DEF FetchedFits
  <1>3. free # <<>> /\ free[1] \in Slots
    BY <1>1, FreeIs DEF Diff, Diffuses
  <1>4. free \in Seq(Slots)
    BY DiffIs DEF Types
  <1>5. free[1] \in FreeSet
    BY <1>3, <1>4 DEF FreeSet
  <1> QED
    BY <1>1, <1>2, <1>3, <1>5 DEF TasksFit

\* An error while a pair is fetched.
LEMMA FetchFails ==
  ASSUME Diff, stack # <<>>, Top[1] \in {"iterate", "key", "value"}, Fails,
         entries' = entries, open' = open, given' = given, idle' = idle, final' = final
  PROVE  DiffusedGoes
  <1>1. /\ last' = "error" /\ waiting' = 0 /\ Tells("error") /\ free' = free /\ ready' = ready
    BY DEF Fails
  <1>2. /\ Top[1] \notin Serving /\ Top[1] # "entry" /\ TasksFit /\ Types
    BY DiffIs DEF Serving
  <1>3. Failed' = Failed /\ \A t : PairAt(t)' = PairAt(t)
    BY EntriesSame
  <1>4. Taken' = Taken /\ ReadySet' = ReadySet
    BY <1>1 DEF Taken, ReadySet
  <1>5. Fresh => Fresh'
    BY <1>3, <1>4 DEF Fresh
  <1>6. PairAt(ready[1])' = PairAt(ready[1])
    BY <1>1 DEF PairAt
  <1>7. /\ OnlyWaits(Below') /\ ReaderFits'
        /\ Top'[1] \in {"consumer", "nothing", "rest", "fetched"}
    BY <1>1, <1>2, <1>4, <1>5, <1>6, ReaderTells
  <1>8. Calling' = Calling
    BY <1>2, <1>7, CallingSame
  <1>9. IsFiniteSet(open')
    BY <1>2 DEF TasksFit
  <1>10. TasksFit' /\ TakenFits' /\ Called' = Called /\ DiffusedHeld' = DiffusedHeld
    BY <1>1, <1>3, <1>8, <1>9, TasksSame
  <1>11. ReachFits' /\ WaitingFits'
    BY <1>1 DEF ReachFits, WaitingFits
  <1>12. FetchedFits' /\ AnswerFits'
    <2>1. Top'[1] \notin Fetch \union {"entry"}
      BY <1>7 DEF Fetch
    <2> QED
      BY <2>1, OtherFits
  <1> QED
    BY <1>7, <1>10, <1>11, <1>12, DiffusedQuietGoes

\* The handler that reads goes on to another one, with the same pair.
LEMMA FetchReads ==
  ASSUME Diff, stack # <<>>, Top[1] \in {"iterate", "key"}, NEW h \in {"key", "value"},
         Reads(h), position' = position, position \in 1 .. case.length,
         h = "value" => PairAt(free[1])' = position,
         \A t \in InUse : entries'[t] = entries[t], Failed' = Failed,
         open' = open, given' = given, caller' = caller, idle' = idle, final' = final,
         UNCHANGED lists
  PROVE  DiffusedGoes
  <1>1. free' = free /\ ready' = ready /\ waiting' = waiting /\ last' = last
    BY DEF lists
  <1>2. /\ Whole /\ TasksFit /\ ReachFits /\ WaitingFits /\ case' = case /\ last = "none"
        /\ case.length \in Nat /\ Top[1] \notin Serving /\ Top[1] # "entry"
    BY DiffIs, FetchIs DEF Serving, Fetch
  <1>3. PICK k \in {position, 0} : Continue(<<h, k>>, Tail(stack))
    BY DEF Reads
  <1>4. <<h, k>> \in Frames
    BY <1>2 DEF Frames
  <1>5. Onto(<<h, k>>, Nothing)
    BY <1>2, <1>3, <1>4, OntoOne
  <1>6. PICK f \in Frames \union {Nothing} : f = <<h, k>>
    BY <1>4
  <1>7. f[1] = h /\ f[2] = k /\ f # Nothing /\ f[1] \notin Serving
    BY <1>6 DEF Nothing, Serving
  <1>8. Taken' = Taken /\ \A t \in ReadySet : PairAt(t)' = PairAt(t)
    BY DEF Taken, PairAt, InUse
  <1>9. OnlyWaits(Below') /\ ReaderFits' /\ Top' = f
    BY <1>1, <1>2, <1>5, <1>6, <1>7, <1>8, ReaderLeaves
  <1>10. Calling' = Calling /\ IsFiniteSet(open')
    BY <1>2, <1>7, <1>9, CallingSame DEF TasksFit
  <1>11. TasksFit' /\ TakenFits' /\ Called' = Called /\ DiffusedHeld' = DiffusedHeld /\ Known' = Known
    BY <1>1, <1>10, TasksSame
  <1>12. ReachFits'
    <2>1. Reached' = Reached
      BY <1>7, <1>9 DEF Reached
    <2> QED
      BY <1>1, <1>2, <1>11, <2>1 DEF ReachFits
  <1>13. WaitingFits'
    BY <1>1, <1>2, <1>10 DEF WaitingFits
  <1>14. FetchedFits'
    BY <1>1, <1>2, <1>7, <1>9 DEF FetchedFits, Fetch
  <1>15. AnswerFits'
    BY <1>7, <1>9 DEF AnswerFits
  <1> QED
    BY <1>9, <1>11, <1>12, <1>13, <1>14, <1>15, DiffusedQuietGoes

LEMMA DiffusedIterateGoes ==
  ASSUME Diff, DiffusedIterate
  PROVE  DiffusedGoes
  <1>1. stack # <<>> /\ Top[1] = "iterate" /\ Top[2] = Arg
    BY TopRuns DEF DiffusedIterate
  <1>2. /\ position' = position /\ entries' = entries /\ open' = open /\ given' = given
        /\ idle' = idle /\ final' = final
    BY DEF DiffusedIterate
  <1>3. /\ Whole /\ TasksFit /\ TakenFits /\ ReachFits /\ WaitingFits /\ FetchedFits /\ case' = case
        /\ case.length \in Nat /\ Types /\ AnswerFits
    BY DiffIs
  <1>4. Failed' = Failed /\ \A t : PairAt(t)' = PairAt(t)
    BY EntriesSame, <1>2
  <1>5. /\ Top[1] \notin Serving /\ Top[1] # "entry" /\ Top[1] \in Fetch
        /\ Top[1] \in {"iterate", "key", "value"}
    BY <1>1 DEF Serving, Fetch
  <1>6. CASE Arg = "iter" /\ Reads("key") /\ UNCHANGED <<caller, lists>>
    <2>1. position \in 1 .. case.length
      BY <1>1, <1>3, <1>6 DEF FetchedFits
    <2>2. \A t \in InUse : entries'[t] = entries[t]
      BY <1>2
    <2> QED
      BY <1>1, <1>2, <1>4, <1>6, <2>1, <2>2, FetchReads
  <1>7. CASE Arg = "error" /\ Fails
    BY <1>1, <1>2, <1>5, <1>7, FetchFails
  <1>8. CASE /\ Arg = "nil" /\ last' = "nil" /\ UNCHANGED <<free, ready, waiting>>
             /\ IF waiting = 0 THEN Tells("nil") ELSE Returns /\ UNCHANGED caller
    <2>1. /\ free' = free /\ ready' = ready /\ waiting' = waiting /\ last' = "nil" /\ last = "none"
          /\ Failed = {}
      BY <1>1, <1>5, <1>8, FetchIs
    <2>2. Known = 1 .. case.length
      <3>1. position = case.length + 1
        BY <1>1, <1>3, <1>8 DEF FetchedFits
      <3>2. Known = 1 .. position - 1
        BY <1>1, <1>3, <2>1 DEF ReachFits, Reached
      <3> QED
        BY <1>3, <3>1, <3>2
    <2>3. Taken' = Taken
      BY <1>2 DEF Taken
    <2>4. \A t \in ReadySet : PairAt(t)' = PairAt(t)
      BY <1>4
    <2>5. /\ OnlyWaits(Below') /\ ReaderFits'
          /\ Top'[1] \in {"consumer", "nothing", "rest", "fetched"}
      <3>1. CASE waiting # 0
        <4>1. Returns /\ caller' = caller
          BY <1>8, <3>1
        <4>2. Onto(Nothing, Nothing) /\ Nothing \in Frames \union {Nothing}
              /\ Nothing \in {Nothing, <<"rest", 0>>}
              /\ Nothing[1] = "nothing" /\ Nothing[1] \notin Serving
          BY <1>1, <1>3, <4>1, OntoNone DEF Nothing, Serving
        <4> QED
          BY <1>2, <1>5, <2>1, <2>3, <2>4, <4>1, <4>2, ReaderLeaves
      <3>2. CASE waiting = 0
        <4>1. Tells("nil")
          BY <1>8, <3>2
        <4>2. Taken = 1 .. case.length
          <5>1. Cardinality(Calling) + Len(ready) = 0 /\ IsFiniteSet(Calling)
            <6>1. IsFiniteSet(Calling)
              BY <1>3, <1>5 DEF Calling, TasksFit
            <6> QED
              BY <1>3, <2>1, <3>2, <6>1 DEF WaitingFits
          <5>2. Cardinality(Calling) = 0 /\ ready = <<>>
            <6>1. Len(ready) \in Nat /\ (Len(ready) = 0 <=> ready = <<>>)
              BY <1>3 DEF Types
            <6>2. Cardinality(Calling) \in Nat
              BY <5>1, FS_CardinalityType
            <6> QED
              BY <5>1, <6>1, <6>2
          <5>3. Calling = {} /\ ReadySet = {}
            BY <5>1, <5>2, FS_EmptySet DEF ReadySet
          <5>4. InUse = {}
            BY <2>1, <5>3 DEF InUse, Out
          <5> QED
            BY <2>2, <5>4 DEF Known
        <4>3. Fresh => Fresh'
          BY <1>4, <2>1, <2>3 DEF Fresh, ReadySet
        <4>4. PairAt(ready[1])' = PairAt(ready[1])
          BY <1>2, <2>1 DEF PairAt
        <4> QED
          BY <1>1, <1>2, <1>5, <2>1, <2>3, <4>1, <4>2, <4>3, <4>4, ReaderTells
      <3> QED
        BY <3>1, <3>2
    <2>6. Calling' = Calling /\ IsFiniteSet(open')
      BY <1>2, <1>3, <1>5, <2>5, CallingSame DEF TasksFit
    <2>7. TasksFit' /\ TakenFits' /\ Called' = Called /\ DiffusedHeld' = DiffusedHeld /\ Known' = Known
      BY <1>2, <1>4, <2>1, <2>6, TasksSame
    <2>8. ReachFits'
      BY <1>3, <2>1, <2>2, <2>7 DEF ReachFits
    <2>9. WaitingFits'
      BY <1>3, <2>1, <2>6 DEF WaitingFits
    <2>10. FetchedFits' /\ AnswerFits'
      <3>1. Top'[1] \notin Fetch \union {"entry"}
        BY <2>5 DEF Fetch
      <3> QED
        BY <3>1, OtherFits
    <2> QED
      BY <1>2, <2>5, <2>7, <2>8, <2>9, <2>10, DiffusedQuietGoes
  <1> QED
    BY <1>6, <1>7, <1>8 DEF DiffusedIterate

LEMMA DiffusedKeyGoes ==
  ASSUME Diff, DiffusedKey
  PROVE  DiffusedGoes
  <1>1. stack # <<>> /\ Top[1] = "key" /\ Top[2] = Arg
    BY TopRuns DEF DiffusedKey
  <1>2. /\ position' = position /\ open' = open /\ given' = given
        /\ idle' = idle /\ final' = final
    BY DEF DiffusedKey
  <1>3. /\ FetchedFits /\ case' = case /\ case.length \in Nat /\ Types /\ Slots' = Slots
        /\ InUse \in SUBSET Slots
    BY DiffIs
  <1>4. /\ Top[1] \in Fetch /\ Top[1] \in {"iterate", "key", "value"}
        /\ position \in 1 .. case.length /\ Arg \in {0, position}
    BY <1>1, <1>3 DEF Fetch, FetchedFits
  <1>5. CASE Arg # 0 /\ entries' = [entries EXCEPT ![free[1]].key = Arg] /\ Reads("value")
             /\ UNCHANGED <<caller, lists>>
    <2>1. free[1] \in Slots /\ free[1] \notin InUse /\ free' = free
      BY <1>1, <1>4, <1>5, FetchIs DEF lists
    <2>2. /\ DOMAIN entries = Slots /\ \A t \in Slots \ {free[1]} : entries'[t] = entries[t]
          /\ entries'[free[1]].key = position /\ entries'[free[1]].value = entries[free[1]].value
      BY <1>3, <1>4, <1>5, <2>1 DEF Types
    <2>3. \A t \in InUse : entries'[t] = entries[t]
      BY <1>3, <2>1, <2>2
    <2>4. Failed' = Failed
      BY <1>3, <2>1, <2>2 DEF Failed
    <2>5. PairAt(free[1])' = position
      BY <2>1, <2>2 DEF PairAt
    <2> QED
      BY <1>1, <1>2, <1>4, <1>5, <2>3, <2>4, <2>5, FetchReads
  <1>6. CASE Arg = 0 /\ Fails /\ UNCHANGED entries
    BY <1>1, <1>2, <1>4, <1>6, FetchFails
  <1> QED
    BY <1>5, <1>6 DEF DiffusedKey

Elements(s) == {s[i] : i \in DOMAIN s}

LEMMA TailElements ==
  ASSUME NEW S, NEW s \in Seq(S), s # <<>>, Injective(s)
  PROVE  /\ Tail(s) \in Seq(S) /\ Injective(Tail(s)) /\ Elements(Tail(s)) = Elements(s) \ {s[1]}
         /\ Len(Tail(s)) = Len(s) - 1 /\ s[1] \in Elements(s)
  <1>1. /\ Tail(s) \in Seq(S) /\ Len(Tail(s)) = Len(s) - 1 /\ Len(s) \in Nat \ {0}
        /\ DOMAIN s = 1 .. Len(s) /\ DOMAIN Tail(s) = 1 .. Len(s) - 1
        /\ \A i \in 1 .. Len(s) - 1 : Tail(s)[i] = s[i + 1]
    OBVIOUS
  <1>2. Injective(Tail(s))
    <2>1. ASSUME NEW i \in DOMAIN Tail(s), NEW j \in DOMAIN Tail(s), Tail(s)[i] = Tail(s)[j]
          PROVE  i = j
      <3>1. s[i + 1] = s[j + 1] /\ i + 1 \in DOMAIN s /\ j + 1 \in DOMAIN s
        BY <1>1, <2>1
      <3>2. i + 1 = j + 1
        BY <3>1 DEF Injective
      <3> QED
        BY <1>1, <3>2
    <2> QED
      BY <2>1 DEF Injective
  <1>3. ASSUME NEW x \in Elements(Tail(s))
        PROVE  x \in Elements(s) \ {s[1]}
    <2>1. PICK i \in DOMAIN Tail(s) : x = Tail(s)[i]
      BY DEF Elements
    <2>2. x = s[i + 1] /\ i + 1 \in DOMAIN s /\ i + 1 # 1 /\ 1 \in DOMAIN s
      BY <1>1, <2>1
    <2> QED
      BY <2>2 DEF Elements, Injective
  <1>4. ASSUME NEW x \in Elements(s) \ {s[1]}
        PROVE  x \in Elements(Tail(s))
    <2>1. PICK i \in DOMAIN s : x = s[i] /\ i # 1
      BY DEF Elements
    <2>2. i - 1 \in DOMAIN Tail(s) /\ x = Tail(s)[i - 1]
      BY <1>1, <2>1
    <2> QED
      BY <2>2 DEF Elements
  <1>5. s[1] \in Elements(s)
    BY <1>1 DEF Elements
  <1> QED
    BY <1>1, <1>2, <1>3, <1>4, <1>5

LEMMA AppendElements ==
  ASSUME NEW S, NEW s \in Seq(S), NEW x \in S, Injective(s), x \notin Elements(s)
  PROVE  /\ Append(s, x) \in Seq(S) /\ Injective(Append(s, x))
         /\ Elements(Append(s, x)) = Elements(s) \union {x}
         /\ Len(Append(s, x)) = Len(s) + 1 /\ Append(s, x) # <<>>
         /\ (IF s = <<>> THEN x ELSE s[1]) = Append(s, x)[1]
  <1> DEFINE t == Append(s, x)
  <1>1. /\ t \in Seq(S) /\ Len(t) = Len(s) + 1 /\ Len(s) \in Nat /\ t # <<>>
        /\ DOMAIN s = 1 .. Len(s) /\ DOMAIN t = 1 .. Len(s) + 1
        /\ \A i \in 1 .. Len(s) : t[i] = s[i]
        /\ t[Len(s) + 1] = x
    OBVIOUS
  <1>2. (IF s = <<>> THEN x ELSE s[1]) = t[1]
    BY <1>1
  <1> HIDE DEF t
  <1>3. ASSUME NEW i \in DOMAIN t
        PROVE  (i \in DOMAIN s /\ t[i] = s[i]) \/ (i = Len(s) + 1 /\ t[i] = x)
    BY <1>1
  <1>4. \A i \in DOMAIN s : i \in DOMAIN t /\ t[i] = s[i] /\ s[i] # x
    BY <1>1 DEF Elements
  <1>5. Injective(t)
    BY <1>3, <1>4 DEF Injective
  <1>6. Elements(t) = Elements(s) \union {x}
    <2>1. Len(s) + 1 \in DOMAIN t /\ t[Len(s) + 1] = x
      BY <1>1
    <2> QED
      BY <1>3, <1>4, <2>1 DEF Elements
  <1> QED
    BY <1>1, <1>2, <1>5, <1>6 DEF t

\* The function is called with the pair, for the first free task.
LEMMA CallsFn ==
  ASSUME Diff, stack # <<>>, Top[1] = "value", NEW s \in Slots, NEW p \in Nat \ {0}, CallFn(s, p),
         <<s, p>> \notin Calling
  PROVE  /\ Calling' = Calling \union {<<s, p>>} /\ Calling = open
         /\ open' = open \/ open' = open \union {<<s, p>>}
         /\ AnswerFits'
         /\ \E f \in Frames, g \in {Nothing, <<"rest", 0>>} :
              Onto(f, g) /\ f[1] \in {"entry", "rest"} /\ Top' = f
  <1>1. Whole /\ Calling = open /\ <<"rest", 0>> \in Waits /\ <<"rest", 0>> \in Frames
        /\ Slots' = Slots
    BY DiffIs DEF Calling, Waits, Frames
  <1>2. CASE /\ \E x \in {"result", "failed"} :
                  Continue(<<"entry", <<s, <<x, p>>>>>>, << <<"rest", 0>> >> \o Tail(stack))
             /\ UNCHANGED open
    <2>1. PICK x \in {"result", "failed"} :
            Continue(<<"entry", <<s, <<x, p>>>>>>, << <<"rest", 0>> >> \o Tail(stack))
      BY <1>2
    <2>2. PICK f \in Frames : f = <<"entry", <<s, <<x, p>>>>>>
      BY DEF Frames, Outcomes
    <2>3. Onto(f, <<"rest", 0>>)
      BY <1>1, <2>1, <2>2, OntoBoth
    <2>4. Top' = f
      <3>1. f # Nothing
        BY <2>2 DEF Nothing
      <3> QED
        BY <2>3, <3>1 DEF Onto
    <2>5. /\ f[1] = "entry" /\ f[2][1] = s /\ f[2][2] = <<x, p>> /\ f[2][2][2] = p
      BY <2>2
    <2>6. Answer' = <<s, p>> /\ Top'[1] = "entry" /\ Top'[2][2] = <<x, p>>
      BY <2>4, <2>5 DEF Answer
    <2>7. Calling' = Calling \union {<<s, p>>} /\ open' = open
      BY <1>1, <1>2, <2>6 DEF Calling
    <2>8. AnswerFits'
      BY <1>1, <2>6, <2>7 DEF AnswerFits
    <2> QED
      BY <1>1, <2>3, <2>4, <2>5, <2>7, <2>8
  <1>3. CASE open' = open \union {<<s, p>>} /\ Calls(<<"rest", 0>>, Tail(stack))
    <2>1. PICK f \in Frames : f = <<"rest", 0>>
      BY <1>1
    <2>2. Onto(f, Nothing)
      BY <1>1, <1>3, <2>1, OntoOne
    <2>3. Top' = f /\ f[1] = "rest" /\ Top'[1] = "rest"
      <3>1. f # Nothing
        BY <2>1 DEF Nothing
      <3> QED
        BY <2>1, <2>2, <3>1 DEF Onto
    <2>4. Calling' = Calling \union {<<s, p>>}
      BY <1>1, <1>3, <2>3 DEF Calling
    <2>5. AnswerFits'
      BY <2>3 DEF AnswerFits
    <2> QED
      BY <1>1, <1>3, <2>2, <2>3, <2>4, <2>5
  <1> QED
    BY <1>2, <1>3 DEF CallFn

\* Pipe's step is one that has been named above.
LEMMA StepGoes ==
  ASSUME Diff, TasksFit', TakenFits', ReachFits', WaitingFits', FetchedFits', AnswerFits',
         ReaderFits', OnlyWaits(Below'), Across => Piped
  PROVE  DiffusedGoes
  <1>1. DiffusedFits'
    BY DEF DiffusedFits
  <1>2. Across
    BY <1>1, AcrossIs
  <1> QED
    BY <1>1, <1>2 DEF DiffusedGoes

LEMMA DiffusedCalls ==
  ASSUME Diff, DiffusedValue, Arg # 0
  PROVE  DiffusedGoes
  <1>1. stack # <<>> /\ Top[1] = "value" /\ Top[2] = Arg
    BY TopRuns DEF DiffusedValue
  <1>2. /\ free' = Tail(free) /\ waiting' = waiting + 1 /\ CallFn(free[1], Arg)
        /\ caller' = caller /\ ready' = ready /\ last' = last
        /\ position' = position /\ entries' = entries /\ given' = given
        /\ idle' = idle /\ final' = final
    BY DEF DiffusedValue
  <1>3. /\ TasksFit /\ TakenFits /\ ReachFits /\ WaitingFits /\ FetchedFits
        /\ case' = case /\ case.length \in Nat /\ Types /\ Slots' = Slots
        /\ Calling \in SUBSET (Slots \X Nat) /\ InUse \in SUBSET Slots
    BY DiffIs
  <1>4. /\ last = "none" /\ free # <<>> /\ free[1] \in Slots /\ free[1] \notin InUse /\ Failed = {}
    BY <1>1, FetchIs DEF Fetch
  <1>5. PICK s \in Slots : s = free[1]
    BY <1>4
  <1>6. PICK p \in 1 .. case.length : p = position /\ p = Arg /\ PairAt(s) = p
    BY <1>1, <1>3, <1>5 DEF FetchedFits
  <1>7. Known = 1 .. p - 1 /\ p \notin Known
    <2>1. Known = 1 .. position - 1
      BY <1>1, <1>3, <1>4 DEF ReachFits, Reached
    <2>2. Known = 1 .. p - 1
      BY <1>6, <2>1
    <2>3. p \in Int
      OBVIOUS
    <2>4. p \notin 1 .. p - 1
      BY <2>3
    <2> QED
      BY ONLY <2>2, <2>4
  <1>8. <<s, p>> \notin Calling /\ p \in Nat \ {0}
    <2>1. s \notin Out
      BY <1>4, <1>5 DEF InUse
    <2>2. \A c \in Calling : c[1] \in Out
      BY DEF Out
    <2>3. <<s, p>>[1] = s
      OBVIOUS
    <2> QED
      BY <1>3, <2>1, <2>2, <2>3
  <1>9. CallFn(s, p)
    BY <1>2, <1>5, <1>6
  <1>10. /\ Calling' = Calling \union {<<s, p>>} /\ Calling = open
         /\ open' = open \/ open' = open \union {<<s, p>>}
         /\ AnswerFits'
         /\ \E f \in Frames, g \in {Nothing, <<"rest", 0>>} :
              Onto(f, g) /\ f[1] \in {"entry", "rest"} /\ Top' = f
    BY <1>1, <1>8, <1>9, CallsFn
  <1>11. /\ Failed' = Failed /\ ReadySet' = ReadySet /\ Taken' = Taken
         /\ \A t : PairAt(t)' = PairAt(t)
    <2>1. ReadySet' = ReadySet /\ Taken' = Taken
      BY <1>2 DEF ReadySet, Taken
    <2> QED
      BY <1>2, <2>1, EntriesSame
  <1>12. Out' = Out \union {s} /\ InUse' = InUse \union {s} /\ Called' = Called \union {p}
    <2> DEFINE a == <<s, p>>
    <2>0. a[1] = s /\ a[2] = p
      OBVIOUS
    <2>. HIDE DEF a
    <2>. USE <2>0
    <2>1. Out' = Out \union {s}
      <3>1. Calling' = Calling \union {a}
        BY <1>10 DEF a
      <3>2. Out = {c[1] : c \in Calling} /\ Out' = {c[1] : c \in Calling'}
        BY DEF Out
      <3> QED
        BY <3>1, <3>2
    <2>2. Called' = Called \union {p}
      <3>1. Calling' = Calling \union {a}
        BY <1>10 DEF a
      <3>2. Called = {c[2] : c \in Calling} /\ Called' = {c[2] : c \in Calling'}
        BY DEF Called
      <3> QED
        BY <3>1, <3>2
    <2> QED
      BY <1>11, <2>1, <2>2 DEF InUse
  <1>13. Injective(free)' /\ FreeSet' = FreeSet \ {s}
    <2>1. free \in Seq(Slots) /\ Injective(free)
      BY <1>3 DEF Types, TasksFit
    <2>2. Injective(Tail(free)) /\ Elements(Tail(free)) = Elements(free) \ {free[1]}
      BY <1>4, <2>1, TailElements
    <2>3. FreeSet = Elements(free) /\ FreeSet' = Elements(free')
      BY DEF FreeSet, Elements
    <2>4. Injective(free)'
      BY <1>2, <2>2 DEF Injective
    <2> QED
      BY <1>2, <1>5, <2>2, <2>3, <2>4
  <1>14. /\ OnlyWaits(Below') /\ ReaderFits' /\ Top'[1] \in {"entry", "rest"}
    <2>1. PICK f \in Frames, g \in {Nothing, <<"rest", 0>>} :
            Onto(f, g) /\ f[1] \in {"entry", "rest"} /\ Top' = f
      BY <1>10
    <2>2. f[1] \notin Serving /\ Top[1] \notin Serving /\ f \in Frames \union {Nothing}
      BY <1>1, <2>1 DEF Serving
    <2> QED
      BY <1>2, <1>11, <2>1, <2>2, ReaderLeaves
  <1>15. Known' = 1 .. p /\ p \notin Taken /\ \A t \in InUse : PairAt(t) # p
    <2>1. p \notin Taken /\ \A t \in InUse : PairAt(t) # p
      BY <1>7 DEF Known
    <2>2. {PairAt(t)' : t \in InUse'} = {PairAt(t) : t \in InUse} \union {p}
      BY <1>6, <1>11, <1>12
    <2>3. Known' = {PairAt(t)' : t \in InUse'} \union Taken'
      BY DEF Known
    <2>4. Known' = Known \union {p}
      BY <1>11, <2>2, <2>3 DEF Known
    <2> QED
      BY <1>7, <1>6, <2>1, <2>4
  <1>16. TasksFit'
    <2>1. /\ FreeSet' \intersect InUse' = {}
          /\ ReadySet' \intersect (Out' \union Failed') = {} /\ Out' \intersect Failed' = {}
      <3>1. s \notin ReadySet
        BY <1>4, <1>5 DEF InUse
      <3> QED
        BY <1>3, <1>4, <1>11, <1>12, <1>13, <3>1 DEF TasksFit
    <2>2. Injective(ready)' /\ IsFiniteSet(open')
      <3>1. IsFiniteSet(open) /\ Injective(ready)
        BY <1>3 DEF TasksFit
      <3>2. IsFiniteSet(open')
        BY <1>10, <3>1, FS_AddElement
      <3> QED
        BY <1>2, <3>1, <3>2 DEF Injective
    <2>3. \A c \in Calling' : c[2] = PairAt(c[1])'
      BY <1>3, <1>6, <1>10, <1>11 DEF TasksFit
    <2>4. \A t \in ReadySet' : entries'[t].value = <<"result", PairAt(t)'>>
      BY <1>2, <1>3, <1>11 DEF TasksFit
    <2>5. \A t \in InUse' : PairAt(t)' \in 1 .. case'.length
      BY <1>3, <1>6, <1>11, <1>12 DEF TasksFit
    <2>6. \A t, u \in InUse' : PairAt(t)' = PairAt(u)' => t = u
      BY <1>3, <1>6, <1>11, <1>12, <1>15 DEF TasksFit
    <2>7. /\ \A t \in ReadySet' : PairAt(t)' \in Taken' => t = ready'[1]
          /\ \A t \in Out' \union Failed' : PairAt(t)' \notin Taken'
      BY <1>2, <1>3, <1>6, <1>11, <1>12, <1>15 DEF TasksFit
    <2>8. Failed' # {} => last' = "error"
      BY <1>4, <1>11
    <2> QED
      BY <1>13, <2>1, <2>2, <2>3, <2>4, <2>5, <2>6, <2>7, <2>8 DEF TasksFit
  <1>17. TakenFits'
    BY <1>2, <1>3 DEF TakenFits
  <1>18. ReachFits'
    BY <1>2, <1>3, <1>4, <1>6, <1>14, <1>15 DEF ReachFits, Reached
  <1>19. WaitingFits'
    <2>1. IsFiniteSet(Calling) /\ waiting = Cardinality(Calling) + Len(ready)
      BY <1>3, <1>4, <1>10 DEF TasksFit, WaitingFits
    <2>2. Cardinality(Calling') = Cardinality(Calling) + 1 /\ Cardinality(Calling) \in Nat
      BY <1>8, <1>10, <2>1, FS_AddElement, FS_CardinalityType
    <2>3. Len(ready) \in Nat
      BY <1>3 DEF Types
    <2> QED
      BY <1>2, <1>4, <2>1, <2>2, <2>3 DEF WaitingFits
  <1>20. FetchedFits'
    BY <1>14 DEF FetchedFits, Fetch
  <1>21. DiffusedHeld' = DiffusedHeld
    <2>1. DiffusedHeld = ({PairAt(t) : t \in ReadySet} \ Taken) \union {PairAt(t) : t \in Failed}
      BY DEF DiffusedHeld, PairAt, ReadySet, Taken, Failed
    <2>2. DiffusedHeld' = ({PairAt(t)' : t \in ReadySet'} \ Taken') \union {PairAt(t)' : t \in Failed'}
      BY DEF DiffusedHeld, PairAt, ReadySet, Taken, Failed
    <2> QED
      BY <1>11, <2>1, <2>2
  <1>22. Across => Piped
    BY <1>2, <1>4, <1>7, <1>12, <1>21, DiffusedStarts
  <1> QED
    BY <1>10, <1>14, <1>16, <1>17, <1>18, <1>19, <1>20, <1>22, StepGoes

LEMMA DiffusedValueGoes ==
  ASSUME Diff, DiffusedValue
  PROVE  DiffusedGoes
  <1>1. stack # <<>> /\ Top[1] \in {"iterate", "key", "value"}
    BY TopRuns DEF DiffusedValue
  <1>2. CASE Arg # 0
    BY <1>2, DiffusedCalls
  <1>3. CASE Arg = 0
    <2>1. /\ Fails /\ entries' = entries /\ open' = open /\ given' = given
          /\ idle' = idle /\ final' = final
      BY <1>3 DEF DiffusedValue
    <2> QED
      BY <1>1, <2>1, FetchFails
  <1> QED
    BY <1>2, <1>3

\* The iterator is asked for the next pair.
LEMMA AsksIter ==
  ASSUME Diff, stack # <<>>, position \in 0 .. case.length, last' = "none",
         NEW g \in {Nothing, <<"fetched", 0>>},
         \/ g = Nothing /\ AskIter(Tail(stack))
         \/ g = <<"fetched", 0>> /\ AskIter(<< <<"fetched", 0>> >> \o Tail(stack))
  PROVE  /\ \E f \in Frames : Onto(f, g) /\ f[1] = "iterate" /\ Top' = f
         /\ Top'[1] = "iterate" /\ OnlyWaits(Below')
         /\ FetchedFits' /\ AnswerFits' /\ Reached' = position
  <1>1. Whole /\ case' = case /\ case.length \in Nat /\ <<"fetched", 0>> \in Waits
    BY DiffIs DEF Waits
  <1>2. position' = position + 1
    BY DEF AskIter
  <1>3. PICK x \in {IF position < case.length THEN "iter" ELSE "nil", "error"} :
          \/ g = Nothing /\ Continue(<<"iterate", x>>, Tail(stack))
          \/ g = <<"fetched", 0>> /\ Continue(<<"iterate", x>>, << <<"fetched", 0>> >> \o Tail(stack))
    BY DEF AskIter
  <1>4. <<"iterate", x>> \in Frames
    BY DEF Frames, Outcomes
  <1>5. PICK f \in Frames : f = <<"iterate", x>>
    BY <1>4
  <1>6. Onto(f, g)
    <2>1. CASE g = Nothing
      <3>1. Continue(f, Tail(stack))
        BY <1>3, <1>5, <2>1 DEF Nothing
      <3> QED
        BY <1>1, <2>1, <3>1, OntoOne
    <2>2. CASE g = <<"fetched", 0>>
      <3>1. Continue(f, <<g>> \o Tail(stack)) /\ g \in Waits
        BY <1>1, <1>3, <1>5, <2>2 DEF Nothing
      <3> QED
        BY <1>1, <3>1, OntoBoth
    <2> QED
      BY <2>1, <2>2
  <1>7. f[1] = "iterate" /\ f[2] = x /\ f # Nothing
    BY <1>5 DEF Nothing
  <1>8. Top' = f /\ OnlyWaits(Below')
    BY <1>6, <1>7 DEF Onto
  <1>9. FetchedFits'
    <2>1. /\ position' \in 1 .. case.length + 1
          /\ x = "iter" => position' \in 1 .. case.length
          /\ x = "nil" => position' = case.length + 1
      BY <1>1, <1>2
    <2> QED
      BY <1>1, <1>7, <1>8, <2>1 DEF FetchedFits
  <1>10. AnswerFits'
    BY <1>7, <1>8 DEF AnswerFits
  <1>11. Reached' = position
    BY <1>1, <1>2, <1>7, <1>8 DEF Reached
  <1> QED
    BY <1>6, <1>7, <1>8, <1>9, <1>10, <1>11

\* The handler that asked for the first pair, and the one that goes on after a call.
LEMMA AsksGoes ==
  ASSUME Diff, stack # <<>>, Top[1] \in {"begin", "rest"}, last = "none",
         AskIter(Tail(stack)),
         entries' = entries, open' = open, given' = given, caller' = caller, idle' = idle,
         final' = final, UNCHANGED lists
  PROVE  DiffusedGoes
  <1>1. free' = free /\ ready' = ready /\ waiting' = waiting /\ last' = last
    BY DEF lists
  <1>2. /\ TasksFit /\ ReachFits /\ WaitingFits /\ case' = case
        /\ case.length \in Nat /\ Top[1] \notin Serving /\ Top[1] # "entry"
    BY DiffIs DEF Serving
  <1>3. Reached = position /\ position \in 0 .. case.length
    BY <1>2 DEF ReachFits, Reached
  <1>4. Nothing \in {Nothing, <<"fetched", 0>>} /\ Nothing \in {Nothing, <<"rest", 0>>}
    OBVIOUS
  <1>5. PICK g \in {Nothing, <<"fetched", 0>>} : g = Nothing
    BY <1>4
  <1>6. /\ \E f \in Frames : Onto(f, g) /\ f[1] = "iterate" /\ Top' = f
        /\ Top'[1] = "iterate" /\ OnlyWaits(Below')
        /\ FetchedFits' /\ AnswerFits' /\ Reached' = position
    BY <1>1, <1>3, <1>5, AsksIter
  <1>7. PICK f \in Frames : Onto(f, Nothing) /\ f[1] = "iterate"
    BY <1>5, <1>6
  <1>8. f[1] \notin Serving /\ f \in Frames \union {Nothing}
    BY <1>7 DEF Serving
  <1>9. Failed' = Failed /\ \A t : PairAt(t)' = PairAt(t)
    BY EntriesSame
  <1>10. Taken' = Taken /\ \A t \in ReadySet : PairAt(t)' = PairAt(t)
    BY <1>9 DEF Taken
  <1>11. ReaderFits'
    BY <1>1, <1>2, <1>4, <1>7, <1>8, <1>10, ReaderLeaves
  <1>12. Calling' = Calling /\ IsFiniteSet(open')
    BY <1>2, <1>6, CallingSame DEF TasksFit
  <1>13. TasksFit' /\ TakenFits' /\ Called' = Called /\ DiffusedHeld' = DiffusedHeld /\ Known' = Known
    BY <1>1, <1>9, <1>12, TasksSame
  <1>14. ReachFits' /\ WaitingFits'
    BY <1>1, <1>2, <1>3, <1>6, <1>12, <1>13 DEF ReachFits, WaitingFits
  <1> QED
    BY <1>6, <1>11, <1>13, <1>14, DiffusedQuietGoes

LEMMA DiffusedRestGoes ==
  ASSUME Diff, DiffusedRest
  PROVE  DiffusedGoes
  <1>1. stack # <<>> /\ Top[1] = "rest"
    BY TopRuns DEF DiffusedRest
  <1>2. /\ entries' = entries /\ open' = open /\ given' = given /\ caller' = caller /\ idle' = idle
        /\ final' = final /\ UNCHANGED lists
    BY DEF DiffusedRest
  <1>3. CASE last = "none" /\ free # <<>>
    <2>1. AskIter(Tail(stack))
      BY <1>3 DEF DiffusedRest
    <2> QED
      BY <1>1, <1>2, <1>3, <2>1, AsksGoes
  <1>4. CASE ~ (last = "none" /\ free # <<>>)
    <2>1. Returns /\ position' = position
      BY <1>4 DEF DiffusedRest
    <2>2. /\ TasksFit /\ ReachFits /\ WaitingFits /\ case' = case /\ Whole
          /\ Top[1] \notin Serving /\ Top[1] # "entry"
      BY <1>1, DiffIs DEF Serving
    <2>3. free' = free /\ ready' = ready /\ waiting' = waiting /\ last' = last
      BY <1>2 DEF lists
    <2>4. /\ Onto(Nothing, Nothing) /\ Nothing \in Frames \union {Nothing}
          /\ Nothing \in {Nothing, <<"rest", 0>>}
          /\ Nothing[1] = "nothing" /\ Nothing[1] \notin Serving
      BY <1>1, <2>1, <2>2, OntoNone DEF Nothing, Serving
    <2>5. Failed' = Failed /\ \A t : PairAt(t)' = PairAt(t)
      BY <1>2, EntriesSame
    <2>6. Taken' = Taken /\ \A t \in ReadySet : PairAt(t)' = PairAt(t)
      BY <1>2, <2>5 DEF Taken
    <2>7. OnlyWaits(Below') /\ ReaderFits' /\ Top'[1] \in {"nothing", "rest", "fetched"}
      BY <1>2, <2>2, <2>3, <2>4, <2>6, ReaderLeaves
    <2>8. Calling' = Calling /\ IsFiniteSet(open')
      BY <1>2, <2>2, <2>7, CallingSame DEF TasksFit
    <2>9. TasksFit' /\ TakenFits' /\ Called' = Called /\ DiffusedHeld' = DiffusedHeld /\ Known' = Known
      BY <1>2, <2>3, <2>5, <2>8, TasksSame
    <2>10. ReachFits' /\ WaitingFits'
      <3>1. Reached' = Reached
        BY <1>1, <2>1, <2>7 DEF Reached
      <3> QED
        BY <2>2, <2>3, <2>8, <2>9, <3>1 DEF ReachFits, WaitingFits
    <2>11. FetchedFits' /\ AnswerFits'
      <3>1. Top'[1] \notin Fetch \union {"entry"}
        BY <2>7 DEF Fetch
      <3> QED
        BY <3>1, OtherFits
    <2> QED
      BY <1>2, <2>7, <2>9, <2>10, <2>11, DiffusedQuietGoes
  <1> QED
    BY <1>3, <1>4

LEMMA DiffusedBeginGoes ==
  ASSUME Diff, Begin, UNCHANGED lists
  PROVE  DiffusedGoes
  <1>1. stack # <<>> /\ Top[1] = "begin"
    BY TopRuns DEF Begin
  <1>2. last = "none"
    BY <1>1, FetchIs DEF Fetch
  <1> QED
    BY <1>1, <1>2, AsksGoes DEF Begin

------------------------------------------------------------------------------
(* diffused: the answers of the function.                                    *)

\* The handler is over, and the consumer is told nothing.
LEMMA ReaderReturns ==
  ASSUME Diff, stack # <<>>, Top[1] \notin Serving, Returns,
         caller' = caller, idle' = idle, final' = final, Taken' = Taken, Fresh => Fresh',
         ready # <<>> => ready' # <<>> /\ PairAt(ready[1])' = PairAt(ready[1])
  PROVE  /\ OnlyWaits(Below') /\ ReaderFits' /\ Top'[1] \in {"nothing", "rest", "fetched"}
  <1>1. Whole /\ ReaderFits /\ case' = case
    BY DiffIs
  <1>2. PICK f \in Frames \union {Nothing} : f = Nothing
    OBVIOUS
  <1>3. Onto(f, f) /\ f[1] = "nothing"
    BY <1>1, <1>2, OntoNone DEF Nothing
  <1>4. /\ One(Top, Serving) = 0 /\ One(f, Serving) = 0
        /\ One(f, {"fetched"}) = 0 /\ One(Top, {"fetched"}) = 0
    BY <1>3 DEF One, Serving
  <1>5. /\ OnlyWaits(Below') /\ Top'[1] \in {"nothing", "rest", "fetched"}
        /\ Count({"fetched"})' = Count({"fetched"})
    BY <1>1, <1>3, <1>4, OntoIs
  <1>6. caller' \in BOOLEAN /\ idle' \in BOOLEAN
    BY <1>1 DEF ReaderFits
  <1>7. One(f, Serving) + One(f, Serving) + Tok(caller') + Tok(idle') + Tok(final' # "none")
          <= One(Top, Serving) + Tok(caller) + Tok(idle) + Tok(final # "none")
    <2>1. Tok(caller) \in {0, 1} /\ Tok(idle) \in {0, 1} /\ Tok(final # "none") \in {0, 1}
      BY DEF Tok
    <2> QED
      BY <1>4, <2>1
  <1>8. Count({"fetched"})' # 0 => Fresh'
    BY <1>1, <1>5 DEF ReaderFits
  <1>9. idle' \/ f[1] = "next" => ready' # <<>> /\ PairAt(ready[1])' \in Taken'
    BY <1>1, <1>3 DEF ReaderFits
  <1>10. f[1] = "consumer" => \/ f[2] = "state" /\ ready' # <<>> /\ Fresh'
                              \/ f[2] = "nil" /\ Taken' = 1 .. case.length
                              \/ f[2] = "error"
    BY <1>3
  <1>11. ReaderFits'
    BY <1>3, <1>6, <1>7, <1>8, <1>9, <1>10, ReaderMoves
  <1> QED
    BY <1>5, <1>11

\* What the answer that arrives is, and what it leaves.
LEMMA AnswerIs ==
  ASSUME Diff, DiffusedEntry, NEW t, t = Answer[1], NEW p, p = Answer[2], Top'[1] # "entry"
  PROVE  /\ t \in Slots /\ t \in Out /\ p = PairAt(t) /\ p \in 1 .. case.length /\ p \in Called
         /\ p \notin Taken
         /\ Calling' = Calling \ {<<t, p>>} /\ <<t, p>> \in Calling
         /\ Out' = Out \ {t} /\ Called' = Called \ {p}
         /\ Taken' = Taken /\ \A u \in Slots : PairAt(u)' = PairAt(u)
         /\ t \notin ReadySet /\ t \notin Failed
         /\ entries'[t].value = Arg[2]
         /\ \A u \in Slots \ {t} : entries'[u] = entries[u]
         /\ Arg[1] = t /\ Arg[2] \in {"result", "failed"} \X Nat /\ Arg[2][2] = p
         /\ Failed' = IF Arg[2][1] = "failed" THEN Failed \union {t} ELSE Failed
  <1>1. stack # <<>> /\ Top[1] = "entry" /\ Top[2] = Arg
    BY TopRuns DEF DiffusedEntry
  <1>2. /\ TasksFit /\ AnswerFits /\ Types /\ Slots' = Slots
        /\ Calling \in SUBSET (Slots \X Nat) /\ Out \in SUBSET Slots
    BY DiffIs
  <1>3. /\ open' = open /\ given' = given /\ entries' = [entries EXCEPT ![Arg[1]].value = Arg[2]]
    BY DEF DiffusedEntry
  <1>4. /\ Answer \in Slots \X Nat /\ Answer \notin open
        /\ Arg[1] = t /\ Arg[2] \in {"result", "failed"} \X Nat /\ Arg[2][2] = p
    BY <1>1, <1>2 DEF AnswerFits, Answer
  <1>5. Answer = <<t, p>> /\ t \in Slots /\ Calling = open \union {<<t, p>>} /\ Calling' = open
    BY <1>1, <1>3, <1>4 DEF Calling
  <1>6. <<t, p>> \in Calling /\ Calling' = Calling \ {<<t, p>>}
    BY <1>4, <1>5
  <1>7. t \in Out /\ p = PairAt(t) /\ p \in Called
    <2>1. PICK c \in Calling : c = <<t, p>>
      BY <1>6
    <2>2. c[1] = t /\ c[2] = p
      BY <2>1
    <2>3. t \in Out /\ p \in Called
      BY <2>2 DEF Out, Called
    <2> QED
      BY <1>2, <2>2, <2>3 DEF TasksFit
  <1>8. p \in 1 .. case.length /\ p \notin Taken /\ t \notin ReadySet /\ t \notin Failed
    BY <1>2, <1>7 DEF TasksFit, InUse
  <1>9. /\ DOMAIN entries' = Slots
        /\ entries'[t].value = Arg[2] /\ entries'[t].key = entries[t].key
        /\ \A u \in Slots \ {t} : entries'[u] = entries[u]
    BY <1>2, <1>3, <1>4, <1>5 DEF Types
  <1>10. \A u \in Slots : PairAt(u)' = PairAt(u)
    BY <1>9 DEF PairAt
  <1>11. Out' = Out \ {t}
    <2>1. ASSUME NEW u
          PROVE  u \in Out' <=> u \in Out /\ u # t
      <3>1. u \in Out <=> <<u, PairAt(u)>> \in Calling
        BY <1>2, CallingTasks
      <3>2. u \in Out' => <<u, PairAt(u)>> \in Calling'
        <4>1. ASSUME u \in Out'
              PROVE  <<u, PairAt(u)>> \in Calling'
          <5>1. PICK c \in Calling' : c[1] = u
            BY <4>1 DEF Out
          <5>2. c \in Calling /\ c \in Slots \X Nat
            BY <1>2, <1>6
          <5>3. c[2] = PairAt(c[1])
            BY <1>2, <5>2 DEF TasksFit
          <5>4. c = <<u, PairAt(u)>>
            BY <5>1, <5>2, <5>3
          <5> QED
            BY <5>4
        <4> QED
          BY <4>1
      <3>3. <<u, PairAt(u)>> \in Calling' => u \in Out'
        <4>1. <<u, PairAt(u)>>[1] = u
          OBVIOUS
        <4> QED
          BY <4>1 DEF Out
      <3>4. <<u, PairAt(u)>> = <<t, p>> <=> u = t
        BY <1>7
      <3> QED
        BY <1>6, <3>1, <3>2, <3>3, <3>4
    <2> QED
      BY <2>1
  <1>12. Called' = Called \ {p}
    <2>1. Called = {PairAt(u) : u \in Out}
      BY <1>2, CallingTasks
    <2>2. \A u \in Out : PairAt(u) = p => u = t
      BY <1>2, <1>7 DEF TasksFit, InUse
    <2>3. Called' = {PairAt(u) : u \in Out'}
      <3>1. \A c \in Calling' : c[1] \in Out' /\ c[2] = PairAt(c[1])
        BY <1>2, <1>6 DEF Out, TasksFit
      <3>2. \A u \in Out' : \E c \in Calling' : c[1] = u
        BY DEF Out
      <3>3. Called' = {c[2] : c \in Calling'}
        BY DEF Called
      <3> QED
        BY <3>1, <3>2, <3>3
    <2> QED
      BY <1>7, <1>11, <2>1, <2>2, <2>3
  <1>13. Taken' = Taken
    BY <1>3 DEF Taken
  <1>14. Failed' = IF Arg[2][1] = "failed" THEN Failed \union {t} ELSE Failed
    <2>1. Failed' = {u \in Slots : entries'[u].value[1] = "failed"}
      BY <1>2 DEF Failed
    <2> QED
      BY <1>5, <1>8, <1>9, <2>1 DEF Failed
  <1> QED
    BY <1>4, <1>5, <1>6, <1>7, <1>8, <1>9, <1>10, <1>11, <1>12, <1>13, <1>14

LEMMA EntryOver ==
  ASSUME Diff, DiffusedEntry
  PROVE  stack # <<>> /\ Top[1] = "entry" /\ Top'[1] # "entry"
  <1>1. stack # <<>> /\ Top[1] = "entry" /\ Whole /\ ReaderFits
    BY TopRuns, DiffIs DEF DiffusedEntry
  <1>2. Returns \/ \E x \in {"state", "nil", "error"} : Tells(x)
    BY DEF DiffusedEntry, Fails
  <1>3. ASSUME NEW f \in Frames \union {Nothing}, Onto(f, Nothing), f[1] # "entry"
        PROVE  Top'[1] # "entry"
    <2>1. Nothing \in Frames \union {Nothing}
      OBVIOUS
    <2>2. Top' = f \/ Top'[1] \in {"rest", "fetched"}
      BY <1>1, <1>3, <2>1, OntoIs
    <2> QED
      BY <1>3, <2>2
  <1>4. Nothing \in Frames \union {Nothing} /\ Nothing[1] # "entry"
    BY DEF Nothing
  <1>5. ASSUME NEW x \in {"state", "nil", "error"}, Tells(x)
        PROVE  Top'[1] # "entry"
    <2>1. Onto(<<"consumer", x>>, Nothing) \/ Onto(Nothing, Nothing)
      BY <1>1, <1>5, TellsOnto
    <2>2. PICK f \in Frames : f = <<"consumer", x>>
      BY DEF Frames, Outcomes
    <2>3. f[1] # "entry" /\ (Onto(f, Nothing) \/ Onto(Nothing, Nothing))
      BY <2>1, <2>2
    <2> QED
      BY <1>3, <1>4, <2>3
  <1>6. Returns => Top'[1] # "entry"
    BY <1>1, <1>3, <1>4, OntoNone
  <1> QED
    BY <1>1, <1>2, <1>5, <1>6

LEMMA AnswerFails ==
  ASSUME Diff, DiffusedEntry, Arg[2][1] = "failed", Fails
  PROVE  DiffusedGoes
  <1>1. stack # <<>> /\ Top[1] = "entry" /\ Top'[1] # "entry" /\ Top[1] \notin Serving
    BY EntryOver DEF Serving
  <1>2. PICK t, p : t = Answer[1] /\ p = Answer[2]
    OBVIOUS
  <1>3. /\ t \in Slots /\ t \in Out /\ p = PairAt(t) /\ p \in 1 .. case.length /\ p \in Called
        /\ p \notin Taken
        /\ Calling' = Calling \ {<<t, p>>}
        /\ Out' = Out \ {t} /\ Called' = Called \ {p}
        /\ Taken' = Taken /\ \A u \in Slots : PairAt(u)' = PairAt(u)
        /\ t \notin ReadySet /\ t \notin Failed
        /\ \A u \in Slots \ {t} : entries'[u] = entries[u]
        /\ Failed' = Failed \union {t}
    BY <1>1, <1>2, AnswerIs
  <1>4. /\ last' = "error" /\ waiting' = 0 /\ Tells("error") /\ free' = free /\ ready' = ready
        /\ given' = given /\ idle' = idle /\ final' = final /\ open' = open
    BY DEF Fails, DiffusedEntry
  <1>5. /\ TasksFit /\ TakenFits /\ case' = case /\ Types
        /\ ReadySet \in SUBSET Slots /\ InUse \in SUBSET Slots
    BY DiffIs
  <1>6. ReadySet' = ReadySet /\ FreeSet' = FreeSet /\ InUse' = InUse
    <2>1. ReadySet' = ReadySet /\ FreeSet' = FreeSet
      BY <1>4 DEF ReadySet, FreeSet
    <2> QED
      BY <1>3, <2>1 DEF InUse
  <1>7. /\ OnlyWaits(Below') /\ ReaderFits'
        /\ Top'[1] \in {"consumer", "nothing", "rest", "fetched"}
    <2>1. Fresh => Fresh'
      BY <1>3, <1>5, <1>6 DEF Fresh
    <2>2. ready # <<>> => ready' # <<>> /\ PairAt(ready[1])' = PairAt(ready[1])
      <3>1. ready # <<>> => ready[1] \in Slots
        BY <1>5, FirstReady
      <3>2. ready'[1] = ready[1]
        BY <1>4
      <3> QED
        BY <1>3, <1>4, <3>1, <3>2 DEF PairAt
    <2> QED
      BY <1>1, <1>3, <1>4, <2>1, <2>2, ReaderTells
  <1>8. TasksFit'
    <2>1. /\ Injective(free)' /\ Injective(ready)' /\ FreeSet' \intersect InUse' = {}
          /\ ReadySet' \intersect (Out' \union Failed') = {} /\ Out' \intersect Failed' = {}
          /\ IsFiniteSet(open')
      BY <1>3, <1>4, <1>5, <1>6 DEF TasksFit, Injective
    <2>2. \A c \in Calling' : c[2] = PairAt(c[1])'
      <3>1. \A c \in Calling : c[1] \in Slots /\ c[2] = PairAt(c[1])
        BY <1>5, DiffIs DEF TasksFit
      <3> QED
        BY <1>3, <3>1
    <2>3. \A u \in ReadySet' : entries'[u].value = <<"result", PairAt(u)'>>
      <3>1. \A u \in ReadySet : /\ u \in Slots \ {t}
                                /\ entries[u].value = <<"result", PairAt(u)>>
        BY <1>3, <1>5 DEF TasksFit
      <3> QED
        BY <1>3, <1>6, <3>1
    <2>4. /\ \A u \in InUse' : PairAt(u)' \in 1 .. case'.length
          /\ \A u, w \in InUse' : PairAt(u)' = PairAt(w)' => u = w
      BY <1>3, <1>5, <1>6 DEF TasksFit
    <2>5. \A u \in ReadySet' : PairAt(u)' \in Taken' => u = ready'[1]
      BY <1>3, <1>4, <1>5, <1>6 DEF TasksFit
    <2>6. \A u \in Out' \union Failed' : PairAt(u)' \notin Taken'
      <3>1. \A u \in Out \union Failed : u \in Slots /\ PairAt(u) \notin Taken
        BY <1>5 DEF TasksFit, InUse
      <3> QED
        BY <1>3, <3>1
    <2> QED
      BY <1>4, <2>1, <2>2, <2>3, <2>4, <2>5, <2>6 DEF TasksFit
  <1>9. TakenFits' /\ ReachFits' /\ WaitingFits'
    BY <1>4, <1>5 DEF TakenFits, ReachFits, WaitingFits
  <1>10. FetchedFits' /\ AnswerFits'
    <2>1. Top'[1] \notin Fetch \union {"entry"}
      BY <1>7 DEF Fetch
    <2> QED
      BY <2>1, OtherFits
  <1>11. DiffusedHeld' = DiffusedHeld \union {p}
    <2>1. DiffusedHeld = ({PairAt(u) : u \in ReadySet} \ Taken) \union {PairAt(u) : u \in Failed}
      BY DEF DiffusedHeld, PairAt, ReadySet, Taken, Failed
    <2>2. DiffusedHeld' = ({PairAt(u)' : u \in ReadySet'} \ Taken') \union {PairAt(u)' : u \in Failed'}
      BY DEF DiffusedHeld, PairAt, ReadySet, Taken, Failed
    <2>3. {PairAt(u)' : u \in ReadySet'} = {PairAt(u) : u \in ReadySet}
      BY <1>3, <1>5, <1>6
    <2>4. \A u \in Failed : u \in Slots
      BY DEF Failed
    <2>5. {PairAt(u)' : u \in Failed'} = {PairAt(u) : u \in Failed} \union {p}
      BY <1>3, <2>4
    <2> QED
      BY <1>3, <2>1, <2>2, <2>3, <2>5
  <1>12. Across => Piped
    BY <1>3, <1>4, <1>11, DiffusedReturns
  <1> QED
    BY <1>7, <1>8, <1>9, <1>10, <1>12, StepGoes

LEMMA AnswerResults ==
  ASSUME Diff, DiffusedEntry, Arg[2][1] = "result", ready' = ReadyWith(Arg[1]),
         IF ready = <<>> THEN Tells("state") ELSE Returns /\ UNCHANGED caller,
         UNCHANGED <<free, waiting, last>>
  PROVE  DiffusedGoes
  <1>1. stack # <<>> /\ Top[1] = "entry" /\ Top'[1] # "entry" /\ Top[1] \notin Serving
    BY EntryOver DEF Serving
  <1>2. PICK t, p : t = Answer[1] /\ p = Answer[2]
    OBVIOUS
  <1>3. /\ t \in Slots /\ t \in Out /\ p = PairAt(t) /\ p \in 1 .. case.length /\ p \in Called
        /\ p \notin Taken
        /\ Calling' = Calling \ {<<t, p>>} /\ <<t, p>> \in Calling
        /\ Out' = Out \ {t} /\ Called' = Called \ {p}
        /\ Taken' = Taken /\ \A u \in Slots : PairAt(u)' = PairAt(u)
        /\ t \notin ReadySet /\ t \notin Failed
        /\ entries'[t].value = Arg[2]
        /\ \A u \in Slots \ {t} : entries'[u] = entries[u]
        /\ Arg[1] = t /\ Arg[2] \in {"result", "failed"} \X Nat /\ Arg[2][2] = p
        /\ Failed' = Failed
    BY <1>1, <1>2, AnswerIs
  <1>4. /\ last' = last /\ waiting' = waiting /\ free' = free /\ ready' = Append(ready, t)
        /\ given' = given /\ idle' = idle /\ final' = final /\ open' = open
        /\ position' = position
    BY <1>3 DEF DiffusedEntry, ReadyWith
  <1>5. /\ TasksFit /\ TakenFits /\ case' = case /\ Types /\ ReachFits /\ WaitingFits
        /\ ReadySet \in SUBSET Slots /\ InUse \in SUBSET Slots
    BY DiffIs
  <1>6. /\ Injective(ready)' /\ ReadySet' = ReadySet \union {t}
        /\ Len(ready') = Len(ready) + 1 /\ ready' # <<>>
        /\ ready'[1] = IF ready = <<>> THEN t ELSE ready[1]
    <2>1. ready \in Seq(Slots) /\ Injective(ready)
      BY <1>5 DEF Types, TasksFit
    <2>2. ReadySet = Elements(ready) /\ ReadySet' = Elements(ready')
      BY DEF ReadySet, Elements
    <2>3. t \notin Elements(ready)
      BY <1>3, <2>2
    <2>4. /\ Injective(Append(ready, t))
          /\ Elements(Append(ready, t)) = Elements(ready) \union {t}
          /\ Len(Append(ready, t)) = Len(ready) + 1 /\ Append(ready, t) # <<>>
          /\ (IF ready = <<>> THEN t ELSE ready[1]) = Append(ready, t)[1]
      BY <1>3, <2>1, <2>3, AppendElements
    <2>5. Injective(ready)'
      BY <1>4, <2>4 DEF Injective
    <2> QED
      BY <1>4, <2>2, <2>4, <2>5
  <1>7. FreeSet' = FreeSet /\ InUse' = InUse
    <2>1. FreeSet' = FreeSet
      BY <1>4 DEF FreeSet
    <2> QED
      BY <1>3, <1>6, <2>1 DEF InUse
  <1>8. /\ OnlyWaits(Below') /\ ReaderFits'
        /\ Top'[1] \in {"consumer", "nothing", "rest", "fetched"}
    <2>1. Fresh => Fresh'
      BY <1>3, <1>5, <1>6 DEF Fresh
    <2>2. ready # <<>> => ready' # <<>> /\ PairAt(ready[1])' = PairAt(ready[1])
      <3>1. ready # <<>> => ready[1] \in Slots
        BY <1>5, FirstReady
      <3>2. ready # <<>> => ready'[1] = ready[1]
        BY <1>6
      <3> QED
        BY <1>3, <1>6, <3>1, <3>2 DEF PairAt
    <2>3. CASE ready = <<>>
      <3>1. ReadySet = {}
        BY <2>3 DEF ReadySet
      <3>2. Fresh' /\ Tells("state")
        BY <1>3, <1>6, <2>3, <3>1 DEF Fresh
      <3> QED
        BY <1>1, <1>3, <1>4, <1>6, <2>1, <2>2, <3>2, ReaderTells
    <2>4. CASE ready # <<>>
      <3>1. Returns /\ caller' = caller
        BY <2>4
      <3> QED
        BY <1>1, <1>3, <1>4, <2>1, <2>2, <3>1, ReaderReturns
    <2> QED
      BY <2>3, <2>4
  <1>9. TasksFit'
    <2>1. /\ Injective(free)' /\ FreeSet' \intersect InUse' = {}
          /\ ReadySet' \intersect (Out' \union Failed') = {} /\ Out' \intersect Failed' = {}
          /\ IsFiniteSet(open')
      BY <1>3, <1>4, <1>5, <1>6, <1>7 DEF TasksFit, Injective
    <2>2. \A c \in Calling' : c[2] = PairAt(c[1])'
      <3>1. \A c \in Calling : c[1] \in Slots /\ c[2] = PairAt(c[1])
        BY <1>5, DiffIs DEF TasksFit
      <3> QED
        BY <1>3, <3>1
    <2>3. \A u \in ReadySet' : entries'[u].value = <<"result", PairAt(u)'>>
      <3>1. \A u \in ReadySet : /\ u \in Slots \ {t}
                                /\ entries[u].value = <<"result", PairAt(u)>>
        BY <1>3, <1>5 DEF TasksFit
      <3>2. entries'[t].value = <<"result", PairAt(t)'>>
        BY <1>3
      <3> QED
        BY <1>3, <1>6, <3>1, <3>2
    <2>4. /\ \A u \in InUse' : PairAt(u)' \in 1 .. case'.length
          /\ \A u, w \in InUse' : PairAt(u)' = PairAt(w)' => u = w
      BY <1>3, <1>5, <1>7 DEF TasksFit
    <2>5. \A u \in ReadySet' : PairAt(u)' \in Taken' => u = ready'[1]
      <3>1. \A u \in ReadySet : /\ u \in Slots /\ ready # <<>>
                                /\ PairAt(u) \in Taken => u = ready[1]
        <4>1. ReadySet # {} => ready # <<>>
          BY DEF ReadySet
        <4> QED
          BY <1>5, <4>1 DEF TasksFit
      <3> QED
        BY <1>3, <1>6, <3>1
    <2>6. \A u \in Out' \union Failed' : PairAt(u)' \notin Taken'
      <3>1. \A u \in Out \union Failed : u \in Slots /\ PairAt(u) \notin Taken
        BY <1>5 DEF TasksFit, InUse
      <3> QED
        BY <1>3, <3>1
    <2>7. Failed' # {} => last' = "error"
      BY <1>3, <1>4, <1>5 DEF TasksFit
    <2> QED
      BY <1>6, <2>1, <2>2, <2>3, <2>4, <2>5, <2>6, <2>7 DEF TasksFit
  <1>10. TakenFits'
    BY <1>4, <1>5 DEF TakenFits
  <1>11. ReachFits'
    <2>1. Reached' = Reached
      BY <1>1, <1>4, <1>8 DEF Reached
    <2>2. {PairAt(u)' : u \in InUse'} = {PairAt(u) : u \in InUse}
      BY <1>3, <1>5, <1>7
    <2>3. Known' = Known
      BY <1>3, <2>2 DEF Known
    <2> QED
      BY <1>4, <1>5, <2>1, <2>3 DEF ReachFits
  <1>12. WaitingFits'
    <2>1. CASE last = "error"
      BY <1>4, <1>5, <2>1 DEF WaitingFits
    <2>2. CASE last # "error"
      <3>1. IsFiniteSet(Calling)
        <4>1. IsFiniteSet(open)
          BY <1>5 DEF TasksFit
        <4> QED
          BY <4>1, FS_AddElement DEF Calling
      <3>2. Cardinality(Calling') = Cardinality(Calling) - 1 /\ Cardinality(Calling) \in Nat
        BY <1>3, <3>1, FS_RemoveElement, FS_CardinalityType
      <3>3. Len(ready) \in Nat
        BY <1>5 DEF Types
      <3> QED
        BY <1>4, <1>5, <1>6, <2>2, <3>2, <3>3 DEF WaitingFits
    <2> QED
      BY <2>1, <2>2
  <1>13. FetchedFits' /\ AnswerFits'
    <2>1. Top'[1] \notin Fetch \union {"entry"}
      BY <1>8 DEF Fetch
    <2> QED
      BY <2>1, OtherFits
  <1>14. DiffusedHeld' = DiffusedHeld \union {p}
    <2>1. DiffusedHeld = ({PairAt(u) : u \in ReadySet} \ Taken) \union {PairAt(u) : u \in Failed}
      BY DEF DiffusedHeld, PairAt, ReadySet, Taken, Failed
    <2>2. DiffusedHeld' = ({PairAt(u)' : u \in ReadySet'} \ Taken') \union {PairAt(u)' : u \in Failed'}
      BY DEF DiffusedHeld, PairAt, ReadySet, Taken, Failed
    <2>3. {PairAt(u)' : u \in ReadySet'} = {PairAt(u) : u \in ReadySet} \union {p}
      BY <1>3, <1>5, <1>6
    <2>4. \A u \in Failed : u \in Slots
      BY DEF Failed
    <2>5. {PairAt(u)' : u \in Failed'} = {PairAt(u) : u \in Failed}
      BY <1>3, <2>4
    <2> QED
      BY <1>3, <2>1, <2>2, <2>3, <2>5
  <1>15. Across => Piped
    BY <1>3, <1>4, <1>14, DiffusedReturns
  <1> QED
    BY <1>8, <1>9, <1>10, <1>11, <1>12, <1>13, <1>15, StepGoes

LEMMA DiffusedEntryGoes ==
  ASSUME Diff, DiffusedEntry
  PROVE  DiffusedGoes
  BY AnswerFails, AnswerResults DEF DiffusedEntry

------------------------------------------------------------------------------
(* diffused: the handlers of the consumer.                                   *)

LEMMA SecondElement ==
  ASSUME NEW S, NEW s \in Seq(S), NEW x \in S, s # <<>>, Injective(s), x \notin Elements(s)
  PROVE  /\ Injective(<<s[1], x>> \o Tail(s))
         /\ Elements(<<s[1], x>> \o Tail(s)) = Elements(s) \union {x}
  <1> DEFINE t == <<s[1], x>> \o Tail(s)
  <1>1. /\ Len(s) \in Nat \ {0} /\ DOMAIN s = 1 .. Len(s) /\ s[1] \in S
        /\ Tail(s) \in Seq(S) /\ Len(Tail(s)) = Len(s) - 1
        /\ \A i \in 1 .. Len(s) - 1 : Tail(s)[i] = s[i + 1]
    OBVIOUS
  <1>2. /\ t \in Seq(S) /\ Len(t) = Len(s) + 1
        /\ t[1] = s[1] /\ t[2] = x /\ \A i \in 3 .. Len(s) + 1 : t[i] = Tail(s)[i - 2]
    BY <1>1
  <1>3. DOMAIN t = 1 .. Len(s) + 1 /\ \A i \in 3 .. Len(s) + 1 : t[i] = s[i - 1]
    <2>1. ASSUME NEW i \in 3 .. Len(s) + 1
          PROVE  t[i] = s[i - 1]
      <3>1. i - 2 \in 1 .. Len(s) - 1 /\ i - 2 + 1 = i - 1
        BY <1>1
      <3>2. Tail(s)[i - 2] = s[i - 2 + 1]
        BY <1>1, <3>1
      <3> QED
        BY <1>2, <3>1, <3>2
    <2>2. DOMAIN t = 1 .. Len(t)
      BY <1>2
    <2> QED
      BY <1>2, <2>1, <2>2
  <1> HIDE DEF t
  <1> DEFINE from(i) == IF i = 1 THEN 1 ELSE i - 1
  <1>4. \A i \in DOMAIN t : i # 2 => from(i) \in DOMAIN s /\ t[i] = s[from(i)]
    BY <1>1, <1>2, <1>3
  <1>5. \A i, j \in DOMAIN t : i # 2 /\ j # 2 /\ from(i) = from(j) => i = j
    BY <1>1, <1>3
  <1>6. \A k \in DOMAIN s : \E i \in DOMAIN t : i # 2 /\ t[i] = s[k]
    <2>1. ASSUME NEW k \in DOMAIN s
          PROVE  \E i \in DOMAIN t : i # 2 /\ t[i] = s[k]
      <3>1. CASE k = 1
        <4>1. 1 \in DOMAIN t /\ 1 # 2 /\ t[1] = s[k]
          BY <1>1, <1>2, <1>3, <3>1
        <4> QED
          BY <4>1
      <3>2. CASE k # 1
        <4>1. k + 1 \in 3 .. Len(s) + 1 /\ k + 1 - 1 = k
          BY <1>1, <3>2
        <4>2. t[k + 1] = s[k] /\ k + 1 \in DOMAIN t /\ k + 1 # 2
          BY <1>1, <1>3, <4>1
        <4> QED
          BY <4>2
      <3> QED
        BY <3>1, <3>2
    <2> QED
      BY <2>1
  <1>7. 2 \in DOMAIN t /\ t[2] = x /\ \A k \in DOMAIN s : s[k] # x
    <2>1. 2 \in DOMAIN t
      BY <1>1, <1>3
    <2> QED
      BY <1>2, <2>1 DEF Elements
  <1> HIDE DEF from
  <1>8. Injective(t)
    <2>1. ASSUME NEW i \in DOMAIN t, NEW j \in DOMAIN t, t[i] = t[j]
          PROVE  i = j
      <3>1. CASE i = 2 /\ j = 2
        BY <3>1
      <3>2. CASE i # 2 /\ j # 2
        <4>1. s[from(i)] = s[from(j)] /\ from(i) \in DOMAIN s /\ from(j) \in DOMAIN s
          BY <1>4, <2>1, <3>2
        <4>2. from(i) = from(j)
          BY <4>1 DEF Injective
        <4> QED
          BY <1>5, <3>2, <4>2
      <3>3. CASE i = 2 /\ j # 2
        BY <1>4, <1>7, <2>1, <3>3
      <3>4. CASE i # 2 /\ j = 2
        BY <1>4, <1>7, <2>1, <3>4
      <3> QED
        BY <3>1, <3>2, <3>3, <3>4
    <2> QED
      BY <2>1 DEF Injective
  <1>9. Elements(t) = Elements(s) \union {x}
    <2>1. ASSUME NEW y \in Elements(t)
          PROVE  y \in Elements(s) \union {x}
      <3>1. PICK i \in DOMAIN t : y = t[i]
        BY DEF Elements
      <3> QED
        BY <1>4, <1>7, <3>1 DEF Elements
    <2>2. ASSUME NEW y \in Elements(s)
          PROVE  y \in Elements(t)
      <3>1. PICK k \in DOMAIN s : y = s[k]
        BY DEF Elements
      <3> QED
        BY <1>6, <3>1 DEF Elements
    <2>3. x \in Elements(t)
      BY <1>7 DEF Elements
    <2> QED
      BY <2>1, <2>2, <2>3
  <1> QED
    BY <1>8, <1>9 DEF t

\* The first of the results has been read and is dropped.
LEMMA NextDrops ==
  ASSUME Diff, stack # <<>>, Top[1] = "next", Top'[1] # "entry", NEW r, r = ready[1],
         waiting > 0, waiting' = waiting - 1, ready' = Tail(ready), last' = last,
         entries' = entries, open' = open, given' = given,
         Injective(free)', FreeSet' \subseteq FreeSet \union {r}
  PROVE  /\ TasksFit' /\ TakenFits' /\ WaitingFits' /\ Fresh' /\ last # "error" /\ Failed = {}
         /\ Calling' = Calling /\ IsFiniteSet(Calling) /\ Failed' = Failed
         /\ waiting = Cardinality(Calling) + Len(ready)
         /\ Len(ready') = Len(ready) - 1 /\ Len(ready) \in Nat \ {0}
         /\ Called' = Called /\ DiffusedHeld' = DiffusedHeld /\ Known' = Known /\ Taken' = Taken
  <1>1. /\ TasksFit /\ TakenFits /\ WaitingFits /\ ReaderFits /\ Types /\ case' = case
    BY DiffIs
  <1>2. ready # <<>> /\ PairAt(r) \in Taken
    BY <1>1 DEF ReaderFits
  <1>3. last # "error" /\ Failed = {} /\ waiting = Cardinality(Calling) + Len(ready)
    BY <1>1 DEF WaitingFits, TasksFit
  <1>4. Calling' = Calling /\ IsFiniteSet(Calling)
    <2>1. Calling' = Calling
      BY CallingSame
    <2> QED
      BY <1>1, <2>1 DEF Calling, TasksFit
  <1>5. Failed' = Failed /\ Taken' = Taken /\ \A t : PairAt(t)' = PairAt(t)
    BY EntriesSame DEF Taken
  <1>6. /\ ReadySet' = ReadySet \ {r} /\ r \in ReadySet /\ Injective(ready)'
        /\ Len(ready') = Len(ready) - 1 /\ Len(ready) \in Nat \ {0}
    <2>1. ready \in Seq(Slots) /\ Injective(ready)
      BY <1>1 DEF Types, TasksFit
    <2>2. ReadySet = Elements(ready) /\ ReadySet' = Elements(ready')
      BY DEF ReadySet, Elements
    <2>3. /\ Injective(Tail(ready)) /\ Elements(Tail(ready)) = Elements(ready) \ {ready[1]}
          /\ Len(Tail(ready)) = Len(ready) - 1 /\ ready[1] \in Elements(ready)
      BY <1>2, <2>1, TailElements
    <2>4. Injective(ready)'
      BY <2>3 DEF Injective
    <2>5. Len(ready) \in Nat \ {0}
      BY <1>2, <2>1
    <2> QED
      BY <2>2, <2>3, <2>4, <2>5
  <1>7. Out' = Out /\ Called' = Called /\ r \notin Out
    BY <1>1, <1>4, <1>6 DEF Out, Called, TasksFit
  <1>8. InUse' = InUse \ {r} /\ r \in InUse
    BY <1>3, <1>5, <1>6, <1>7 DEF InUse
  <1>9. Known' = Known
    <2>1. Known' = {PairAt(t)' : t \in InUse'} \union Taken'
      BY DEF Known
    <2>2. {PairAt(t)' : t \in InUse'} = {PairAt(t) : t \in InUse \ {r}}
      BY <1>5, <1>8
    <2>3. {PairAt(t) : t \in InUse} = {PairAt(t) : t \in InUse \ {r}} \union {PairAt(r)}
      BY <1>8
    <2> QED
      BY <1>2, <1>5, <2>1, <2>2, <2>3 DEF Known
  <1>10. DiffusedHeld' = DiffusedHeld
    <2>1. DiffusedHeld = ({PairAt(u) : u \in ReadySet} \ Taken) \union {PairAt(u) : u \in Failed}
      BY DEF DiffusedHeld, PairAt, ReadySet, Taken, Failed
    <2>2. DiffusedHeld' = ({PairAt(u)' : u \in ReadySet'} \ Taken') \union {PairAt(u)' : u \in Failed'}
      BY DEF DiffusedHeld, PairAt, ReadySet, Taken, Failed
    <2>3. {PairAt(u)' : u \in ReadySet'} = {PairAt(u) : u \in ReadySet \ {r}}
      BY <1>5, <1>6
    <2>4. {PairAt(u) : u \in ReadySet} = {PairAt(u) : u \in ReadySet \ {r}} \union {PairAt(r)}
      BY <1>6
    <2>5. {PairAt(u)' : u \in Failed'} = {PairAt(u) : u \in Failed}
      BY <1>5
    <2> QED
      BY <1>2, <1>5, <2>1, <2>2, <2>3, <2>4, <2>5
  <1>11. Fresh'
    <2>1. \A t \in ReadySet : PairAt(t) \in Taken => t = r
      BY <1>1 DEF TasksFit
    <2> QED
      BY <1>5, <1>6, <2>1 DEF Fresh
  <1>12. TasksFit'
    <2>1. /\ FreeSet' \intersect InUse' = {}
          /\ ReadySet' \intersect (Out' \union Failed') = {} /\ Out' \intersect Failed' = {}
          /\ IsFiniteSet(open')
      BY <1>1, <1>5, <1>6, <1>7, <1>8 DEF TasksFit
    <2>2. \A c \in Calling' : c[2] = PairAt(c[1])'
      BY <1>1, <1>4, <1>5 DEF TasksFit
    <2>3. \A u \in ReadySet' : entries'[u].value = <<"result", PairAt(u)'>>
      BY <1>1, <1>5, <1>6 DEF TasksFit
    <2>4. /\ \A u \in InUse' : PairAt(u)' \in 1 .. case'.length
          /\ \A u, w \in InUse' : PairAt(u)' = PairAt(w)' => u = w
      BY <1>1, <1>5, <1>8 DEF TasksFit
    <2>5. \A u \in ReadySet' : PairAt(u)' \in Taken' => u = ready'[1]
      BY <1>11 DEF Fresh
    <2>6. \A u \in Out' \union Failed' : PairAt(u)' \notin Taken'
      BY <1>1, <1>5, <1>7 DEF TasksFit
    <2>7. Failed' # {} => last' = "error"
      BY <1>3, <1>5
    <2> QED
      BY <1>6, <2>1, <2>2, <2>3, <2>4, <2>5, <2>6, <2>7 DEF TasksFit
  <1>13. TakenFits'
    BY <1>1 DEF TakenFits
  <1>14. WaitingFits'
    <2>1. Cardinality(Calling) \in Nat
      BY <1>4, FS_CardinalityType
    <2> QED
      BY <1>3, <1>4, <1>6, <2>1 DEF WaitingFits
  <1> QED
    BY <1>3, <1>4, <1>5, <1>6, <1>7, <1>9, <1>10, <1>11, <1>12, <1>13, <1>14

LEMMA GivesOnto ==
  ASSUME Whole, stack # <<>>, Gives
  PROVE  \E f \in Frames \union {Nothing} :
           /\ Onto(f, Nothing)
           /\ \/ ready' # <<>> /\ f = <<"consumer", "state">> /\ caller' = caller
              \/ f = Nothing /\ caller' = TRUE
  <1>1. CASE ready' # <<>>
    <2>1. PICK f \in Frames : f = <<"consumer", "state">>
      BY DEF Frames, Outcomes
    <2>2. Continue(f, Tail(stack)) /\ caller' = caller
      BY <1>1, <2>1 DEF Gives
    <2>3. Onto(f, Nothing)
      BY <2>2, OntoOne
    <2> QED
      BY <1>1, <2>1, <2>2, <2>3
  <1>2. CASE ready' = <<>>
    <2>1. Returns /\ caller' = TRUE
      BY <1>2 DEF Gives
    <2> QED
      BY <2>1, OntoNone
  <1> QED
    BY <1>1, <1>2

\* The consumer's handler is over: the consumer is called, or nobody.
LEMMA ReaderServed ==
  ASSUME Diff, stack # <<>>, Top[1] \in {"next", "fetched"}, NEW f \in Frames \union {Nothing},
         Onto(f, Nothing), idle' = idle, final' = final, Fresh',
         \/ f[1] = "consumer" /\ caller' = caller
         \/ f = Nothing /\ caller' = TRUE,
         f[1] = "consumer" =>
           \/ f[2] = "state" /\ ready' # <<>>
           \/ f[2] = "nil" /\ Taken' = 1 .. case.length
           \/ f[2] = "error"
  PROVE  /\ OnlyWaits(Below') /\ ReaderFits'
         /\ Top'[1] \in {"consumer", "nothing", "rest", "fetched"}
  <1>1. Whole /\ ReaderFits /\ Types /\ Top \in Frames \union {Nothing}
    BY DiffIs
  <1>2. /\ Nothing \in Frames \union {Nothing} /\ Nothing[1] = "nothing"
        /\ f[1] \in {"consumer", "nothing"} /\ Top # Nothing
    BY DEF Nothing
  <1>3. caller = FALSE /\ idle = FALSE
    <2>1. Count(Serving) \in Nat /\ Count(Serving) >= 1
      BY <1>1, <1>2, CountTop DEF Serving
    <2>2. /\ Count(Serving) + Tok(caller) + Tok(idle) + Tok(final # "none") <= 1
          /\ caller \in BOOLEAN /\ idle \in BOOLEAN
      BY <1>1 DEF ReaderFits
    <2>3. /\ Tok(caller) \in {0, 1} /\ Tok(idle) \in {0, 1} /\ Tok(final # "none") \in {0, 1}
      BY DEF Tok
    <2>4. Tok(caller) = 0 /\ Tok(idle) = 0
      BY <2>1, <2>2, <2>3
    <2> QED
      BY <2>2, <2>4 DEF Tok
  <1>4. /\ OnlyWaits(Below') /\ (Top' = f \/ Top'[1] \in {"rest", "fetched"})
    BY <1>1, <1>2, OntoIs
  <1>5. caller' \in BOOLEAN /\ idle' = FALSE /\ idle' \in BOOLEAN
    BY <1>3
  <1>6. One(f, Serving) + One(Nothing, Serving) + Tok(caller') + Tok(idle') + Tok(final' # "none")
          <= One(Top, Serving) + Tok(caller) + Tok(idle) + Tok(final # "none")
    <2>1. One(Top, Serving) = 1 /\ One(Nothing, Serving) = 0
      BY <1>2 DEF One, Serving
    <2>2. One(f, Serving) + Tok(caller') <= 1 /\ One(f, Serving) \in {0, 1} /\ Tok(caller') \in {0, 1}
      BY <1>2, <1>3 DEF One, Serving, Tok
    <2>3. Tok(idle) = 0 /\ Tok(idle') = 0 /\ Tok(caller) = 0 /\ Tok(final # "none") \in {0, 1}
      BY <1>3, <1>5 DEF Tok
    <2>4. Tok(final' # "none") = Tok(final # "none")
      OBVIOUS
    <2> QED
      BY ONLY <2>1, <2>2, <2>3, <2>4
  <1>7. idle' \/ f[1] = "next" => ready' # <<>> /\ PairAt(ready[1])' \in Taken'
    BY <1>2, <1>5
  <1>8. ReaderFits'
    BY <1>2, <1>5, <1>6, <1>7, ReaderMoves
  <1> QED
    BY <1>2, <1>4, <1>8

LEMMA DiffusedFetchedGoes ==
  ASSUME Diff, DiffusedFetched
  PROVE  DiffusedGoes
  <1>1. stack # <<>> /\ Top[1] = "fetched" /\ Top # Nothing
    BY TopRuns DEF DiffusedFetched, Nothing
  <1>2. /\ ready' = ready /\ Gives /\ position' = position /\ entries' = entries /\ open' = open
        /\ given' = given /\ idle' = idle /\ final' = final /\ free' = free
        /\ waiting' = waiting /\ last' = last
    BY DEF DiffusedFetched
  <1>3. /\ TasksFit /\ ReachFits /\ WaitingFits /\ ReaderFits /\ case' = case /\ Whole
    BY DiffIs
  <1>4. Failed' = Failed /\ Taken' = Taken /\ ReadySet' = ReadySet /\ \A t : PairAt(t)' = PairAt(t)
    BY <1>2, EntriesSame DEF Taken, ReadySet
  <1>5. Fresh'
    <2>1. Count({"fetched"}) \in Nat /\ Count({"fetched"}) >= 1
      BY <1>1, <1>3, CountTop
    <2>2. Fresh
      BY <1>3, <2>1 DEF ReaderFits
    <2> QED
      BY <1>4, <2>2 DEF Fresh
  <1>6. PICK f \in Frames \union {Nothing} :
          /\ Onto(f, Nothing)
          /\ \/ ready' # <<>> /\ f = <<"consumer", "state">> /\ caller' = caller
             \/ f = Nothing /\ caller' = TRUE
    BY <1>1, <1>2, <1>3, GivesOnto
  <1>7. f[1] = "consumer" => f[2] = "state" /\ ready' # <<>>
    BY <1>6 DEF Nothing
  <1>8. \/ f[1] = "consumer" /\ caller' = caller
        \/ f = Nothing /\ caller' = TRUE
    BY <1>6
  <1>9. /\ OnlyWaits(Below') /\ ReaderFits'
        /\ Top'[1] \in {"consumer", "nothing", "rest", "fetched"}
    BY <1>1, <1>2, <1>5, <1>6, <1>7, <1>8, ReaderServed
  <1>10. Calling' = Calling /\ IsFiniteSet(open')
    BY <1>1, <1>2, <1>3, <1>9, CallingSame DEF TasksFit
  <1>11. TasksFit' /\ TakenFits' /\ Called' = Called /\ DiffusedHeld' = DiffusedHeld /\ Known' = Known
    BY <1>2, <1>4, <1>10, TasksSame
  <1>12. ReachFits' /\ WaitingFits'
    <2>1. Reached' = Reached
      BY <1>1, <1>2, <1>9 DEF Reached
    <2> QED
      BY <1>2, <1>3, <1>10, <1>11, <2>1 DEF ReachFits, WaitingFits
  <1>13. FetchedFits' /\ AnswerFits'
    <2>1. Top'[1] \notin Fetch \union {"entry"}
      BY <1>9 DEF Fetch
    <2> QED
      BY <2>1, OtherFits
  <1> QED
    BY <1>2, <1>9, <1>11, <1>12, <1>13, DiffusedQuietGoes

LEMMA WaitingNat ==
  ASSUME Types, TasksFit, AnswerFits, WaitingFits
  PROVE  waiting \in Nat
  <1>1. IsFiniteSet(Calling)
    <2>1. IsFiniteSet(open)
      BY DEF TasksFit
    <2> QED
      BY <2>1, FS_AddElement DEF Calling
  <1>2. Cardinality(Calling) \in Nat
    BY <1>1, FS_CardinalityType
  <1>3. Len(ready) \in Nat
    BY DEF Types
  <1> QED
    BY <1>2, <1>3 DEF WaitingFits

\* The consumer has had every result, or an error.
LEMMA NextEnds ==
  ASSUME Diff, DiffusedNext, waiting <= 0
  PROVE  DiffusedGoes
  <1>1. stack # <<>> /\ Top[1] = "next"
    BY TopRuns DEF DiffusedNext
  <1>2. /\ Types /\ TasksFit /\ ReachFits /\ WaitingFits /\ ReaderFits /\ case' = case /\ Whole
    BY DiffIs
  <1>3. /\ Continue(<<"consumer", last>>, Tail(stack)) /\ position' = position
        /\ caller' = caller /\ free' = free /\ ready' = ready /\ waiting' = waiting /\ last' = last
        /\ entries' = entries /\ open' = open /\ given' = given /\ idle' = idle /\ final' = final
    <2>1. ~ (waiting > 0)
      BY DiffIs, WaitingNat
    <2>2. /\ Continue(<<"consumer", last>>, Tail(stack))
          /\ UNCHANGED <<position, asked, caller, lists>>
      BY <2>1 DEF DiffusedNext
    <2>3. /\ entries' = entries /\ open' = open /\ given' = given /\ idle' = idle /\ final' = final
      BY DEF DiffusedNext
    <2> QED
      BY <2>2, <2>3 DEF lists
  <1>4. ready # <<>> /\ last = "error"
    <2>1. ready # <<>> /\ Len(ready) \in Nat \ {0}
      BY <1>1, <1>2 DEF ReaderFits, Types
    <2>2. IsFiniteSet(Calling)
      BY <1>1, <1>2 DEF TasksFit, Calling
    <2>3. Cardinality(Calling) \in Nat
      BY <2>2, FS_CardinalityType
    <2> QED
      BY <1>2, <2>1, <2>3 DEF WaitingFits
  <1>5. PICK f \in Frames : f = <<"consumer", "error">>
    BY DEF Frames, Outcomes
  <1>6. Onto(f, Nothing) /\ f \in Frames \union {Nothing} /\ f # Nothing
        /\ f[1] = "consumer" /\ f[2] = "error"
    BY <1>1, <1>2, <1>3, <1>4, <1>5, OntoOne DEF Nothing
  <1>7. Top' = f /\ OnlyWaits(Below') /\ Top'[1] = "consumer"
    BY <1>6 DEF Onto
  <1>8. Failed' = Failed /\ Taken' = Taken /\ ReadySet' = ReadySet /\ \A t : PairAt(t)' = PairAt(t)
    BY <1>3, EntriesSame DEF Taken, ReadySet
  <1>9. ReaderFits'
    <2>1. /\ Count({"fetched"}) = 0 /\ caller = FALSE /\ idle = FALSE /\ final = "none"
      BY <1>1, <1>2, ServingTop
    <2>2. Nothing \in Frames \union {Nothing} /\ Nothing[1] = "nothing"
      BY DEF Nothing
    <2>3. Count({"fetched"})' = 0
      <3>1. One(f, {"fetched"}) = 0 /\ One(Nothing, {"fetched"}) = 0 /\ One(Top, {"fetched"}) = 0
        BY <1>1, <1>6, <2>2 DEF One
      <3> QED
        BY <1>2, <1>6, <2>1, <2>2, <3>1, OntoIs
    <2>4. One(f, Serving) + One(Nothing, Serving) + Tok(caller') + Tok(idle') + Tok(final' # "none")
            <= One(Top, Serving) + Tok(caller) + Tok(idle) + Tok(final # "none")
      BY <1>1, <1>3, <1>6, <2>1, <2>2 DEF One, Serving, Tok
    <2>5. /\ caller' \in BOOLEAN /\ idle' \in BOOLEAN /\ idle' = FALSE /\ f[1] # "next"
      BY <1>3, <1>6, <2>1
    <2> QED
      BY <1>6, <2>2, <2>3, <2>4, <2>5, ReaderMoves
  <1>10. Calling' = Calling /\ IsFiniteSet(open')
    BY <1>1, <1>2, <1>3, <1>7, CallingSame DEF TasksFit
  <1>11. TasksFit' /\ TakenFits' /\ Called' = Called /\ DiffusedHeld' = DiffusedHeld /\ Known' = Known
    BY <1>3, <1>8, <1>10, TasksSame
  <1>12. ReachFits' /\ WaitingFits'
    BY <1>2, <1>3, <1>4, <1>10, <1>11 DEF ReachFits, WaitingFits
  <1>13. FetchedFits' /\ AnswerFits'
    <2>1. Top'[1] \notin Fetch \union {"entry"}
      BY <1>7 DEF Fetch
    <2> QED
      BY <2>1, OtherFits
  <1> QED
    BY <1>3, <1>7, <1>9, <1>11, <1>12, <1>13, DiffusedQuietGoes

\* No pair is left: each of them has been read.
LEMMA NoneLeft ==
  ASSUME Diff, stack # <<>>, Top[1] = "next", Top'[1] # "entry", last = "nil",
         waiting > 0, waiting' = waiting - 1, waiting' <= 0, ready' = Tail(ready), last' = last,
         entries' = entries, open' = open, given' = given,
         Injective(free)', FreeSet' \subseteq FreeSet \union {ready[1]}
  PROVE  Taken' = 1 .. case.length
  <1>1. PICK r : r = ready[1]
    OBVIOUS
  <1>2. /\ Failed = {} /\ Calling' = Calling /\ IsFiniteSet(Calling) /\ Failed' = Failed
        /\ waiting = Cardinality(Calling) + Len(ready)
        /\ Len(ready') = Len(ready) - 1 /\ Len(ready) \in Nat \ {0} /\ Known' = Known
    BY <1>1, NextDrops
  <1>3. Known = 1 .. case.length
    BY DiffIs DEF ReachFits
  <1>4. Cardinality(Calling) \in Nat
    BY <1>2, FS_CardinalityType
  <1>5. Cardinality(Calling) = 0 /\ Len(ready') = 0
    BY <1>2, <1>4
  <1>6. Calling' = {} /\ ReadySet' = {}
    <2>1. ready' \in Seq(Slots)
      BY DiffIs DEF Types
    <2>2. DOMAIN ready' = {}
      BY <1>5, <2>1
    <2> QED
      BY <1>2, <1>5, <2>2, FS_EmptySet DEF ReadySet
  <1>7. InUse' = {}
    BY <1>2, <1>6 DEF InUse, Out
  <1> QED
    BY <1>2, <1>3, <1>7 DEF Known

\* The consumer is given the next result, or waits for it, or gets the end.
LEMMA NextGives ==
  ASSUME Diff, stack # <<>>, Top[1] = "next",
         waiting > 0, waiting' = waiting - 1, ready' = Tail(ready), last' = last,
         entries' = entries, open' = open, given' = given, position' = position,
         idle' = idle, final' = final,
         Injective(free)', FreeSet' \subseteq FreeSet \union {ready[1]},
         \/ Gives
         \/ /\ waiting' <= 0 /\ last # "none" /\ caller' = caller
            /\ Continue(<<"consumer", last>>, Tail(stack))
  PROVE  DiffusedGoes
  <1>1. /\ Whole /\ ReachFits /\ WaitingFits /\ Types /\ case' = case
    BY DiffIs
  <1>2. last # "error"
    BY <1>1 DEF WaitingFits
  <1>3. PICK f \in Frames \union {Nothing} :
          /\ Onto(f, Nothing)
          /\ \/ /\ f = <<"consumer", "state">> /\ ready' # <<>> /\ caller' = caller
             \/ f = Nothing /\ caller' = TRUE
             \/ /\ f = <<"consumer", "nil">> /\ waiting' <= 0 /\ last = "nil" /\ caller' = caller
    <2>1. CASE Gives
      BY <1>1, <2>1, GivesOnto
    <2>2. CASE /\ waiting' <= 0 /\ last # "none" /\ caller' = caller
               /\ Continue(<<"consumer", last>>, Tail(stack))
      <3>1. last = "nil"
        BY <1>1, <1>2, <2>2 DEF Types
      <3>2. PICK f \in Frames : f = <<"consumer", "nil">>
        BY DEF Frames, Outcomes
      <3>3. Onto(f, Nothing)
        BY <1>1, <2>2, <3>1, <3>2, OntoOne
      <3> QED
        BY <2>2, <3>1, <3>2, <3>3
    <2> QED
      BY <2>1, <2>2
  <1>4. /\ f[1] \in {"consumer", "nothing"} /\ Nothing \in Frames \union {Nothing}
        /\ f[1] = "consumer" =>
             \/ f[2] = "state" /\ ready' # <<>>
             \/ f[2] = "nil" /\ waiting' <= 0 /\ last = "nil"
    BY <1>3 DEF Nothing
  <1>5. \/ f[1] = "consumer" /\ caller' = caller
        \/ f = Nothing /\ caller' = TRUE
    BY <1>3
  <1>6. Top'[1] # "entry"
    BY <1>1, <1>3, <1>4, OntoIs
  <1>7. PICK r : r = ready[1]
    OBVIOUS
  <1>8. /\ TasksFit' /\ TakenFits' /\ WaitingFits' /\ Fresh'
        /\ Called' = Called /\ DiffusedHeld' = DiffusedHeld /\ Known' = Known
    BY <1>6, <1>7, NextDrops
  <1>9. f[1] = "consumer" => \/ f[2] = "state" /\ ready' # <<>>
                             \/ f[2] = "nil" /\ Taken' = 1 .. case.length
                             \/ f[2] = "error"
    BY <1>4, <1>6, NoneLeft
  <1>10. /\ OnlyWaits(Below') /\ ReaderFits'
         /\ Top'[1] \in {"consumer", "nothing", "rest", "fetched"}
    BY <1>3, <1>5, <1>8, <1>9, ReaderServed
  <1>11. ReachFits'
    <2>1. Reached' = Reached
      BY <1>10 DEF Reached
    <2> QED
      BY <1>1, <1>8, <2>1 DEF ReachFits
  <1>12. FetchedFits' /\ AnswerFits'
    <2>1. Top'[1] \notin Fetch \union {"entry"}
      BY <1>10 DEF Fetch
    <2> QED
      BY <2>1, OtherFits
  <1> QED
    BY <1>8, <1>10, <1>11, <1>12, DiffusedQuietGoes

\* The task of the first result is the only free one: the next pair is fetched.
LEMMA NextFetches ==
  ASSUME Diff, stack # <<>>, Top[1] = "next", last = "none",
         waiting > 0, waiting' = waiting - 1, ready' = Tail(ready), last' = last,
         entries' = entries, open' = open, given' = given, caller' = caller,
         idle' = idle, final' = final,
         Injective(free)', FreeSet' \subseteq FreeSet \union {ready[1]},
         AskIter(<< <<"fetched", 0>> >> \o Tail(stack))
  PROVE  DiffusedGoes
  <1>1. /\ Whole /\ ReachFits /\ ReaderFits /\ case' = case
    BY DiffIs
  <1>2. Reached = position /\ position \in 0 .. case.length
    BY <1>1 DEF ReachFits, Reached
  <1>3. PICK g \in {Nothing, <<"fetched", 0>>} : g = <<"fetched", 0>>
    OBVIOUS
  <1>4. /\ \E f \in Frames : Onto(f, g) /\ f[1] = "iterate" /\ Top' = f
        /\ Top'[1] = "iterate" /\ OnlyWaits(Below')
        /\ FetchedFits' /\ AnswerFits' /\ Reached' = position
    BY <1>2, <1>3, AsksIter
  <1>5. PICK f \in Frames : Onto(f, g) /\ f[1] = "iterate" /\ Top' = f
    BY <1>4
  <1>6. PICK r : r = ready[1]
    OBVIOUS
  <1>7. /\ TasksFit' /\ TakenFits' /\ WaitingFits' /\ Fresh'
        /\ Called' = Called /\ DiffusedHeld' = DiffusedHeld /\ Known' = Known
    BY <1>4, <1>6, NextDrops
  <1>8. ReaderFits'
    <2>1. f \in Frames \union {Nothing} /\ g \in Frames \union {Nothing} /\ g[1] = "fetched"
      BY <1>3 DEF Frames
    <2>2. /\ caller = FALSE /\ idle = FALSE /\ final = "none"
      BY <1>1, ServingTop
    <2>3. One(f, Serving) + One(g, Serving) + Tok(caller') + Tok(idle') + Tok(final' # "none")
            <= One(Top, Serving) + Tok(caller) + Tok(idle) + Tok(final # "none")
      BY <1>5, <2>1, <2>2 DEF One, Serving, Tok
    <2>4. /\ caller' \in BOOLEAN /\ idle' \in BOOLEAN /\ idle' = FALSE
          /\ f[1] \notin {"next", "consumer"}
      BY <1>5, <2>2
    <2> QED
      BY <1>5, <1>7, <2>1, <2>3, <2>4, ReaderMoves
  <1>9. ReachFits'
    BY <1>1, <1>2, <1>4, <1>7 DEF ReachFits
  <1> QED
    BY <1>4, <1>7, <1>8, <1>9, DiffusedQuietGoes

LEMMA DiffusedNextGoes ==
  ASSUME Diff, DiffusedNext
  PROVE  DiffusedGoes
  <1>1. stack # <<>> /\ Top[1] = "next"
    BY TopRuns DEF DiffusedNext
  <1>2. CASE waiting <= 0
    BY <1>2, NextEnds
  <1>3. CASE waiting > 0
    <2>1. /\ Types /\ TasksFit /\ ReaderFits /\ WaitingFits
      BY DiffIs
    <2>2. ready # <<>> /\ ready[1] \in ReadySet
      BY <1>1, <2>1, FirstReady DEF ReaderFits
    <2>3. ~ (waiting <= 0)
      BY <1>3, DiffIs, WaitingNat
    <2>4. /\ waiting' = waiting - 1 /\ ready' = Tail(ready) /\ last' = last
          /\ \/ /\ last # "none" /\ UNCHANGED <<position, asked, free>>
                /\ IF waiting' <= 0
                   THEN Continue(<<"consumer", last>>, Tail(stack)) /\ UNCHANGED caller
                   ELSE Gives
             \/ /\ last = "none" /\ free # <<>> /\ UNCHANGED <<position, asked>>
                /\ free' = <<free[1], ready[1]>> \o Tail(free)
                /\ Gives
             \/ /\ last = "none" /\ free = <<>> /\ free' = <<ready[1]>>
                /\ AskIter(<< <<"fetched", 0>> >> \o Tail(stack)) /\ UNCHANGED caller
      BY <2>2, <2>3 DEF DiffusedNext
    <2>5. /\ entries' = entries /\ open' = open /\ given' = given /\ idle' = idle /\ final' = final
      BY DEF DiffusedNext
    <2>6. /\ free \in Seq(Slots) /\ ready[1] \in Slots /\ Injective(free)
          /\ ready[1] \notin FreeSet
      BY <2>1, <2>2, DiffIs DEF Types, TasksFit, InUse
    <2>7. CASE /\ last # "none" /\ UNCHANGED <<position, asked, free>>
               /\ IF waiting' <= 0
                  THEN Continue(<<"consumer", last>>, Tail(stack)) /\ UNCHANGED caller
                  ELSE Gives
      <3>1. Injective(free)' /\ FreeSet' \subseteq FreeSet \union {ready[1]}
        BY <2>6, <2>7 DEF Injective, FreeSet
      <3>2. \/ Gives
            \/ /\ waiting' <= 0 /\ last # "none" /\ caller' = caller
               /\ Continue(<<"consumer", last>>, Tail(stack))
        BY <2>7
      <3> QED
        BY <1>1, <1>3, <2>4, <2>5, <2>7, <3>1, <3>2, NextGives
    <2>8. CASE /\ last = "none" /\ free # <<>> /\ UNCHANGED <<position, asked>>
               /\ free' = <<free[1], ready[1]>> \o Tail(free)
               /\ Gives
      <3>1. FreeSet = Elements(free) /\ FreeSet' = Elements(free')
        BY DEF FreeSet, Elements
      <3>2. /\ Injective(<<free[1], ready[1]>> \o Tail(free))
            /\ Elements(<<free[1], ready[1]>> \o Tail(free)) = Elements(free) \union {ready[1]}
        BY <2>6, <2>8, <3>1, SecondElement
      <3>3. Injective(free)' /\ FreeSet' \subseteq FreeSet \union {ready[1]}
        <4>1. Injective(free)'
          BY <2>8, <3>2 DEF Injective
        <4> QED
          BY <2>8, <3>1, <3>2, <4>1
      <3> QED
        BY <1>1, <1>3, <2>4, <2>5, <2>8, <3>3, NextGives
    <2>9. CASE /\ last = "none" /\ free = <<>> /\ free' = <<ready[1]>>
               /\ AskIter(<< <<"fetched", 0>> >> \o Tail(stack)) /\ UNCHANGED caller
      <3>1. DOMAIN free' = {1} /\ free'[1] = ready[1]
        BY <2>9
      <3>2. Injective(free)' /\ FreeSet' \subseteq FreeSet \union {ready[1]}
        BY <3>1 DEF Injective, FreeSet
      <3> QED
        BY <1>1, <1>3, <2>4, <2>5, <2>9, <3>2, NextFetches
    <2> QED
      BY <2>4, <2>7, <2>8, <2>9
  <1>4. waiting \in Nat
    BY DiffIs, WaitingNat
  <1> QED
    BY <1>2, <1>3, <1>4

\* The consumer reads a pair, and asks for the next one at once or later.
LEMMA ConsumerTakes ==
  ASSUME Diff, DiffusedConsumer, Arg = "state"
  PROVE  DiffusedGoes
  <1>1. stack # <<>> /\ Top[1] = "consumer" /\ Top[2] = "state"
    BY TopRuns DEF DiffusedConsumer
  <1>2. /\ Types /\ TasksFit /\ TakenFits /\ ReachFits /\ WaitingFits /\ ReaderFits
        /\ case' = case /\ Whole /\ ReadySet \in SUBSET Slots
    BY DiffIs
  <1>3. /\ free' = free /\ ready' = ready /\ waiting' = waiting /\ last' = last
        /\ Take(entries[ready[1]])
    BY <1>1, TopRuns DEF DiffusedConsumer, lists
  <1>4. /\ given' = Append(given, entries[ready[1]]) /\ position' = position
        /\ entries' = entries /\ open' = open /\ caller' = caller
    BY <1>3 DEF Take
  <1>5. ready # <<>> /\ Fresh
    BY <1>1, <1>2 DEF ReaderFits
  <1>6. PICK r \in ReadySet : r = ready[1]
    BY <1>2, <1>5, FirstReady
  <1>7. PICK p : p = PairAt(r)
    OBVIOUS
  <1>8. PICK e \in [key : Nat, value : Outcomes \X Nat] : e = entries[ready[1]]
    <2>1. r \in Slots
      BY <1>2
    <2> QED
      BY <1>2, <1>6, <2>1 DEF Types
  <1>9. /\ e.value = <<"result", p>> /\ e.key = p /\ p \in 1 .. case.length /\ p \notin Taken
    BY <1>2, <1>5, <1>6, <1>7, <1>8 DEF TasksFit, InUse, Fresh, PairAt
  <1>10. e.value[1] = "result" /\ e.value[2] = p
    BY <1>9
  <1>11. /\ given' = Append(given, e) /\ final' = final
         /\ \/ idle' = FALSE /\ Calls(<<"next", 0>>, Tail(stack))
            \/ idle' = TRUE /\ Returns
    BY <1>3, <1>4, <1>8, <1>10 DEF Take
  <1>12. caller = FALSE /\ idle = FALSE /\ final = "none" /\ Count({"fetched"}) = 0
    BY <1>1, <1>2, ServingTop
  <1>13. PICK f \in Frames \union {Nothing} :
           /\ Onto(f, Nothing)
           /\ \/ f = <<"next", 0>> /\ idle' = FALSE
              \/ f = Nothing /\ idle' = TRUE
    <2>1. CASE idle' = FALSE /\ Calls(<<"next", 0>>, Tail(stack))
      <3>1. PICK f \in Frames : f = <<"next", 0>>
        BY DEF Frames
      <3> QED
        BY <1>1, <1>2, <2>1, <3>1, OntoOne
    <2>2. CASE idle' = TRUE /\ Returns
      BY <1>1, <1>2, <2>2, OntoNone
    <2> QED
      BY <1>11, <2>1, <2>2
  <1>14. /\ Nothing \in Frames \union {Nothing} /\ Nothing[1] = "nothing"
         /\ f[1] \in {"next", "nothing"}
    BY <1>13 DEF Nothing
  <1>15. /\ OnlyWaits(Below') /\ Top'[1] \in {"next", "nothing", "rest", "fetched"}
         /\ Count({"fetched"})' = 0
    <2>1. One(f, {"fetched"}) = 0 /\ One(Nothing, {"fetched"}) = 0 /\ One(Top, {"fetched"}) = 0
      BY <1>1, <1>14 DEF One
    <2> QED
      BY <1>2, <1>12, <1>13, <1>14, <2>1, OntoIs
  <1>16. Taken' = Taken \union {p}
    <2>1. given \in Seq([key : Nat, value : Outcomes \X Nat])
      BY <1>2 DEF TakenFits
    <2>2. /\ DOMAIN given' = 1 .. Len(given) + 1 /\ DOMAIN given = 1 .. Len(given)
          /\ Len(given) \in Nat /\ given'[Len(given) + 1] = e
          /\ \A i \in 1 .. Len(given) : given'[i] = given[i]
      BY <1>8, <1>11, <2>1
    <2>3. ASSUME NEW q \in Taken'
          PROVE  q \in Taken \union {p}
      <3>1. PICK i \in DOMAIN given' : q = given'[i].key
        BY DEF Taken
      <3>2. CASE i = Len(given) + 1
        BY <1>9, <2>2, <3>1, <3>2
      <3>3. CASE i \in 1 .. Len(given)
        BY <2>2, <3>1, <3>3 DEF Taken
      <3> QED
        BY <2>2, <3>2, <3>3
    <2>4. ASSUME NEW q \in Taken
          PROVE  q \in Taken'
      <3>1. PICK i \in DOMAIN given : q = given[i].key
        BY DEF Taken
      <3>2. i \in DOMAIN given' /\ given'[i] = given[i]
        BY <2>2
      <3> QED
        BY <3>1, <3>2 DEF Taken
    <2>5. p \in Taken'
      <3>1. Len(given) + 1 \in DOMAIN given'
        BY <2>2
      <3> QED
        BY <1>9, <2>2, <3>1 DEF Taken
    <2> QED
      BY <2>3, <2>4, <2>5
  <1>17. TakenFits'
    <2>1. given \in Seq([key : Nat, value : Outcomes \X Nat])
          /\ \A i \in DOMAIN given : given[i].key = given[i].value[2]
      BY <1>2 DEF TakenFits
    <2>2. /\ given' \in Seq([key : Nat, value : Outcomes \X Nat])
          /\ DOMAIN given' = 1 .. Len(given) + 1 /\ DOMAIN given = 1 .. Len(given)
          /\ Len(given) \in Nat /\ given'[Len(given) + 1] = e
          /\ \A i \in 1 .. Len(given) : given'[i] = given[i]
      BY <1>8, <1>11, <2>1
    <2>3. ASSUME NEW i \in DOMAIN given'
          PROVE  given'[i].key = given'[i].value[2]
      <3>1. CASE i = Len(given) + 1
        BY <1>9, <1>10, <2>2, <3>1
      <3>2. CASE i \in DOMAIN given
        BY <2>1, <2>2, <3>2
      <3> QED
        BY <2>2, <3>1, <3>2
    <2> QED
      BY <2>2, <2>3 DEF TakenFits
  <1>18. /\ Failed' = Failed /\ ReadySet' = ReadySet /\ FreeSet' = FreeSet
         /\ \A t : PairAt(t)' = PairAt(t)
    BY <1>3, <1>4, EntriesSame DEF ReadySet, FreeSet
  <1>19. Calling' = Calling /\ Out' = Out /\ InUse' = InUse /\ Called' = Called
    <2>1. Calling' = Calling
      BY <1>1, <1>4, <1>15, CallingSame
    <2> QED
      BY <1>18, <2>1 DEF Out, InUse, Called
  <1>20. ReaderFits'
    <2>1. One(f, Serving) + One(Nothing, Serving) + Tok(caller') + Tok(idle') + Tok(final' # "none")
            <= One(Top, Serving) + Tok(caller) + Tok(idle) + Tok(final # "none")
      <3>1. One(Top, Serving) = 1 /\ One(Nothing, Serving) = 0
        BY <1>1, <1>14 DEF One, Serving
      <3>2. One(f, Serving) + Tok(idle') = 1
        BY <1>13, <1>14 DEF One, Serving, Tok
      <3>3. Tok(caller') = Tok(caller) /\ Tok(final' # "none") = Tok(final # "none")
        BY <1>4, <1>11
      <3>4. Tok(idle) = 0 /\ Tok(caller) \in {0, 1} /\ Tok(final # "none") \in {0, 1}
            /\ One(f, Serving) \in {0, 1} /\ Tok(idle') \in {0, 1}
        BY <1>12 DEF Tok, One
      <3> QED
        BY ONLY <3>1, <3>2, <3>3, <3>4
    <2>2. /\ caller' \in BOOLEAN /\ idle' \in BOOLEAN
      BY <1>4, <1>12, <1>13
    <2>3. ready' # <<>> /\ PairAt(ready[1])' \in Taken'
      <3>1. PairAt(ready[1])' = p
        <4>1. ready'[1] = r /\ entries'[r].key = p
          BY <1>3, <1>4, <1>6, <1>7 DEF PairAt
        <4> QED
          BY <4>1 DEF PairAt
      <3> QED
        BY <1>3, <1>5, <1>16, <3>1
    <2>4. f[1] # "consumer"
      BY <1>14
    <2>5. Onto(f, Nothing)
      BY <1>13
    <2> QED
      BY <1>14, <1>15, <2>1, <2>2, <2>3, <2>4, <2>5, ReaderMoves
  <1>21. r \in InUse /\ \A t \in InUse : PairAt(t) = p => t = r
    BY <1>2, <1>6, <1>7 DEF TasksFit, InUse
  <1>22. TasksFit'
    <2>1. /\ Injective(free)' /\ Injective(ready)' /\ FreeSet' \intersect InUse' = {}
          /\ ReadySet' \intersect (Out' \union Failed') = {} /\ Out' \intersect Failed' = {}
          /\ IsFiniteSet(open')
      BY <1>2, <1>3, <1>4, <1>18, <1>19 DEF TasksFit, Injective
    <2>2. \A c \in Calling' : c[2] = PairAt(c[1])'
      BY <1>2, <1>18, <1>19 DEF TasksFit
    <2>3. \A u \in ReadySet' : entries'[u].value = <<"result", PairAt(u)'>>
      BY <1>2, <1>4, <1>18 DEF TasksFit
    <2>4. /\ \A u \in InUse' : PairAt(u)' \in 1 .. case'.length
          /\ \A u, w \in InUse' : PairAt(u)' = PairAt(w)' => u = w
      BY <1>2, <1>18, <1>19 DEF TasksFit
    <2>5. \A u \in ReadySet' : PairAt(u)' \in Taken' => u = ready'[1]
      BY <1>2, <1>3, <1>6, <1>16, <1>18, <1>21 DEF TasksFit, InUse
    <2>6. \A u \in Out' \union Failed' : PairAt(u)' \notin Taken'
      <3>1. \A u \in Out \union Failed : u \in InUse /\ u # r /\ PairAt(u) \notin Taken
        BY <1>2 DEF TasksFit, InUse
      <3> QED
        BY <1>16, <1>18, <1>19, <1>21, <3>1
    <2>7. Failed' # {} => last' = "error"
      BY <1>2, <1>3, <1>18 DEF TasksFit
    <2> QED
      BY <2>1, <2>2, <2>3, <2>4, <2>5, <2>6, <2>7 DEF TasksFit
  <1>23. ReachFits' /\ WaitingFits'
    <2>1. Reached' = Reached
      BY <1>1, <1>4, <1>15 DEF Reached
    <2>2. {PairAt(u)' : u \in InUse'} = {PairAt(u) : u \in InUse}
      BY <1>18, <1>19
    <2>3. p \in Known
      BY <1>7, <1>21 DEF Known
    <2>4. Known' = {PairAt(u)' : u \in InUse'} \union Taken'
      BY DEF Known
    <2>5. Known' = Known
      BY <1>16, <2>2, <2>3, <2>4 DEF Known
    <2> QED
      BY <1>2, <1>3, <1>19, <2>1, <2>5 DEF ReachFits, WaitingFits
  <1>24. FetchedFits' /\ AnswerFits'
    <2>1. Top'[1] \notin Fetch \union {"entry"}
      BY <1>15 DEF Fetch
    <2> QED
      BY <2>1, OtherFits
  <1>25. p \in DiffusedHeld /\ DiffusedHeld' = DiffusedHeld \ {p}
    <2>1. DiffusedHeld = ({PairAt(u) : u \in ReadySet} \ Taken) \union {PairAt(u) : u \in Failed}
      BY DEF DiffusedHeld, PairAt, ReadySet, Taken, Failed
    <2>2. DiffusedHeld' = ({PairAt(u)' : u \in ReadySet'} \ Taken') \union {PairAt(u)' : u \in Failed'}
      BY DEF DiffusedHeld, PairAt, ReadySet, Taken, Failed
    <2>3. \A u \in Failed : PairAt(u) # p
      BY <1>2, <1>21 DEF TasksFit, InUse
    <2>4. p \in {PairAt(u) : u \in ReadySet} \ Taken
      BY <1>6, <1>7, <1>9
    <2>5. {PairAt(u)' : u \in ReadySet'} = {PairAt(u) : u \in ReadySet}
      BY <1>18
    <2>6. {PairAt(u)' : u \in Failed'} = {PairAt(u) : u \in Failed}
      BY <1>18
    <2>7. DiffusedHeld' = ({PairAt(u) : u \in ReadySet} \ (Taken \union {p}))
                            \union {PairAt(u) : u \in Failed}
      BY <1>16, <2>2, <2>5, <2>6
    <2> QED
      BY <2>1, <2>3, <2>4, <2>7
  <1>26. Across => Piped
    BY <1>9, <1>11, <1>12, <1>19, <1>25, DiffusedGives
  <1> QED
    BY <1>15, <1>17, <1>20, <1>22, <1>23, <1>24, <1>26, StepGoes

LEMMA ConsumerEnds ==
  ASSUME Diff, DiffusedConsumer, Arg # "state"
  PROVE  DiffusedGoes
  <1>1. stack # <<>> /\ Top[1] = "consumer" /\ Top[2] = Arg
    BY TopRuns DEF DiffusedConsumer
  <1>2. /\ TasksFit /\ ReachFits /\ WaitingFits /\ ReaderFits /\ case' = case /\ Whole
    BY DiffIs
  <1>3. /\ free' = free /\ ready' = ready /\ waiting' = waiting /\ last' = last /\ Finish
    BY DEF DiffusedConsumer, lists
  <1>4. /\ final' = Arg /\ Returns /\ position' = position /\ entries' = entries /\ open' = open
        /\ caller' = caller /\ given' = given /\ idle' = idle
    BY <1>3 DEF Finish
  <1>5. Arg \in {"nil", "error"} /\ (Arg = "nil" => Taken = 1 .. case.length)
    BY <1>1, <1>2 DEF ReaderFits
  <1>6. caller = FALSE /\ idle = FALSE /\ final = "none" /\ Count({"fetched"}) = 0
    BY <1>1, <1>2, ServingTop
  <1>7. PICK f \in Frames \union {Nothing} : f = Nothing
    OBVIOUS
  <1>8. Onto(f, f) /\ f[1] = "nothing"
    BY <1>1, <1>2, <1>4, <1>7, OntoNone DEF Nothing
  <1>9. /\ OnlyWaits(Below') /\ Top'[1] \in {"nothing", "rest", "fetched"}
        /\ Count({"fetched"})' = 0
    <2>1. One(f, {"fetched"}) = 0 /\ One(Top, {"fetched"}) = 0
      BY <1>1, <1>8 DEF One
    <2> QED
      BY <1>2, <1>6, <1>8, <2>1, OntoIs
  <1>10. ReaderFits'
    <2>1. One(f, Serving) + One(f, Serving) + Tok(caller') + Tok(idle') + Tok(final' # "none")
            <= One(Top, Serving) + Tok(caller) + Tok(idle) + Tok(final # "none")
      <3>1. One(Top, Serving) = 1 /\ One(f, Serving) = 0
        BY <1>1, <1>8 DEF One, Serving
      <3>2. Tok(caller') = 0 /\ Tok(idle') = 0 /\ Tok(caller) = 0 /\ Tok(idle) = 0
        BY <1>4, <1>6 DEF Tok
      <3>3. Tok(final' # "none") \in {0, 1} /\ Tok(final # "none") = 0
        BY <1>6 DEF Tok
      <3> QED
        BY <3>1, <3>2, <3>3
    <2>2. caller' \in BOOLEAN /\ idle' \in BOOLEAN /\ idle' = FALSE
      BY <1>4, <1>6
    <2> QED
      BY <1>8, <1>9, <2>1, <2>2, ReaderMoves
  <1>11. Failed' = Failed /\ \A t : PairAt(t)' = PairAt(t)
    BY <1>4, EntriesSame
  <1>12. Calling' = Calling /\ IsFiniteSet(open')
    BY <1>1, <1>2, <1>4, <1>9, CallingSame DEF TasksFit
  <1>13. TasksFit' /\ TakenFits' /\ Called' = Called /\ DiffusedHeld' = DiffusedHeld /\ Known' = Known
    BY <1>3, <1>4, <1>11, <1>12, TasksSame
  <1>14. ReachFits' /\ WaitingFits'
    <2>1. Reached' = Reached
      BY <1>1, <1>4, <1>9 DEF Reached
    <2> QED
      BY <1>2, <1>3, <1>12, <1>13, <2>1 DEF ReachFits, WaitingFits
  <1>15. FetchedFits' /\ AnswerFits'
    <2>1. Top'[1] \notin Fetch \union {"entry"}
      BY <1>9 DEF Fetch
    <2> QED
      BY <2>1, OtherFits
  <1> QED
    BY <1>4, <1>5, <1>6, <1>9, <1>10, <1>13, <1>14, <1>15, DiffusedQuietGoes

LEMMA DiffusedConsumerGoes ==
  ASSUME Diff, DiffusedConsumer
  PROVE  DiffusedGoes
  BY ConsumerTakes, ConsumerEnds

------------------------------------------------------------------------------
(* diffused: what happens outside of its handlers.                           *)

LEMMA DiffusedAskGoes ==
  ASSUME Diff, Ask, UNCHANGED lists
  PROVE  DiffusedGoes
  <1>1. stack = <<>> /\ Top = Nothing /\ Top[1] = "nothing"
    BY DEF Ask, Top, Nothing
  <1>2. /\ TasksFit /\ ReachFits /\ WaitingFits /\ ReaderFits /\ case' = case /\ Whole
    BY DiffIs
  <1>3. /\ free' = free /\ ready' = ready /\ waiting' = waiting /\ last' = last
    BY DEF lists
  <1>4. /\ idle /\ idle' = FALSE /\ stack' = << <<"next", 0>> >> /\ sched' = sched
        /\ position' = position /\ entries' = entries /\ open' = open
        /\ caller' = caller /\ given' = given /\ final' = final
    BY DEF Ask
  <1>5. PICK f \in Frames : f = <<"next", 0>>
    BY DEF Frames
  <1>6. Onto(f, Nothing) /\ f \in Frames \union {Nothing} /\ f # Nothing /\ f[1] = "next"
    <2>1. stack' = <<f>>
      BY <1>4, <1>5
    <2> QED
      BY <1>1, <1>2, <1>4, <1>5, <2>1, OntoOne DEF Nothing
  <1>7. Top' = f /\ OnlyWaits(Below') /\ Top'[1] = "next"
    BY <1>6 DEF Onto
  <1>8. Failed' = Failed /\ Taken' = Taken /\ ReadySet' = ReadySet /\ \A t : PairAt(t)' = PairAt(t)
    BY <1>3, <1>4, EntriesSame DEF Taken, ReadySet
  <1>9. ReaderFits'
    <2>1. Nothing \in Frames \union {Nothing} /\ Nothing[1] = "nothing"
      BY DEF Nothing
    <2>2. Count({"fetched"})' # 0 => Fresh'
      <3>1. One(f, {"fetched"}) = 0 /\ One(Nothing, {"fetched"}) = 0 /\ One(Top, {"fetched"}) = 0
        BY <1>1, <1>6, <2>1 DEF One
      <3>2. Count({"fetched"})' = Count({"fetched"})
        BY <1>2, <1>6, <2>1, <3>1, OntoIs
      <3> QED
        BY <1>2, <1>8, <3>2 DEF ReaderFits, Fresh
    <2>3. One(f, Serving) + One(Nothing, Serving) + Tok(caller') + Tok(idle') + Tok(final' # "none")
            <= One(Top, Serving) + Tok(caller) + Tok(idle) + Tok(final # "none")
      <3>1. One(f, Serving) = 1 /\ One(Nothing, Serving) = 0 /\ One(Top, Serving) = 0
        BY <1>1, <1>6, <2>1 DEF One, Serving
      <3>2. Tok(idle') = 0 /\ Tok(idle) = 1 /\ Tok(caller') = Tok(caller)
            /\ Tok(final' # "none") = Tok(final # "none")
        BY <1>4 DEF Tok
      <3>3. Tok(caller) \in {0, 1} /\ Tok(final # "none") \in {0, 1}
        BY DEF Tok
      <3> QED
        BY <3>1, <3>2, <3>3
    <2>4. /\ caller' \in BOOLEAN /\ idle' \in BOOLEAN /\ f[1] # "consumer"
      BY <1>2, <1>4, <1>6 DEF ReaderFits
    <2>5. ready' # <<>> /\ PairAt(ready[1])' \in Taken'
      <3>1. ready # <<>> /\ PairAt(ready[1]) \in Taken
        BY <1>2, <1>4 DEF ReaderFits
      <3>2. PairAt(ready[1])' = PairAt(ready[1])
        BY <1>3, <1>4 DEF PairAt
      <3> QED
        BY <1>3, <1>8, <3>1, <3>2
    <2> QED
      BY <1>6, <2>1, <2>2, <2>3, <2>4, <2>5, ReaderMoves
  <1>10. Calling' = Calling /\ IsFiniteSet(open')
    BY <1>1, <1>2, <1>4, <1>7, CallingSame DEF TasksFit
  <1>11. TasksFit' /\ TakenFits' /\ Called' = Called /\ DiffusedHeld' = DiffusedHeld /\ Known' = Known
    BY <1>3, <1>4, <1>8, <1>10, TasksSame
  <1>12. ReachFits' /\ WaitingFits'
    <2>1. Reached' = Reached
      BY <1>1, <1>4, <1>7 DEF Reached
    <2> QED
      BY <1>2, <1>3, <1>10, <1>11, <2>1 DEF ReachFits, WaitingFits
  <1>13. FetchedFits' /\ AnswerFits'
    <2>1. Top'[1] \notin Fetch \union {"entry"}
      BY <1>7 DEF Fetch
    <2> QED
      BY <2>1, OtherFits
  <1> QED
    BY <1>4, <1>7, <1>9, <1>11, <1>12, <1>13, DiffusedQuietGoes

LEMMA DiffusedResumeGoes ==
  ASSUME Diff, NEW c \in open, Resume(c), UNCHANGED lists
  PROVE  DiffusedGoes
  <1>1. stack = <<>> /\ Top = Nothing /\ Top[1] = "nothing" /\ Top[1] \notin Serving
    BY DEF Resume, Top, Nothing, Serving
  <1>2. /\ Types /\ TasksFit /\ ReachFits /\ WaitingFits /\ case' = case /\ Whole /\ Slots' = Slots
    BY DiffIs
  <1>3. /\ free' = free /\ ready' = ready /\ waiting' = waiting /\ last' = last
    BY DEF lists
  <1>4. /\ open' = open \ {c} /\ position' = position /\ entries' = entries
        /\ caller' = caller /\ given' = given /\ final' = final /\ idle' = idle
    BY DEF Resume
  <1>5. c \in Slots \X Nat
    BY <1>2 DEF Types
  <1>6. PICK x \in {"result", "failed"} :
          Continue(<<"entry", <<c[1], <<x, c[2]>>>>>>, <<>>)
    BY DEF Resume
  <1>7. PICK f \in Frames : f = <<"entry", <<c[1], <<x, c[2]>>>>>>
    BY <1>5 DEF Frames, Outcomes
  <1>8. Onto(f, Nothing)
    <2>1. Continue(f, <<>>)
      BY <1>6, <1>7
    <2> QED
      BY <1>1, <1>2, <2>1, OntoOne
  <1>9. /\ f[1] = "entry" /\ f[2][1] = c[1] /\ f[2][2] = <<x, c[2]>> /\ f[2][2][2] = c[2]
        /\ f # Nothing /\ f[1] \notin Serving /\ f \in Frames \union {Nothing}
    BY <1>7 DEF Nothing, Serving
  <1>10. Nothing \in {Nothing, <<"rest", 0>>}
    OBVIOUS
  <1>11. Failed' = Failed /\ Taken' = Taken /\ \A t : PairAt(t)' = PairAt(t)
    BY <1>4, EntriesSame DEF Taken
  <1>12. OnlyWaits(Below') /\ ReaderFits' /\ Top' = f
    BY <1>1, <1>3, <1>4, <1>8, <1>9, <1>10, <1>11, ReaderLeaves
  <1>13. Answer' = c /\ Top'[1] = "entry" /\ Top'[2][2] = <<x, c[2]>>
    BY <1>5, <1>9, <1>12 DEF Answer
  <1>14. Calling' = Calling /\ IsFiniteSet(open')
    <2>1. Calling' = open
      BY <1>4, <1>13 DEF Calling
    <2>2. Calling = open
      BY <1>1 DEF Calling
    <2>3. IsFiniteSet(open')
      BY <1>2, <1>4, FS_RemoveElement DEF TasksFit
    <2> QED
      BY <2>1, <2>2, <2>3
  <1>15. AnswerFits'
    BY <1>2, <1>4, <1>5, <1>13 DEF AnswerFits
  <1>16. FetchedFits'
    BY <1>13 DEF FetchedFits, Fetch
  <1>17. TasksFit' /\ TakenFits' /\ Called' = Called /\ DiffusedHeld' = DiffusedHeld /\ Known' = Known
    BY <1>3, <1>4, <1>11, <1>14, TasksSame
  <1>18. ReachFits' /\ WaitingFits'
    <2>1. Reached' = Reached
      BY <1>1, <1>4, <1>13 DEF Reached
    <2> QED
      BY <1>2, <1>3, <1>14, <1>17, <2>1 DEF ReachFits, WaitingFits
  <1> QED
    BY <1>4, <1>12, <1>15, <1>16, <1>17, <1>18, DiffusedQuietGoes

LEMMA DiffusedStays ==
  ASSUME Diff, UNCHANGED vars
  PROVE  DiffusedGoes
  <1>1. /\ stack' = stack /\ sched' = sched /\ position' = position /\ entries' = entries
        /\ open' = open /\ caller' = caller /\ given' = given /\ idle' = idle /\ final' = final
        /\ free' = free /\ ready' = ready /\ waiting' = waiting /\ last' = last
    BY DEF vars, common, lists
  <1>2. /\ Types /\ TasksFit /\ ReachFits /\ WaitingFits /\ FetchedFits /\ AnswerFits /\ ReaderFits
        /\ case' = case /\ Whole /\ Slots' = Slots
    BY DiffIs
  <1>3. /\ Top' = Top /\ OnlyWaits(Below') /\ Count(Serving)' = Count(Serving)
        /\ Count({"fetched"})' = Count({"fetched"})
    BY <1>1, <1>2, OntoSame DEF Serving
  <1>4. Failed' = Failed /\ Taken' = Taken /\ ReadySet' = ReadySet /\ \A t : PairAt(t)' = PairAt(t)
    BY <1>1, EntriesSame DEF Taken, ReadySet
  <1>5. Answer' = Answer /\ Calling' = Calling /\ IsFiniteSet(open')
    BY <1>1, <1>2, <1>3 DEF Answer, Calling, TasksFit
  <1>6. TasksFit' /\ TakenFits' /\ Called' = Called /\ DiffusedHeld' = DiffusedHeld /\ Known' = Known
    BY <1>1, <1>4, <1>5, TasksSame
  <1>7. ReachFits' /\ WaitingFits'
    BY <1>1, <1>2, <1>3, <1>5, <1>6 DEF ReachFits, WaitingFits, Reached
  <1>8. FetchedFits' /\ AnswerFits'
    BY <1>1, <1>2, <1>3, <1>4, <1>5 DEF FetchedFits, AnswerFits, PairAt
  <1>9. ReaderFits'
    BY <1>1, <1>2, <1>3, <1>4 DEF ReaderFits, Fresh, PairAt
  <1> QED
    BY <1>1, <1>3, <1>6, <1>7, <1>8, <1>9, DiffusedQuietGoes

LEMMA CaseKept ==
  ASSUME ~ Buffers, [Next]_vars
  PROVE  case' = case
  <1>1. CASE DiffusedStep
    BY <1>1 DEF DiffusedStep, DiffusedIterate, DiffusedKey, DiffusedValue, DiffusedRest,
                DiffusedEntry, DiffusedNext, DiffusedFetched, DiffusedConsumer, Take, Finish
  <1>2. CASE Serve
    BY <1>2 DEF Serve, Begin, RunNext
  <1>3. CASE Return
    BY <1>3 DEF Return, Resume
  <1>4. CASE Ask \/ Preempt
    BY <1>4 DEF Ask, Preempt
  <1>5. CASE UNCHANGED vars
    BY <1>5 DEF vars, common
  <1> QED
    BY <1>1, <1>2, <1>3, <1>4, <1>5 DEF Next, Handle

LEMMA DiffusedStepGoes ==
  ASSUME PipeInv, ~ Buffers, DiffusedWhole, DiffusedFits, [Next]_vars
  PROVE  PipeInv' /\ ~ Buffers' /\ DiffusedGoes
  <1>1. PipeInv' /\ case' = case
    BY NextInv, CaseKept
  <1>2. ~ Buffers'
    BY <1>1, FramesStay
  <1> SUFFICES DiffusedGoes
    BY <1>1, <1>2
  <1>3. Diff
    BY <1>1 DEF Diff, Diffuses
  <1>4. CASE DiffusedStep
    BY <1>3, <1>4, DiffusedIterateGoes, DiffusedKeyGoes, DiffusedValueGoes, DiffusedRestGoes,
       DiffusedEntryGoes, DiffusedNextGoes, DiffusedFetchedGoes, DiffusedConsumerGoes
       DEF DiffusedStep
  <1>5. CASE Serve
    <2>1. sched = <<>>
      BY <1>3, DiffIs, WholeIs
    <2>2. Begin /\ UNCHANGED lists
      BY <1>5, <2>1 DEF Serve, RunNext
    <2> QED
      BY <1>3, <2>2, DiffusedBeginGoes
  <1>6. CASE Return
    BY <1>3, <1>6, DiffusedResumeGoes DEF Return
  <1>7. CASE Ask /\ UNCHANGED <<own, lists>>
    BY <1>3, <1>7, DiffusedAskGoes
  <1>8. CASE Preempt
    <2>1. case \in Cases /\ case.sliced
      BY <1>3, <1>8, DiffIs DEF Types, Preempt
    <2>2. case.kind = "diffused"
      BY <2>1, PipelineAssumption DEF Buffers
    <2> QED
      BY <2>1, <2>2 DEF DiffusedWhole
  <1>9. CASE UNCHANGED vars
    BY <1>3, <1>9, DiffusedStays
  <1> QED
    BY <1>4, <1>5, <1>6, <1>7, <1>8, <1>9 DEF Next, Handle

LEMMA DiffusedInits ==
  ASSUME Init, ~ Buffers, DiffusedWhole
  PROVE  DiffusedFits /\ P!Init
  <1>1. /\ case \in Cases /\ stack = << <<"begin", 0>> >> /\ sched = <<>>
        /\ position = 0 /\ entries = [s \in Slots |-> Empty] /\ open = {} /\ caller = TRUE
        /\ given = <<>> /\ idle = FALSE /\ final = "none"
        /\ free = [i \in 1 .. case.size |-> case.size - i]
        /\ ready = <<>> /\ waiting = 0 /\ last = "none"
    BY DEF Init, PipelineInit, DiffusedInit
  <1>2. PipeInv /\ Types
    <2>1. PipeInv
      BY InitInv
    <2> QED
      BY <2>1 DEF PipeInv
  <1>3. case.size \in Nat \ {0} /\ case.length \in Nat
    BY <1>1, CaseIs
  <1>4. PICK b \in Frames : b = <<"begin", 0>>
    BY DEF Frames
  <1>5. /\ Top[1] = "begin" /\ Top[2] = 0 /\ Below = <<>> /\ Top = b
    BY <1>1, <1>4 DEF Top, Below
  <1>6. /\ Failed = {} /\ Calling = {} /\ Out = {} /\ ReadySet = {} /\ InUse = {} /\ Taken = {}
        /\ Known = {} /\ Called = {}
    <2>1. Failed = {}
      BY <1>1 DEF Failed, Empty
    <2>2. Calling = {}
      BY <1>1, <1>5 DEF Calling
    <2>3. ReadySet = {} /\ Taken = {}
      BY <1>1 DEF ReadySet, Taken
    <2>4. Out = {} /\ Called = {}
      BY <2>2 DEF Out, Called
    <2> QED
      BY <2>1, <2>2, <2>3, <2>4 DEF InUse, Known
  <1>7. Injective(free) /\ Injective(ready)
    <2>1. DOMAIN free = 1 .. case.size /\ \A i \in 1 .. case.size : free[i] = case.size - i
      BY <1>1
    <2>2. \A i, j \in 1 .. case.size : case.size - i = case.size - j => i = j
      BY <1>3
    <2>3. Injective(free)
      BY <2>1, <2>2 DEF Injective
    <2>4. DOMAIN ready = {}
      <3>1. ready = <<>>
        BY <1>1
      <3> QED
        BY <3>1
    <2>5. Injective(ready)
      BY <2>4 DEF Injective
    <2> QED
      BY <2>3, <2>5
  <1>8. TasksFit
    <2>1. IsFiniteSet(open)
      BY <1>1, FS_EmptySet
    <2> QED
      BY <1>6, <1>7, <2>1 DEF TasksFit
  <1>9. TakenFits
    BY <1>1 DEF TakenFits
  <1>10. ReachFits
    BY <1>1, <1>3, <1>5, <1>6 DEF ReachFits, Reached
  <1>11. WaitingFits
    BY <1>1, <1>6, FS_EmptySet DEF WaitingFits
  <1>12. FetchedFits /\ AnswerFits
    BY <1>1, <1>5 DEF FetchedFits, AnswerFits
  <1>13. ReaderFits
    <2>1. ASSUME NEW F
          PROVE  Way(F) = In(b, F)
      <3>1. <<>> \in Seq(Frames) /\ Append(<<>>, b) = stack
        BY <1>1, <1>4
      <3>2. Many(<<>>, F) = 0
        BY <3>1, ManyFinite
      <3>3. Many(Append(<<>>, b), F) = Many(<<>>, F) + In(b, F)
        BY <3>1, AppendMany
      <3>4. Many(stack, F) = In(b, F) /\ Many(sched, F) = 0 /\ In(b, F) \in Nat
        BY <1>1, <3>1, <3>2, <3>3 DEF In
      <3> QED
        BY <3>4 DEF Way
    <2>2. Count(Serving) = 0 /\ Count({"fetched"}) = 0
      <3>1. b \notin Named(Serving) /\ b \notin Named({"fetched"})
        BY <1>4 DEF Named, Serving
      <3> QED
        BY <2>1, <3>1 DEF Count, In
    <2>3. Tok(caller) = 1 /\ Tok(idle) = 0 /\ Tok(final # "none") = 0
      BY <1>1 DEF Tok
    <2>4. caller \in BOOLEAN /\ idle \in BOOLEAN /\ idle = FALSE
      BY <1>1
    <2> QED
      BY <1>5, <2>2, <2>3, <2>4 DEF ReaderFits
  <1>14. OnlyWaits(Below)
    BY <1>5 DEF OnlyWaits
  <1>15. DiffusedFits
    BY <1>8, <1>9, <1>10, <1>11, <1>12, <1>13, <1>14 DEF DiffusedFits
  <1>16. Running = {} /\ Held = {} /\ GivenPairs = <<>>
    <2>1. DiffusedSees
      BY <1>2, <1>15, DiffusedSeesNow DEF Diffuses
    <2>2. DiffusedHeld = {}
      BY <1>6, <2>1 DEF DiffusedSees
    <2>3. GivenPairs = <<>>
      <3>1. [i \in 1 .. 0 |-> given[i].key] = <<>>
        OBVIOUS
      <3>2. Len(given) = 0
        BY <1>1
      <3> QED
        BY <2>1, <3>1, <3>2 DEF DiffusedSees
    <2> QED
      BY <1>6, <2>1, <2>2, <2>3 DEF DiffusedSees, Held
  <1> QED
    BY <1>1, <1>15, <1>16 DEF P!Init, Held

------------------------------------------------------------------------------
\* diffused implements Pipe (ImplementsPipe): each pair is given once, with the
\* result of its own call, in any order; nil comes only when every pair was given,
\* and nothing after an error; at most Size calls are open.  For sequences of every
\* length, all sizes, and calls that return at once, later in any order or never:
\* what ml_diffused_iterate, ml_diffused_task_call and ml_iter_next of a
\* diffused sequence do to the lists Next and Head, to Waiting, Final and Caller.
\* No slice ends: with ends of slices the iterator is asked twice.
THEOREM DiffusedImplementsPipe ==
  ASSUME DiffusedWhole
  PROVE  Spec /\ ~ Buffers => ImplementsPipe
  <1>1. Init => PipeInv
    BY InitInv
  <1>2. Init /\ ~ Buffers => DiffusedFits /\ P!Init
    BY DiffusedInits
  <1>3. PipeInv /\ ~ Buffers /\ DiffusedFits /\ [Next]_vars
          => PipeInv' /\ ~ Buffers' /\ DiffusedFits' /\ [P!Next]_(P!vars)
    BY DiffusedStepGoes DEF Piped, DiffusedGoes
  <1> QED
    BY <1>1, <1>2, <1>3, PTL DEF Spec, ImplementsPipe, P!Spec

\* ImplementsPipe, for every set of cases in which the slices of diffused do not end.
THEOREM PipelinesImplementPipe ==
  ASSUME DiffusedWhole
  PROVE  Spec => ImplementsPipe
  <1>1. Spec /\ Buffers => ImplementsPipe
    BY BufferedImplementsPipe
  <1>2. Spec /\ ~ Buffers => ImplementsPipe
    BY DiffusedImplementsPipe
  <1> QED
    BY <1>1, <1>2, PTL
==============================================================================
