--------------------------- MODULE TurnTracingProofs ---------------------------
(***************************************************************************)
(* Proofs about turn tracing, for every capacity of the sink, every number *)
(* of turns and every set of replies.                                      *)
(***************************************************************************)
EXTENDS TurnTracing, Induction, SequenceTheorems

-----------------------------------------------------------------------------
(* The fold over events                                                    *)

Untraced == [turns |-> <<>>, current |-> <<>>]

\* The states of the tracer as it goes through es.
IsTrace(f, es) ==
  /\ f[0] = Untraced
  /\ \A n \in 1 .. Len(es) : f[n] = After(f[n - 1], es[n])

LEMMA TracedByATrace ==
  ASSUME NEW Y, NEW es \in Seq(Y)
  PROVE  \E f : IsTrace(f, es) /\ Traced(es) = f[Len(es)]
<1>. DEFINE IsGraph(f, m) ==
              f = [n \in 0 .. m |-> IF n = 0 THEN Untraced ELSE After(f[n - 1], es[n])]
            P == {m \in Nat : \E f : IsGraph(f, m)}
<1>0. Len(es) \in Nat
  OBVIOUS
<1>1. 0 \in P
  <2>. DEFINE f == [n \in 0 .. 0 |-> Untraced]
  <2>1. IsGraph(f, 0)
    OBVIOUS
  <2>. HIDE DEF f
  <2>. QED  BY <2>1
<1>2. ASSUME NEW m \in Nat, m \in P PROVE m + 1 \in P
  <2>1. PICK f : IsGraph(f, m)
    BY <1>2
  <2>. DEFINE g == [n \in 0 .. m + 1 |-> IF n = m + 1 THEN After(f[m], es[m + 1]) ELSE f[n]]
  <2>2. \A n \in 0 .. m : g[n] = f[n]
    OBVIOUS
  <2>3. \A n \in 0 .. m + 1 : g[n] = IF n = 0 THEN Untraced ELSE After(g[n - 1], es[n])
    <3>. TAKE n \in 0 .. m + 1
    <3>1. CASE n = 0
      BY <2>1, <3>1
    <3>2. CASE n \in 1 .. m
      <4>1. g[n] = f[n] /\ n - 1 \in 0 .. m
        BY <2>2, <3>2
      <4>2. f[n] = After(f[n - 1], es[n])
        BY <2>1, <3>2
      <4>3. g[n - 1] = f[n - 1]
        BY <2>2, <4>1
      <4>. QED  BY <3>2, <4>1, <4>2, <4>3
    <3>3. CASE n = m + 1
      <4>1. g[n] = After(f[m], es[m + 1]) /\ n - 1 = m
        BY <3>3
      <4>2. g[m] = f[m]
        BY <2>2
      <4>. QED  BY <3>3, <4>1, <4>2
    <3>. QED  BY <3>1, <3>2, <3>3
  <2>4. g = [n \in 0 .. m + 1 |-> g[n]]
    OBVIOUS
  <2>. HIDE DEF g
  <2>5. IsGraph(g, m + 1)
    BY <2>3, <2>4, Zenon
  <2>6. m + 1 \in Nat
    OBVIOUS
  <2>. QED  BY <2>5, <2>6
<1>. HIDE DEF P
<1>3. Len(es) \in P
  BY <1>0, <1>1, <1>2, NaturalsByInduction
<1>4. \E f : IsGraph(f, Len(es))
  BY <1>3 DEF P
<1>. DEFINE state[n \in 0 .. Len(es)] ==
              IF n = 0 THEN [turns |-> <<>>, current |-> <<>>] ELSE After(state[n - 1], es[n])
<1>5. state = [n \in 0 .. Len(es) |->
                 IF n = 0 THEN [turns |-> <<>>, current |-> <<>>] ELSE After(state[n - 1], es[n])]
  BY <1>4 DEF Untraced
<1>6. Traced(es) = state[Len(es)]
  BY DEF Traced
<1>. HIDE DEF state
<1>7. IsTrace(state, es)
  <2>1. state[0] = Untraced
    BY <1>0, <1>5 DEF Untraced
  <2>2. \A n \in 1 .. Len(es) : state[n] = After(state[n - 1], es[n])
    BY <1>0, <1>5
  <2>. QED  BY <2>1, <2>2 DEF IsTrace
<1>. QED  BY <1>6, <1>7

\* Traces of a sequence and of one that begins with it begin alike.
LEMMA TracesAgree ==
  ASSUME NEW Y, NEW s \in Seq(Y), NEW es \in Seq(Y), NEW f, NEW g, IsTrace(f, s), IsTrace(g, es),
         Len(s) <= Len(es), \A n \in 1 .. Len(s) : s[n] = es[n]
  PROVE  \A n \in 0 .. Len(s) : f[n] = g[n]
<1>. DEFINE P == {n \in Nat : n <= Len(s) => f[n] = g[n]}
<1>1. 0 \in P
  BY DEF IsTrace
<1>2. ASSUME NEW n \in Nat, n \in P PROVE n + 1 \in P
  <2>. SUFFICES ASSUME n + 1 <= Len(s) PROVE f[n + 1] = g[n + 1]
    OBVIOUS
  <2>1. n + 1 \in 1 .. Len(s) /\ n + 1 \in 1 .. Len(es) /\ (n + 1) - 1 = n
    OBVIOUS
  <2>2. f[n] = g[n] /\ s[n + 1] = es[n + 1]
    BY <1>2, <2>1
  <2>. QED  BY <2>1, <2>2 DEF IsTrace
<1>. HIDE DEF P
<1>3. Nat \subseteq P
  BY <1>1, <1>2, NaturalsByInduction
<1>. QED  BY <1>3 DEF P

LEMMA TracedNothing == Traced(<<>>) = Untraced
<1>1. <<>> \in Seq({})
  OBVIOUS
<1>2. PICK f : IsTrace(f, <<>>) /\ Traced(<<>>) = f[Len(<<>>)]
  BY <1>1, TracedByATrace
<1>. QED  BY <1>2 DEF IsTrace

\* One event more is one step more.
LEMMA TracedOneMore ==
  ASSUME NEW Y, NEW es \in Seq(Y), NEW e \in Y
  PROVE  Traced(Append(es, e)) = After(Traced(es), e)
<1>1. PICK f : IsTrace(f, es) /\ Traced(es) = f[Len(es)]
  BY TracedByATrace
<1>2. PICK l : l = Append(es, e)
  OBVIOUS
<1>3. /\ l \in Seq(Y) /\ Len(es) \in Nat /\ Len(l) = Len(es) + 1
      /\ l[Len(es) + 1] = e /\ \A n \in 1 .. Len(es) : es[n] = l[n]
  BY <1>2
<1>4. PICK g : IsTrace(g, l) /\ Traced(l) = g[Len(l)]
  BY <1>3, TracedByATrace
<1>5. \A n \in 0 .. Len(es) : f[n] = g[n]
  <2>1. Len(es) <= Len(l)
    BY <1>3
  <2>. QED  BY <1>1, <1>3, <1>4, <2>1, TracesAgree
<1>6. g[Len(l)] = After(g[Len(es)], e)
  BY <1>3, <1>4 DEF IsTrace
<1>. QED  BY <1>1, <1>2, <1>3, <1>4, <1>5, <1>6

-----------------------------------------------------------------------------
(* A full sink costs whole turns                                           *)

\* Every state of a tracer that has not seen the first events is behind the state
\* of one that has: it has no turns, or has the same turn under way and lacks some
\* of the oldest turns.
States(X) ==
  {[turns |-> ts, current |-> c] : ts \in Seq(X), c \in {<<>>} \cup {<<x>> : x \in X}}
Behind(a, b, X) ==
  \/ a.turns = <<>> /\ a.current = <<>>
  \/ a.current = b.current /\ \E p \in Seq(X) : b.turns = p \o a.turns

\* A turn that the tracer makes of an event is in X.
Covers(X, b, e) ==
  /\ e.kind = "chat_model_start" => Turn(e.run) \in X
  /\ e.kind # "chat_model_start" /\ b.current # <<>> => Continued(b.current[1], e) \in X

LEMMA StateParts ==
  ASSUME NEW X, NEW a \in States(X)
  PROVE  /\ a.turns \in Seq(X) /\ a.current \in Seq(X)
         /\ a.current = <<>> \/ \E x \in X : a.current = <<x>>
         /\ a = [turns |-> a.turns, current |-> a.current]
<1>1. PICK ts \in Seq(X), c \in {<<>>} \cup {<<x>> : x \in X} : a = [turns |-> ts, current |-> c]
  BY DEF States
<1>2. a.turns = ts /\ a.current = c
  BY <1>1
<1>3. c \in Seq(X)
  <2>1. <<>> \in Seq(X)
    OBVIOUS
  <2>2. \A x \in X : <<x>> \in Seq(X)
    OBVIOUS
  <2>. QED  BY <2>1, <2>2
<1>. QED  BY <1>1, <1>2, <1>3

LEMMA IsAState ==
  ASSUME NEW X, NEW ts \in Seq(X), NEW c, c = <<>> \/ \E x \in X : c = <<x>>
  PROVE  [turns |-> ts, current |-> c] \in States(X)
BY DEF States

LEMMA ClosedTyped ==
  ASSUME NEW X, NEW a \in States(X)
  PROVE  Closed(a) \in Seq(X)
<1>1. a.turns \in Seq(X) /\ a.current \in Seq(X)
  BY StateParts
<1>. QED  BY <1>1, ConcatProperties DEF Closed

\* The cases of After.
LEMMA AfterStart ==
  ASSUME NEW a, NEW e, e.kind = "chat_model_start"
  PROVE  After(a, e) = [turns |-> Closed(a), current |-> <<Turn(e.run)>>]
BY DEF After

LEMMA AfterIgnored ==
  ASSUME NEW a, NEW e, e.kind # "chat_model_start", a.current = <<>>
  PROVE  After(a, e) = a
BY DEF After

LEMMA AfterContinues ==
  ASSUME NEW X, NEW a \in States(X), NEW e, e.kind # "chat_model_start", a.current # <<>>
  PROVE  After(a, e) = IF EndsTurn(e)
                       THEN [turns |-> Append(a.turns, Continued(a.current[1], e)), current |-> <<>>]
                       ELSE [turns |-> a.turns, current |-> <<Continued(a.current[1], e)>>]
<1>1. PICK t : t = Continued(a.current[1], e)
  OBVIOUS
<1>2. a = [turns |-> a.turns, current |-> a.current]
  BY StateParts
<1>3. [a EXCEPT !.current = <<t>>] = [turns |-> a.turns, current |-> <<t>>]
  BY <1>2
<1>4. After(a, e) = IF EndsTurn(e) THEN [turns |-> Append(a.turns, t), current |-> <<>>]
                    ELSE [a EXCEPT !.current = <<t>>]
  BY <1>1 DEF After
<1>. QED  BY <1>1, <1>3, <1>4

LEMMA AfterIsAState ==
  ASSUME NEW X, NEW b \in States(X), NEW e, Covers(X, b, e)
  PROVE  After(b, e) \in States(X)
<1>1. b.turns \in Seq(X)
  BY StateParts
<1>2. CASE e.kind = "chat_model_start"
  <2>1. PICK t : t = Turn(e.run)
    OBVIOUS
  <2>2. t \in X /\ After(b, e) = [turns |-> Closed(b), current |-> <<t>>]
    BY <1>2, <2>1, AfterStart DEF Covers
  <2>. QED  BY <2>2, ClosedTyped, IsAState
<1>3. CASE e.kind # "chat_model_start" /\ b.current = <<>>
  BY <1>3, AfterIgnored
<1>4. CASE e.kind # "chat_model_start" /\ b.current # <<>>
  <2>1. PICK t : t = Continued(b.current[1], e)
    OBVIOUS
  <2>2. t \in X
    BY <1>4, <2>1 DEF Covers
  <2>3. CASE EndsTurn(e)
    <3>1. After(b, e) = [turns |-> Append(b.turns, t), current |-> <<>>]
      BY <1>4, <2>1, <2>3, AfterContinues
    <3>2. Append(b.turns, t) \in Seq(X)
      BY <1>1, <2>2
    <3>. QED  BY <3>1, <3>2, IsAState
  <2>4. CASE ~EndsTurn(e)
    <3>1. After(b, e) = [turns |-> b.turns, current |-> <<t>>]
      BY <1>4, <2>1, <2>4, AfterContinues
    <3>. QED  BY <1>1, <2>2, <3>1, IsAState
  <2>. QED  BY <2>3, <2>4
<1>. QED  BY <1>2, <1>3, <1>4

LEMMA BehindParts ==
  ASSUME NEW X, NEW p \in Seq(X), NEW ts, NEW us, NEW c, us = p \o ts
  PROVE  Behind([turns |-> ts, current |-> c], [turns |-> us, current |-> c], X)
BY DEF Behind

\* Then it also lacks only some of the oldest turns.
LEMMA ClosedBehind ==
  ASSUME NEW X, NEW a \in States(X), NEW b \in States(X), Behind(a, b, X)
  PROVE  \E p \in Seq(X) : Closed(b) = p \o Closed(a)
<1>1. CASE a.turns = <<>> /\ a.current = <<>>
  <2>1. Closed(a) = <<>>
    BY <1>1 DEF Closed
  <2>2. Closed(b) \in Seq(X)
    BY ClosedTyped
  <2>. QED  BY <2>1, <2>2
<1>2. ASSUME a.current = b.current, NEW p \in Seq(X), b.turns = p \o a.turns
      PROVE  Closed(b) = p \o Closed(a)
  <2>1. PICK ts \in Seq(X), c \in Seq(X) : ts = a.turns /\ c = a.current
    BY StateParts
  <2>2. (p \o ts) \o c = p \o (ts \o c)
    BY <1>2, ConcatAssociative
  <2>. QED  BY <1>2, <2>1, <2>2 DEF Closed
<1>. QED  BY <1>1, <1>2 DEF Behind

LEMMA AfterStaysBehind ==
  ASSUME NEW X, NEW a \in States(X), NEW b \in States(X), NEW e, Covers(X, b, e), Behind(a, b, X)
  PROVE  After(a, e) \in States(X) /\ Behind(After(a, e), After(b, e), X)
<1>1. Covers(X, a, e)
  BY DEF Covers, Behind
<1>2. After(a, e) \in States(X)
  BY <1>1, AfterIsAState
<1>3. a.turns \in Seq(X) /\ b.turns \in Seq(X)
  BY StateParts
<1>4. CASE e.kind = "chat_model_start"
  <2>1. /\ After(a, e) = [turns |-> Closed(a), current |-> <<Turn(e.run)>>]
        /\ After(b, e) = [turns |-> Closed(b), current |-> <<Turn(e.run)>>]
    BY <1>4, AfterStart
  <2>2. \E p \in Seq(X) : Closed(b) = p \o Closed(a)
    BY ClosedBehind
  <2>3. PICK l, m, c : l = Closed(a) /\ m = Closed(b) /\ c = <<Turn(e.run)>>
    OBVIOUS
  <2>4. After(a, e) = [turns |-> l, current |-> c] /\ After(b, e) = [turns |-> m, current |-> c]
    BY <2>1, <2>3
  <2>5. \E p \in Seq(X) : m = p \o l
    BY <2>2, <2>3
  <2>6. Behind(After(a, e), After(b, e), X)
    BY <2>4, <2>5, BehindParts
  <2>. QED  BY <1>2, <2>6
<1>5. CASE e.kind # "chat_model_start" /\ a.turns = <<>> /\ a.current = <<>>
  BY <1>2, <1>5, AfterIgnored DEF Behind
<1>6. ASSUME e.kind # "chat_model_start", a.current = b.current, NEW p \in Seq(X), b.turns = p \o a.turns
      PROVE  Behind(After(a, e), After(b, e), X)
  <2>1. CASE a.current = <<>>
    BY <1>6, <2>1, AfterIgnored DEF Behind
  <2>2. CASE a.current # <<>>
    <3>1. PICK t : t = Continued(b.current[1], e)
      OBVIOUS
    <3>2. t \in X
      BY <1>6, <2>2, <3>1 DEF Covers
    <3>3. CASE EndsTurn(e)
      <4>1. /\ After(a, e) = [turns |-> Append(a.turns, t), current |-> <<>>]
            /\ After(b, e) = [turns |-> Append(b.turns, t), current |-> <<>>]
        BY <1>6, <2>2, <3>1, <3>3, AfterContinues
      <4>2. PICK ts, us, c : ts = a.turns /\ us = b.turns /\ c = <<>> /\ ts \in Seq(X)
        BY <1>3
      <4>3. PICK m, l : m = Append(us, t) /\ l = Append(ts, t)
        OBVIOUS
      <4>4. p \in Seq(X) /\ us = p \o ts
        BY <1>6, <4>2
      <4>5. m = p \o l
        <5>1. p \in Seq(X) /\ ts \in Seq(X) /\ t \in X
          BY <3>2, <4>2, <4>4
        <5>2. Append(p \o ts, t) = p \o Append(ts, t)
          BY <5>1
        <5>. QED  BY <4>3, <4>4, <5>2
      <4>6. After(a, e) = [turns |-> l, current |-> c] /\ After(b, e) = [turns |-> m, current |-> c]
        BY <4>1, <4>2, <4>3
      <4>. QED  BY <4>4, <4>5, <4>6, BehindParts
    <3>4. CASE ~EndsTurn(e)
      <4>1. /\ After(a, e) = [turns |-> a.turns, current |-> <<t>>]
            /\ After(b, e) = [turns |-> b.turns, current |-> <<t>>]
        BY <1>6, <2>2, <3>1, <3>4, AfterContinues
      <4>. QED  BY <1>6, <4>1 DEF Behind
    <3>. QED  BY <3>3, <3>4
  <2>. QED  BY <2>1, <2>2
<1>. QED  BY <1>2, <1>4, <1>5, <1>6 DEF Behind

LEMMA TailIsSuffix ==
  ASSUME NEW X, NEW p \in Seq(X), NEW s \in Seq(X), NEW t, t = p \o s
  PROVE  IsSuffix(s, t)
<1>1. /\ t \in Seq(X) /\ Len(t) = Len(p) + Len(s)
      /\ Len(p) \in Nat /\ Len(s) \in Nat
      /\ \A i \in 1 .. Len(s) : t[Len(p) + i] = s[i]
  OBVIOUS
<1>2. PICK rs : rs = Reverse(s)
  OBVIOUS
<1>3. PICK rt : rt = Reverse(t)
  OBVIOUS
<1>4. \A i \in 1 .. Len(s) : Len(s) - i + 1 \in 1 .. Len(s)
  BY <1>1
<1>5. \A i \in 1 .. Len(t) : Len(t) - i + 1 \in 1 .. Len(t)
  BY <1>1
<1>6. rs \in Seq(X) /\ Len(rs) = Len(s) /\ \A i \in 1 .. Len(s) : rs[i] = s[Len(s) - i + 1]
  BY <1>1, <1>2, <1>4 DEF Reverse
<1>7. rt \in Seq(X) /\ Len(rt) = Len(t) /\ \A i \in 1 .. Len(t) : rt[i] = t[Len(t) - i + 1]
  BY <1>1, <1>3, <1>5 DEF Reverse
<1>8. \A i \in 1 .. Len(s) : rt[i] = rs[i]
  <2>. TAKE i \in 1 .. Len(s)
  <2>1. PICK j \in 1 .. Len(s) : j = Len(s) - i + 1
    BY <1>4
  <2>2. Len(t) - i + 1 = Len(p) + j /\ i \in 1 .. Len(t)
    <3>1. PICK k \in Nat, l \in Nat : k = Len(s) /\ l = Len(p) /\ Len(t) = l + k
      BY <1>1
    <3>2. j = k - i + 1 /\ i \in 1 .. k
      BY <2>1, <3>1
    <3>3. (l + k) - i + 1 = l + j /\ i \in 1 .. l + k
      BY <3>2
    <3>. QED  BY <3>1, <3>3
  <2>3. t[Len(p) + j] = s[j]
    BY <1>1
  <2>4. rt[i] = t[Len(t) - i + 1] /\ rs[i] = s[Len(s) - i + 1]
    BY <1>6, <1>7, <2>2
  <2>. QED  BY <2>1, <2>2, <2>3, <2>4
<1>9. Len(rs) <= Len(rt)
  BY <1>1, <1>6, <1>7
<1>10. SubSeq(rs, 1, Len(rs)) = SubSeq(rt, 1, Len(rs))
  BY <1>1, <1>6, <1>7, <1>8
<1>. QED  BY <1>2, <1>3, <1>9, <1>10 DEF IsSuffix, IsPrefix

\* The states of a trace, with the turns that come up in it.
LEMMA TraceOfStates ==
  ASSUME NEW Y, NEW es \in Seq(Y), NEW g, IsTrace(g, es)
  PROVE  \E X : /\ \A n \in 0 .. Len(es) : g[n] \in States(X)
                /\ \A n \in 1 .. Len(es) : Covers(X, g[n - 1], es[n])
<1>. DEFINE X == {Turn(es[n].run) : n \in 1 .. Len(es)}
                   \cup {Continued(g[n - 1].current[1], es[n]) : n \in 1 .. Len(es)}
<1>1. \A n \in 1 .. Len(es) : Covers(X, g[n - 1], es[n])
  BY DEF Covers
<1>. HIDE DEF X
<1>. DEFINE P == {n \in Nat : n <= Len(es) => g[n] \in States(X)}
<1>2. 0 \in P
  <2>1. <<>> \in Seq(X)
    OBVIOUS
  <2>. QED  BY <2>1, IsAState DEF IsTrace, Untraced
<1>3. ASSUME NEW n \in Nat, n \in P PROVE n + 1 \in P
  <2>. SUFFICES ASSUME n + 1 <= Len(es) PROVE g[n + 1] \in States(X)
    OBVIOUS
  <2>1. n + 1 \in 1 .. Len(es) /\ (n + 1) - 1 = n /\ g[n] \in States(X)
    BY <1>3
  <2>2. g[n + 1] = After(g[n], es[n + 1]) /\ Covers(X, g[n], es[n + 1])
    BY <1>1, <2>1 DEF IsTrace
  <2>. QED  BY <2>1, <2>2, AfterIsAState
<1>. HIDE DEF P
<1>4. Nat \subseteq P
  BY <1>2, <1>3, NaturalsByInduction
<1>5. \A n \in 0 .. Len(es) : g[n] \in States(X)
  BY <1>4 DEF P
<1>. QED  BY <1>1, <1>5

\* The turns of the last events are the last turns.
LEMMA SuffixSnapshot ==
  ASSUME NEW Y, NEW es \in Seq(Y), NEW s \in Seq(Y), NEW d \in Nat,
         Len(es) = d + Len(s), \A n \in 1 .. Len(s) : s[n] = es[d + n]
  PROVE  IsSuffix(Snapshot(s), Snapshot(es))
<1>1. PICK g : IsTrace(g, es) /\ Traced(es) = g[Len(es)]
  BY TracedByATrace
<1>2. PICK f : IsTrace(f, s) /\ Traced(s) = f[Len(s)]
  BY TracedByATrace
<1>3. PICK X : /\ \A n \in 0 .. Len(es) : g[n] \in States(X)
               /\ \A n \in 1 .. Len(es) : Covers(X, g[n - 1], es[n])
  BY <1>1, TraceOfStates
<1>4. Len(s) \in Nat /\ Len(es) \in Nat
  OBVIOUS
<1>. DEFINE P == {n \in Nat : n <= Len(s) => f[n] \in States(X) /\ Behind(f[n], g[d + n], X)}
<1>5. 0 \in P
  <2>1. <<>> \in Seq(X)
    OBVIOUS
  <2>2. f[0] = Untraced /\ Untraced \in States(X)
    BY <1>2, <2>1, IsAState DEF IsTrace, Untraced
  <2>3. Behind(Untraced, g[d + 0], X)
    BY DEF Behind, Untraced
  <2>. QED  BY <2>2, <2>3
<1>6. ASSUME NEW n \in Nat, n \in P PROVE n + 1 \in P
  <2>. SUFFICES ASSUME n + 1 <= Len(s)
                PROVE  f[n + 1] \in States(X) /\ Behind(f[n + 1], g[d + (n + 1)], X)
    OBVIOUS
  <2>1. /\ n + 1 \in 1 .. Len(s) /\ (n + 1) - 1 = n
        /\ d + (n + 1) \in 1 .. Len(es) /\ (d + (n + 1)) - 1 = d + n /\ d + n \in 0 .. Len(es)
    <3>1. PICK k \in Nat : k = Len(s) /\ Len(es) = d + k
      BY <1>4
    <3>2. n + 1 \in 1 .. k /\ d + (n + 1) \in 1 .. d + k /\ d + n \in 0 .. d + k
      BY <3>1
    <3>3. (n + 1) - 1 = n /\ (d + (n + 1)) - 1 = d + n
      OBVIOUS
    <3>. QED  BY <3>1, <3>2, <3>3
  <2>2. f[n] \in States(X) /\ Behind(f[n], g[d + n], X) /\ g[d + n] \in States(X)
    BY <1>3, <1>6, <2>1
  <2>3. PICK e : e = s[n + 1] /\ e = es[d + (n + 1)]
    BY <2>1
  <2>4. Covers(X, g[d + n], e)
    BY <1>3, <2>1, <2>3
  <2>5. f[n + 1] = After(f[n], e) /\ g[d + (n + 1)] = After(g[d + n], e)
    BY <1>1, <1>2, <2>1, <2>3 DEF IsTrace
  <2>. QED  BY <2>2, <2>4, <2>5, AfterStaysBehind
<1>. HIDE DEF P
<1>7. Nat \subseteq P
  BY <1>5, <1>6, NaturalsByInduction
<1>8. Traced(s) \in States(X) /\ Traced(es) \in States(X) /\ Behind(Traced(s), Traced(es), X)
  <2>1. Len(s) \in P
    BY <1>4, <1>7
  <2>2. f[Len(s)] \in States(X) /\ Behind(f[Len(s)], g[d + Len(s)], X)
    BY <1>4, <2>1 DEF P
  <2>3. g[Len(es)] \in States(X)
    BY <1>3, <1>4
  <2>. QED  BY <1>1, <1>2, <2>2, <2>3
<1>9. PICK p \in Seq(X) : Snapshot(es) = p \o Snapshot(s)
  BY <1>8, ClosedBehind DEF Snapshot
<1>10. Snapshot(s) \in Seq(X)
  BY <1>8, ClosedTyped DEF Snapshot
<1>. QED  BY <1>9, <1>10, TailIsSuffix

-----------------------------------------------------------------------------
(* Types                                                                   *)

CallIds == Nat \X Nat
PlainEvents(kinds, names, ids) == [kind : kinds, run : Nat, name : names, id : ids]
LlmEnds == [kind : {"llm_end"}, run : Nat, tools : Seq(STRING), finish : {"tool_calls", "stop"}]
Events ==
  PlainEvents({"chat_model_start", "llm_new_token"}, {None}, {None})
    \cup PlainEvents({"tool_start"}, STRING, {None})
    \cup PlainEvents({"tool_end"}, {None}, {None})
    \cup PlainEvents({"tool_end", "tool_message"}, STRING, CallIds)
    \cup LlmEnds
Messages == [id : CallIds, name : STRING]

AgentTypeOK ==
  /\ phase \in {"idle", "model", "reply", "decide", "tools"}
  /\ turn \in 0 .. MaxTurns /\ (phase # "idle" => turn # 0)
  /\ asked \in Seq(STRING) /\ open \in BOOLEAN
  /\ progress \in [DOMAIN asked -> {"waiting", "running", "ended", "answered"}]
  /\ transcript \in Seq(Messages)
  /\ cut \subseteq 1 .. turn

\* The sink holds the end of the history.
IsEndOf(s, es) ==
  \E d \in Nat : Len(es) = d + Len(s) /\ \A n \in 1 .. Len(s) : s[n] = es[d + n]
SinkOK ==
  /\ history \in Seq(Events) /\ sink \in Seq(Events)
  /\ Len(sink) <= MaxEvents
  /\ IsEndOf(sink, history)

LEMMA BoundedEnd ==
  ASSUME NEW es \in Seq(Events)
  PROVE  /\ Bounded(es) \in Seq(Events)
         /\ Len(Bounded(es)) <= MaxEvents
         /\ IsEndOf(Bounded(es), es)
<1>1. MaxEvents \in Nat /\ Len(es) \in Nat
  BY TracingAssumption
<1>2. CASE Len(es) <= MaxEvents
  <2>1. Bounded(es) = es
    BY <1>2 DEF Bounded
  <2>2. 0 \in Nat /\ Len(es) = 0 + Len(es) /\ \A n \in 1 .. Len(es) : es[n] = es[0 + n]
    BY <1>1
  <2>3. IsEndOf(es, es)
    BY <2>2 DEF IsEndOf
  <2>. QED  BY <1>2, <2>1, <2>3
<1>3. CASE Len(es) > MaxEvents
  <2>1. PICK d \in Nat : d = Len(es) - MaxEvents
    BY <1>1, <1>3
  <2>2. PICK b : b = SubSeq(es, d + 1, Len(es))
    OBVIOUS
  <2>3. /\ b \in Seq(Events) /\ Len(b) = MaxEvents
        /\ \A n \in 1 .. MaxEvents : b[n] = es[d + n]
    BY <1>1, <1>3, <2>1, <2>2
  <2>4. Bounded(es) = b
    BY <1>1, <1>3, <2>1, <2>2 DEF Bounded
  <2>5. Len(es) = d + Len(b)
    BY <1>1, <2>1, <2>3
  <2>6. IsEndOf(b, es)
    BY <2>3, <2>5 DEF IsEndOf
  <2>7. Len(b) <= MaxEvents
    BY <1>1, <2>3
  <2>. QED  BY <2>3, <2>4, <2>6, <2>7
<1>. QED  BY <1>1, <1>2, <1>3

LEMMA EndOfEnd ==
  ASSUME NEW b \in Seq(Events), NEW l \in Seq(Events), NEW h \in Seq(Events),
         IsEndOf(b, l), IsEndOf(l, h)
  PROVE  IsEndOf(b, h)
<1>1. PICK d1 \in Nat : Len(l) = d1 + Len(b) /\ \A n \in 1 .. Len(b) : b[n] = l[d1 + n]
  BY DEF IsEndOf
<1>2. PICK d2 \in Nat : Len(h) = d2 + Len(l) /\ \A n \in 1 .. Len(l) : l[n] = h[d2 + n]
  BY DEF IsEndOf
<1>3. PICK k \in Nat, d \in Nat : k = Len(b) /\ d = d2 + d1
  OBVIOUS
<1>4. Len(h) = d + Len(b)
  BY <1>1, <1>2, <1>3
<1>5. \A n \in 1 .. Len(b) : b[n] = h[d + n]
  <2>. TAKE n \in 1 .. Len(b)
  <2>1. PICK m \in Nat : m = d1 + n
    BY <1>3
  <2>2. m \in 1 .. Len(l)
    BY <1>1, <1>3, <2>1
  <2>3. d2 + m = d + n
    BY <1>3, <2>1
  <2>. QED  BY <1>1, <1>2, <2>1, <2>2, <2>3
<1>. QED  BY <1>3, <1>4, <1>5 DEF IsEndOf

LEMMA ConcatEnd ==
  ASSUME NEW s \in Seq(Events), NEW h \in Seq(Events), NEW es \in Seq(Events), IsEndOf(s, h)
  PROVE  IsEndOf(s \o es, h \o es)
<1>1. PICK d \in Nat : Len(h) = d + Len(s) /\ \A n \in 1 .. Len(s) : s[n] = h[d + n]
  BY DEF IsEndOf
<1>2. PICK l, m : l = s \o es /\ m = h \o es
  OBVIOUS
<1>3. PICK k \in Nat, j \in Nat : k = Len(s) /\ j = Len(es) /\ Len(h) = d + k
  BY <1>1
<1>4. /\ Len(l) = k + j /\ \A n \in 1 .. k + j : l[n] = IF n <= k THEN s[n] ELSE es[n - k]
      /\ Len(m) = (d + k) + j
      /\ \A n \in 1 .. (d + k) + j : m[n] = IF n <= d + k THEN h[n] ELSE es[n - (d + k)]
  <2>1. /\ Len(s \o es) = Len(s) + Len(es)
        /\ \A n \in 1 .. Len(s) + Len(es) :
             (s \o es)[n] = IF n <= Len(s) THEN s[n] ELSE es[n - Len(s)]
    BY ConcatProperties
  <2>2. /\ Len(h \o es) = Len(h) + Len(es)
        /\ \A n \in 1 .. Len(h) + Len(es) :
             (h \o es)[n] = IF n <= Len(h) THEN h[n] ELSE es[n - Len(h)]
    BY ConcatProperties
  <2>. QED  BY <1>2, <1>3, <2>1, <2>2, Zenon
<1>5. \A n \in 1 .. k + j : l[n] = m[d + n]
  <2>. TAKE n \in 1 .. k + j
  <2>1. PICK i : i = d + n
    OBVIOUS
  <2>2. i \in 1 .. (d + k) + j /\ (n <= k <=> i <= d + k) /\ n - k = i - (d + k)
    BY <1>3, <2>1
  <2>3. CASE n <= k
    <3>1. n \in 1 .. Len(s)
      BY <1>3, <2>3
    <3>. QED  BY <1>1, <1>4, <2>1, <2>2, <2>3, <3>1
  <2>4. CASE ~(n <= k)
    BY <1>4, <2>1, <2>2, <2>4
  <2>. QED  BY <2>3, <2>4
<1>6. Len(m) = d + Len(l)
  BY <1>3, <1>4
<1>. QED  BY <1>2, <1>4, <1>5, <1>6 DEF IsEndOf

LEMMA RecordKeepsSink ==
  ASSUME SinkOK, NEW es \in Seq(Events), Record(es)
  PROVE  SinkOK'
<1>1. PICK l, m : l = sink \o es /\ m = history \o es
  OBVIOUS
<1>2. l \in Seq(Events) /\ m \in Seq(Events) /\ IsEndOf(l, m)
  <2>1. IsEndOf(l, m)
    BY <1>1, ConcatEnd DEF SinkOK
  <2>. QED  BY <1>1, <2>1, ConcatProperties DEF SinkOK
<1>3. PICK b : b = Bounded(l)
  OBVIOUS
<1>4. b \in Seq(Events) /\ Len(b) <= MaxEvents /\ IsEndOf(b, l)
  BY <1>2, <1>3, BoundedEnd
<1>5. IsEndOf(b, m)
  BY <1>2, <1>4, EndOfEnd
<1>6. sink' = b /\ history' = m
  BY <1>1, <1>3 DEF Record
<1>. QED  BY <1>2, <1>4, <1>5, <1>6 DEF SinkOK

LEMMA EventKinds ==
  /\ \A run \in Nat : Event("chat_model_start", run, None, None) \in Events
  /\ \A run \in Nat : Event("llm_new_token", run, None, None) \in Events
  /\ \A run \in Nat, name \in STRING : Event("tool_start", run, name, None) \in Events
  /\ \A run \in Nat : Event("tool_end", run, None, None) \in Events
  /\ \A run \in Nat, name \in STRING, id \in CallIds : Event("tool_end", run, name, id) \in Events
  /\ \A run \in Nat, name \in STRING, id \in CallIds : Event("tool_message", run, name, id) \in Events
BY DEF Event, Events, PlainEvents

LEMMA EventFields ==
  ASSUME NEW kind, NEW run, NEW name, NEW id
  PROVE  /\ Event(kind, run, name, id).kind = kind /\ Event(kind, run, name, id).run = run
         /\ Event(kind, run, name, id).name = name /\ Event(kind, run, name, id).id = id
BY DEF Event

LEMMA OneEvent ==
  ASSUME NEW e \in Events
  PROVE  <<e>> \in Seq(Events)
OBVIOUS

LEMMA CallTyped ==
  ASSUME AgentTypeOK, NEW k \in DOMAIN asked
  PROVE  /\ Call(k) \in Messages /\ Call(k).id = <<turn, k>> /\ Call(k).name = asked[k]
         /\ Call(k).id \in CallIds /\ k \in Nat /\ asked[k] \in STRING /\ turn \in Nat
<1>1. turn \in Nat /\ asked \in Seq(STRING)
  BY TracingAssumption DEF AgentTypeOK
<1>2. k \in Nat /\ asked[k] \in STRING
  BY <1>1
<1>. QED  BY <1>1, <1>2 DEF Call, Messages, CallIds

LEMMA MessageEventTyped ==
  ASSUME NEW c \in Messages
  PROVE  /\ MessageEvent(c) \in Events
         /\ MessageEvent(c).kind = "tool_message" /\ MessageEvent(c).id = c.id
<1>1. c.id \in CallIds /\ c.name \in STRING /\ c.id[1] \in Nat
  BY DEF Messages, CallIds
<1>2. PICK run, name, id : run = c.id[1] /\ name = c.name /\ id = c.id
  OBVIOUS
<1>3. MessageEvent(c) = Event("tool_message", run, name, id)
  BY <1>2 DEF MessageEvent
<1>4. Event("tool_message", run, name, id) \in Events
  BY <1>1, <1>2, EventKinds
<1>. QED  BY <1>2, <1>3, <1>4, EventFields

\* The messages that the end of a run brings again.
Again(ms) == [i \in DOMAIN ms |-> MessageEvent(Reverse(ms)[i])]

LEMMA AgainTyped ==
  ASSUME NEW ms \in Seq(Messages)
  PROVE  /\ Again(ms) \in Seq(Events) /\ Len(Again(ms)) = Len(ms)
         /\ \A i \in 1 .. Len(ms) : \E j \in DOMAIN ms : Again(ms)[i] = MessageEvent(ms[j])
<1>1. PICK rs : rs = Reverse(ms)
  OBVIOUS
<1>2. \A i \in 1 .. Len(ms) : Len(ms) - i + 1 \in 1 .. Len(ms)
  OBVIOUS
<1>3. \A i \in 1 .. Len(ms) : rs[i] = ms[Len(ms) - i + 1]
  BY <1>1, <1>2 DEF Reverse
<1>4. \A i \in 1 .. Len(ms) : \E j \in 1 .. Len(ms) : rs[i] = ms[j]
  BY <1>2, <1>3
<1>5. PICK es : es = [i \in 1 .. Len(ms) |-> MessageEvent(rs[i])]
  OBVIOUS
<1>6. \A i \in 1 .. Len(ms) : es[i] = MessageEvent(rs[i]) /\ rs[i] \in Messages
  BY <1>4, <1>5
<1>7. \A i \in 1 .. Len(ms) : es[i] \in Events
  BY <1>6, MessageEventTyped
<1>8. es \in Seq(Events) /\ Len(es) = Len(ms)
  BY <1>5, <1>7
<1>9. Again(ms) = es
  BY <1>1, <1>5 DEF Again
<1>10. DOMAIN ms = 1 .. Len(ms)
  OBVIOUS
<1>11. \A i \in 1 .. Len(ms) : \E j \in DOMAIN ms : es[i] = MessageEvent(ms[j])
  <2>. TAKE i \in 1 .. Len(ms)
  <2>1. PICK j \in 1 .. Len(ms) : rs[i] = ms[j]
    BY <1>4
  <2>2. es[i] = MessageEvent(ms[j])
    BY <1>6, <2>1
  <2>. QED  BY <1>10, <2>2
<1>. QED  BY <1>8, <1>9, <1>11

LEMMA TracingTypesInit == TracingInit => AgentTypeOK /\ SinkOK
<1>. SUFFICES ASSUME TracingInit PROVE AgentTypeOK /\ SinkOK
  OBVIOUS
<1>1. <<>> \in Seq(STRING) /\ <<>> \in Seq(Messages) /\ <<>> \in Seq(Events) /\ Len(<<>>) = 0
  OBVIOUS
<1>2. progress \in [DOMAIN asked -> {"waiting", "running", "ended", "answered"}]
  BY DEF TracingInit
<1>3. AgentTypeOK
  <2>1. open \in BOOLEAN /\ phase = "idle"
    BY DEF TracingInit
  <2>2. turn \in 0 .. MaxTurns /\ cut \subseteq 1 .. turn
    BY TracingAssumption DEF TracingInit
  <2>3. asked \in Seq(STRING) /\ transcript \in Seq(Messages)
    BY <1>1 DEF TracingInit
  <2>. QED  BY <1>2, <2>1, <2>2, <2>3 DEF AgentTypeOK
<1>4. IsEndOf(sink, history)
  <2>1. 0 \in Nat /\ Len(history) = 0 + Len(sink) /\ \A n \in 1 .. Len(sink) : sink[n] = history[0 + n]
    BY DEF TracingInit
  <2>. QED  BY <2>1 DEF IsEndOf
<1>5. SinkOK
  BY <1>1, <1>4, TracingAssumption DEF TracingInit, SinkOK
<1>. QED  BY <1>3, <1>5

\* Every step keeps the agent typed and records typed events, if any.
LEMMA TracingTypesStep ==
  ASSUME AgentTypeOK, SinkOK, [TracingNext]_tracingVars
  PROVE  AgentTypeOK' /\ SinkOK'
<1>1. turn \in Nat /\ MaxTurns \in Nat
  BY TracingAssumption DEF AgentTypeOK
<1>2. UNCHANGED <<sink, history>> => SinkOK'
  BY DEF SinkOK
<1>3. CASE OnChatModelStart
  <2>1. turn + 1 \in Nat /\ Event("chat_model_start", turn', None, None) \in Events
    BY <1>1, <1>3, EventKinds DEF OnChatModelStart
  <2>2. SinkOK'
    BY <1>3, <2>1, OneEvent, RecordKeepsSink DEF OnChatModelStart
  <2>3. asked' = <<>> /\ progress' = <<>> /\ <<>> \in Seq(STRING)
    BY <1>3 DEF OnChatModelStart
  <2>4. progress' \in [DOMAIN asked' -> {"waiting", "running", "ended", "answered"}]
    BY <2>3
  <2>5. open' \in BOOLEAN /\ phase' = "reply"
    BY <1>3 DEF OnChatModelStart
  <2>6. turn' \in 0 .. MaxTurns /\ turn' # 0 /\ cut' \subseteq 1 .. turn'
    BY <1>1, <1>3 DEF OnChatModelStart, AgentTypeOK
  <2>7. asked' \in Seq(STRING) /\ transcript' \in Seq(Messages)
    BY <1>3, <2>3 DEF OnChatModelStart, AgentTypeOK
  <2>8. AgentTypeOK'
    BY <2>4, <2>5, <2>6, <2>7 DEF AgentTypeOK
  <2>. QED  BY <2>2, <2>8
<1>4. CASE OnLlmNewToken
  <2>1. SinkOK'
    BY <1>1, <1>4, EventKinds, OneEvent, RecordKeepsSink DEF OnLlmNewToken
  <2>. QED  BY <1>4, <2>1 DEF OnLlmNewToken, AgentTypeOK, agentVars
<1>5. ASSUME NEW tools \in Seq(STRING), NEW finish \in {"tool_calls", "stop"}, OnLlmEnd(tools, finish)
      PROVE  AgentTypeOK' /\ SinkOK'
  <2>1. PICK e : e = [kind |-> "llm_end", run |-> turn, tools |-> tools, finish |-> finish]
    OBVIOUS
  <2>2. e \in Events
    BY <1>1, <2>1 DEF Events, LlmEnds
  <2>3. SinkOK'
    BY <1>5, <2>1, <2>2, OneEvent, RecordKeepsSink DEF OnLlmEnd
  <2>. QED  BY <1>5, <2>3 DEF OnLlmEnd, AgentTypeOK
<1>6. CASE Reprompt
  BY <1>2, <1>6 DEF Reprompt, AgentTypeOK
<1>7. CASE Allow
  BY <1>2, <1>7 DEF Allow, AgentTypeOK
<1>8. ASSUME NEW k \in DOMAIN asked, NEW from, NEW to \in {"running", "ended", "answered"},
             Moves(k, from, to)
      PROVE  AgentTypeOK'
  BY <1>8 DEF Moves, AgentTypeOK
<1>9. ASSUME NEW k \in DOMAIN asked, OnToolStart(k) PROVE AgentTypeOK' /\ SinkOK'
  <2>1. Event("tool_start", turn, asked[k], None) \in Events
    BY CallTyped, EventKinds
  <2>. QED  BY <1>8, <1>9, <2>1, OneEvent, RecordKeepsSink DEF OnToolStart
<1>10. ASSUME NEW k \in DOMAIN asked, OnToolEnd(k) PROVE AgentTypeOK' /\ SinkOK'
  <2>1. PICK e : e = IF asked[k] \in Commanding THEN Event("tool_end", turn, None, None)
                     ELSE Event("tool_end", turn, asked[k], Call(k).id)
    OBVIOUS
  <2>2. e \in Events
    BY <2>1, CallTyped, EventKinds
  <2>. QED  BY <1>8, <1>10, <2>1, <2>2, OneEvent, RecordKeepsSink DEF OnToolEnd
<1>11. ASSUME NEW k \in DOMAIN asked, OnToolNodeEnd(k) PROVE AgentTypeOK' /\ SinkOK'
  <2>1. MessageEvent(Call(k)) \in Events
    BY CallTyped, MessageEventTyped
  <2>. QED  BY <1>8, <1>11, <2>1, OneEvent, RecordKeepsSink DEF OnToolNodeEnd
<1>12. CASE ToolsDone
  <2>1. PICK cs : cs = [k \in DOMAIN asked |-> Call(k)]
    OBVIOUS
  <2>2. \A k \in DOMAIN asked : Call(k) \in Messages
    BY CallTyped
  <2>3. DOMAIN asked = 1 .. Len(asked) /\ Len(asked) \in Nat
    BY DEF AgentTypeOK
  <2>4. cs \in Seq(Messages)
    BY <2>1, <2>2, <2>3
  <2>5. transcript \o cs \in Seq(Messages)
    BY <2>4, ConcatProperties DEF AgentTypeOK
  <2>6. AgentTypeOK'
    BY <1>12, <2>1, <2>5 DEF ToolsDone, AgentTypeOK
  <2>. QED  BY <1>2, <1>12, <2>6 DEF ToolsDone
<1>13. CASE OnChainEnd
  <2>1. Again(transcript) \in Seq(Events)
    BY AgainTyped DEF AgentTypeOK
  <2>2. Record(Again(transcript))
    BY <1>13 DEF OnChainEnd, Again
  <2>3. cut' \subseteq 1 .. turn
    BY <1>1, <1>13 DEF OnChainEnd, AgentTypeOK
  <2>4. AgentTypeOK'
    BY <1>13, <2>3 DEF OnChainEnd, AgentTypeOK
  <2>. QED  BY <2>1, <2>2, <2>4, RecordKeepsSink
<1>14. CASE UNCHANGED tracingVars
  BY <1>2, <1>14 DEF tracingVars, agentVars, AgentTypeOK
<1>15. \A tools \in Replies : tools \in Seq(STRING)
  BY TracingAssumption
<1>16. <<>> \in Seq(STRING)
  OBVIOUS
<1>17. CASE \E tools \in Replies : OnLlmEnd(tools, "tool_calls")
  <2>1. PICK tools \in Replies : OnLlmEnd(tools, "tool_calls")
    BY <1>17
  <2>2. tools \in Seq(STRING)
    BY <1>15
  <2>. QED  BY <1>5, <2>1, <2>2
<1>18. CASE OnLlmEnd(<<>>, "stop")
  BY <1>5, <1>16, <1>18
<1>19. CASE \E k \in DOMAIN asked : OnToolStart(k) \/ OnToolEnd(k) \/ OnToolNodeEnd(k)
  BY <1>9, <1>10, <1>11, <1>19
<1>. QED  BY <1>3, <1>4, <1>6, <1>7, <1>12, <1>13, <1>14, <1>17, <1>18, <1>19 DEF TracingNext

\* The inductive invariant: the agent is where it can be (the callbacks of TraceRecorder),
\* and the sink holds the end of the history within its capacity (TraceSink).
THEOREM TracingInvariant == TracingSpec => [](AgentTypeOK /\ SinkOK)
<1>1. TracingInit => AgentTypeOK /\ SinkOK
  BY TracingTypesInit
<1>2. (AgentTypeOK /\ SinkOK) /\ [TracingNext]_tracingVars => (AgentTypeOK /\ SinkOK)'
  BY TracingTypesStep
<1>. QED  BY <1>1, <1>2, PTL DEF TracingSpec

\* The types: the phases of the agent and of its calls, the turns cut short, and a sink
\* that keeps to its capacity (TraceSink).
THEOREM TracingTypeCorrect == TracingSpec => []TracingTypeOK
<1>1. AgentTypeOK /\ SinkOK => TracingTypeOK
  BY DEF AgentTypeOK, SinkOK, TracingTypeOK
<1>. QED  BY <1>1, TracingInvariant, PTL

\* However many events a full sink has dropped, what it lost are the oldest turns as
\* a whole: the turns that it shows are the last turns of the history (TraceSink,
\* TurnTracer.snapshot).
THEOREM SinkLosesWholeTurns == TracingSpec => []DropsWholeTurns
<1>1. SinkOK => DropsWholeTurns
  <2>. SUFFICES ASSUME SinkOK PROVE DropsWholeTurns
    OBVIOUS
  <2>1. PICK d \in Nat : /\ Len(history) = d + Len(sink)
                         /\ \A n \in 1 .. Len(sink) : sink[n] = history[d + n]
    BY DEF SinkOK, IsEndOf
  <2>2. PICK s \in Seq(Events), es \in Seq(Events) : s = sink /\ es = history
    BY DEF SinkOK
  <2>3. IsSuffix(Snapshot(s), Snapshot(es))
    BY <2>1, <2>2, SuffixSnapshot
  <2>. QED  BY <2>2, <2>3 DEF DropsWholeTurns
<1>. QED  BY <1>1, TracingInvariant, PTL

-----------------------------------------------------------------------------
(* The inductive invariant of AnswersReachTheirCalls                       *)

\* Requested and Reported of a sequence of events.
RequestedIn(es, run) ==
  UNION {{[id |-> <<run, k>>, name |-> es[i].tools[k]] : k \in DOMAIN es[i].tools} :
           i \in {j \in DOMAIN es : es[j].kind = "llm_end" /\ es[j].run = run}}
ReportedIn(es, kind) == {es[i].id : i \in {j \in DOMAIN es : es[j].kind = kind}}

\* What AnswersReachTheirCalls says of one invocation, and of those of one turn.
Right(v, messaged, returned) ==
  /\ v.message = IF v.id \in messaged THEN v.id ELSE None
  /\ v.id \in returned => v.result = v.id
  /\ v.id \notin returned => v.result \in {None, "unidentified"}
Asks(v) == [id |-> v.id, name |-> v.name]
Fine(invocations, requested, messaged, returned) ==
  /\ \A i \in DOMAIN invocations : invocations[i].id # None =>
       Asks(invocations[i]) \in requested /\ Right(invocations[i], messaged, returned)
  /\ \A q \in requested : \E i \in DOMAIN invocations :
       invocations[i].id # None /\ Asks(invocations[i]) = q
FineIn(es, t) ==
  Fine(t.invocations, RequestedIn(es, t.run), ReportedIn(es, "tool_message"), ReportedIn(es, "tool_end"))

\* The id of a call is in one place.
Unique(invocations) ==
  \A i, j \in DOMAIN invocations :
    invocations[i].id # None /\ invocations[i].id = invocations[j].id => i = j

\* The closed turns, and the turn under way, of a tracer in state s after es, when
\* the model was called n times and some turns are gone.
ClosedTurnsFine(s, es, n, gone) ==
  \A i \in DOMAIN s.turns :
    s.turns[i].run <= n /\ (s.turns[i].run \notin gone => FineIn(es, s.turns[i]))
CurrentTurnFine(s, es, n, gone) ==
  s.current # <<>> =>
    /\ s.current[1].run = n
    /\ \A i \in DOMAIN s.turns : s.turns[i].run < n
    /\ n \notin gone => FineIn(es, s.current[1]) /\ Unique(s.current[1].invocations)

\* Nothing was asked for, or reported, in a turn that is yet to come.
RequestedUpTo(es, n) == \A i \in DOMAIN es : es[i].kind = "llm_end" => es[i].run <= n
ReportedUpTo(es, n) ==
  \A id \in ReportedIn(es, "tool_message") \cup ReportedIn(es, "tool_end") : id # None => id[1] <= n

\* The tracer is where the agent is.
InStep ==
  /\ phase # "idle" => turn \notin cut
  /\ phase = "reply" => Traced(history).current # <<>> /\ Traced(history).current[1].invocations = <<>>
  /\ phase = "decide" => (open <=> Traced(history).current # <<>>) /\ (asked # <<>> => open)
  /\ phase = "tools" => Traced(history).current # <<>>
  /\ phase \in {"decide", "tools"} => \A k \in DOMAIN asked :
       /\ [id |-> <<turn, k>>, name |-> asked[k]] \in RequestedIn(history, turn)
       /\ progress[k] = "answered" => <<turn, k>> \in ReportedIn(history, "tool_message")

TracerInv ==
  /\ ClosedTurnsFine(Traced(history), history, turn, cut)
  /\ CurrentTurnFine(Traced(history), history, turn, cut)
  /\ RequestedUpTo(history, turn) /\ ReportedUpTo(history, turn)
  /\ phase \in {"reply", "decide"} => ReportedUpTo(history, turn - 1)
  /\ \A i \in DOMAIN transcript : transcript[i].id \in ReportedIn(history, "tool_message")
  /\ InStep

-----------------------------------------------------------------------------
(* What an event does to the turn under way                                *)

Invocations ==
  [id : CallIds \cup {None}, name : STRING \cup {"unknown"},
   result : CallIds \cup {None, "unidentified"}, message : CallIds \cup {None}]
Turns == [run : Nat, output : SUBSET Nat, invocations : Seq(Invocations)]

IsAboutTool(e) == e.kind \in {"tool_start", "tool_end", "tool_message"}

LEMMA EventCases ==
  ASSUME NEW e \in Events
  PROVE  /\ e.run \in Nat
         /\ \/ e.kind \in {"chat_model_start", "llm_new_token"}
            \/ e.kind = "llm_end" /\ e \in LlmEnds /\ e.tools \in Seq(STRING)
            \/ e.kind = "tool_start" /\ e.name \in STRING /\ e.id = None
            \/ e.kind = "tool_end" /\ e.name = None /\ e.id = None
            \/ e.kind \in {"tool_end", "tool_message"} /\ e.name \in STRING /\ e.id \in CallIds
BY DEF Events, PlainEvents, LlmEnds

LEMMA NoneIsNoId == None \notin CallIds
BY TracingAssumption DEF CallIds

\* The index that Matched gives.
LEMMA MatchedIs ==
  ASSUME NEW invs \in Seq(Invocations), NEW name, NEW id,
         NEW same, same = {i \in 1 .. Len(invs) : id # None /\ invs[i].id = id},
         NEW fits, fits = {i \in 1 .. Len(invs) :
                             ~IsComplete(invs[i]) /\ (name = None \/ invs[i].name = name)},
         NEW named, named = {i \in 1 .. Len(invs) : id # None /\ invs[i].name = name}
  PROVE  /\ same # {} => Matched(invs, name, id) \in same
         /\ same = {} /\ fits # {} => Matched(invs, name, id) \in fits
         /\ same = {} /\ fits = {} /\ named # {} => Matched(invs, name, id) \in named
         /\ same = {} /\ fits = {} /\ named = {} => Matched(invs, name, id) = 0
<1>1. Len(invs) \in Nat
  OBVIOUS
<1>2. same # {} => Min(same) \in same /\ Min(same) # 0
  <2>. SUFFICES ASSUME same # {} PROVE Min(same) \in same /\ Min(same) # 0
    OBVIOUS
  <2>1. same \in SUBSET Nat /\ 0 \notin same
    BY <1>1
  <2>. QED  BY <2>1, LeastNumber
<1>3. \A S \in SUBSET (1 .. Len(invs)) : S # {} => Max(S) \in S /\ Max(S) # 0
  <2>. SUFFICES ASSUME NEW S \in SUBSET (1 .. Len(invs)), S # {}
                PROVE  Max(S) \in S /\ Max(S) # 0
    OBVIOUS
  <2>1. PICK b \in Nat : b = Len(invs)
    BY <1>1
  <2>2. S \in SUBSET Nat /\ 0 \notin S /\ \A x \in S : x <= b
    BY <2>1
  <2>. QED  BY <2>1, <2>2, GreatestNumber
<1>4. fits \in SUBSET (1 .. Len(invs)) /\ named \in SUBSET (1 .. Len(invs))
  OBVIOUS
<1>5. Matched(invs, name, id) =
        IF (IF same # {} THEN Min(same) ELSE 0) # 0 THEN IF same # {} THEN Min(same) ELSE 0
        ELSE IF (IF fits # {} THEN Max(fits) ELSE 0) # 0 THEN IF fits # {} THEN Max(fits) ELSE 0
        ELSE IF named # {} THEN Max(named) ELSE 0
  BY DEF Matched, SelectInSeq, SelectLastInSeq
<1>. QED  BY <1>2, <1>3, <1>4, <1>5

LEMMA MatchedTyped ==
  ASSUME NEW invs \in Seq(Invocations), NEW name, NEW id
  PROVE  Matched(invs, name, id) \in 0 .. Len(invs)
<1>1. PICK same, fits, named :
        /\ same = {i \in 1 .. Len(invs) : id # None /\ invs[i].id = id}
        /\ fits = {i \in 1 .. Len(invs) :
                     ~IsComplete(invs[i]) /\ (name = None \/ invs[i].name = name)}
        /\ named = {i \in 1 .. Len(invs) : id # None /\ invs[i].name = name}
  OBVIOUS
<1>2. \/ Matched(invs, name, id) \in same \/ Matched(invs, name, id) \in fits
      \/ Matched(invs, name, id) \in named \/ Matched(invs, name, id) = 0
  BY <1>1, MatchedIs
<1>3. Len(invs) \in Nat
  OBVIOUS
<1>. QED  BY <1>1, <1>2, <1>3

\* An event with the id of one invocation is about this one.
LEMMA MatchedById ==
  ASSUME NEW invs \in Seq(Invocations), NEW name, NEW id \in CallIds,
         NEW a \in 1 .. Len(invs), invs[a].id = id, Unique(invs)
  PROVE  Matched(invs, name, id) = a
<1>1. PICK same, fits, named :
        /\ same = {i \in 1 .. Len(invs) : id # None /\ invs[i].id = id}
        /\ fits = {i \in 1 .. Len(invs) :
                     ~IsComplete(invs[i]) /\ (name = None \/ invs[i].name = name)}
        /\ named = {i \in 1 .. Len(invs) : id # None /\ invs[i].name = name}
  OBVIOUS
<1>2. a \in same
  BY <1>1, NoneIsNoId
<1>3. Matched(invs, name, id) \in same
  BY <1>1, <1>2, MatchedIs
<1>4. DOMAIN invs = 1 .. Len(invs)
  OBVIOUS
<1>. QED  BY <1>1, <1>3, <1>4 DEF Unique

\* An event without an id is about an incomplete invocation, if there is one.
LEMMA MatchedWithoutId ==
  ASSUME NEW invs \in Seq(Invocations), NEW name,
         NEW a \in 1 .. Len(invs), Matched(invs, name, None) = a
  PROVE  ~IsComplete(invs[a])
<1>1. PICK same, fits, named :
        /\ same = {i \in 1 .. Len(invs) : None # None /\ invs[i].id = None}
        /\ fits = {i \in 1 .. Len(invs) :
                     ~IsComplete(invs[i]) /\ (name = None \/ invs[i].name = name)}
        /\ named = {i \in 1 .. Len(invs) : None # None /\ invs[i].name = name}
  OBVIOUS
<1>2. a # 0 /\ same = {} /\ named = {}
  BY <1>1
<1>3. Matched(invs, name, None) \in fits
  BY <1>1, <1>2, MatchedIs
<1>. QED  BY <1>1, <1>3

LEMMA InvocationParts ==
  ASSUME NEW v \in Invocations
  PROVE  /\ v.id \in CallIds \cup {None} /\ v.name \in STRING \cup {"unknown"}
         /\ v.result \in CallIds \cup {None, "unidentified"} /\ v.message \in CallIds \cup {None}
         /\ v = [id |-> v.id, name |-> v.name, result |-> v.result, message |-> v.message]
BY DEF Invocations

LEMMA IsAnInvocation ==
  ASSUME NEW id \in CallIds \cup {None}, NEW name \in STRING \cup {"unknown"},
         NEW result \in CallIds \cup {None, "unidentified"}, NEW message \in CallIds \cup {None}
  PROVE  [id |-> id, name |-> name, result |-> result, message |-> message] \in Invocations
BY DEF Invocations

LEMMA NewInvocation ==
  ASSUME NEW id \in CallIds \cup {None}, NEW name \in STRING \cup {"unknown"}
  PROVE  /\ Invocation(id, name) \in Invocations
         /\ Invocation(id, name).id = id /\ Invocation(id, name).name = name
         /\ Invocation(id, name).result = None /\ Invocation(id, name).message = None
<1>1. Invocation(id, name) = [id |-> id, name |-> name, result |-> None, message |-> None]
  BY DEF Invocation
<1>. QED  BY <1>1, IsAnInvocation

\* What an event does to an invocation.
LEMMA ChangedParts ==
  ASSUME NEW v \in Invocations, NEW e \in Events, IsAboutTool(e)
  PROVE  /\ Changed(v, e) \in Invocations
         /\ Changed(v, e).id = v.id /\ Changed(v, e).name = v.name
         /\ Changed(v, e).result = IF e.kind = "tool_end" THEN Shown(e) ELSE v.result
         /\ Changed(v, e).message = IF e.kind = "tool_message" THEN e.id ELSE v.message
<1>1. PICK id \in CallIds \cup {None}, name \in STRING \cup {"unknown"},
           result \in CallIds \cup {None, "unidentified"}, message \in CallIds \cup {None} :
             v = [id |-> id, name |-> name, result |-> result, message |-> message]
  BY InvocationParts
<1>2. v.id = id /\ v.name = name /\ v.result = result /\ v.message = message
  BY <1>1
<1>3. CASE e.kind = "tool_start"
  <2>1. Changed(v, e) = v
    BY <1>3 DEF Changed
  <2>. QED  BY <1>3, <2>1
<1>4. CASE e.kind = "tool_end"
  <2>1. PICK r : r = Shown(e)
    OBVIOUS
  <2>2. r \in CallIds \cup {None, "unidentified"}
    BY <1>4, <2>1, EventCases DEF Shown
  <2>3. Changed(v, e) = [v EXCEPT !.result = r]
    BY <1>4, <2>1 DEF Changed
  <2>4. Changed(v, e) = [id |-> id, name |-> name, result |-> r, message |-> message]
    BY <1>1, <2>3
  <2>5. Changed(v, e) \in Invocations
    BY <2>2, <2>4, IsAnInvocation
  <2>. QED  BY <1>2, <1>4, <2>1, <2>4, <2>5
<1>5. CASE e.kind = "tool_message"
  <2>1. PICK m : m = e.id
    OBVIOUS
  <2>2. m \in CallIds \cup {None}
    BY <1>5, <2>1, EventCases
  <2>3. Changed(v, e) = [v EXCEPT !.message = m]
    BY <1>5, <2>1 DEF Changed
  <2>4. Changed(v, e) = [id |-> id, name |-> name, result |-> result, message |-> m]
    BY <1>1, <2>3
  <2>5. Changed(v, e) \in Invocations
    BY <2>2, <2>4, IsAnInvocation
  <2>. QED  BY <1>2, <1>5, <2>1, <2>4, <2>5
<1>. QED  BY <1>3, <1>4, <1>5 DEF IsAboutTool

\* An event about a tool adds an invocation or changes one, of which it can set the id.
LEMMA CorrelatedParts ==
  ASSUME NEW invs \in Seq(Invocations), NEW e \in Events, IsAboutTool(e),
         NEW a, a = Matched(invs, e.name, e.id)
  PROVE  \/ /\ a = 0
            /\ \E w \in Invocations :
                 /\ Correlated(invs, e) = Append(invs, Changed(w, e))
                 /\ w.id = e.id /\ w.result = None /\ w.message = None
         \/ /\ a \in 1 .. Len(invs)
            /\ \E w \in Invocations :
                 /\ w.id = (IF invs[a].id = None THEN e.id ELSE invs[a].id)
                 /\ w.name = invs[a].name
                 /\ w.result = invs[a].result /\ w.message = invs[a].message
                 /\ Correlated(invs, e) =
                      [k \in 1 .. Len(invs) |-> IF k = a THEN Changed(w, e) ELSE invs[k]]
<1>1. e.id \in CallIds \cup {None} /\ e.name \in STRING \cup {None}
  BY EventCases DEF IsAboutTool
<1>2. a \in 0 .. Len(invs)
  BY MatchedTyped
<1>3. CASE a = 0
  <2>1. PICK name : name = IF e.name = None THEN "unknown" ELSE e.name
    OBVIOUS
  <2>2. PICK w : w = Invocation(e.id, name)
    OBVIOUS
  <2>3. name \in STRING \cup {"unknown"}
    BY <1>1, <2>1
  <2>4. w \in Invocations /\ w.id = e.id /\ w.result = None /\ w.message = None
    BY <1>1, <2>2, <2>3, NewInvocation
  <2>5. Correlated(invs, e) = Append(invs, Changed(w, e))
    BY <1>3, <2>1, <2>2, Zenon DEF Correlated
  <2>. QED  BY <1>3, <2>4, <2>5
<1>4. CASE a # 0
  <2>1. a \in 1 .. Len(invs) /\ DOMAIN invs = 1 .. Len(invs)
    BY <1>2, <1>4
  <2>2. PICK w : w = IF invs[a].id = None THEN [invs[a] EXCEPT !.id = e.id] ELSE invs[a]
    OBVIOUS
  <2>3. invs[a] \in Invocations
    BY <2>1
  <2>4. PICK id \in CallIds \cup {None}, name \in STRING \cup {"unknown"},
             result \in CallIds \cup {None, "unidentified"}, message \in CallIds \cup {None} :
               invs[a] = [id |-> id, name |-> name, result |-> result, message |-> message]
    BY <2>3, InvocationParts
  <2>5. PICK i : i = IF invs[a].id = None THEN e.id ELSE invs[a].id
    OBVIOUS
  <2>6. w = [id |-> i, name |-> name, result |-> result, message |-> message]
    BY <2>2, <2>4, <2>5
  <2>7. i \in CallIds \cup {None}
    BY <1>1, <2>4, <2>5
  <2>8. w \in Invocations
    BY <2>6, <2>7, IsAnInvocation
  <2>9. Correlated(invs, e) =
          [k \in DOMAIN invs |->
             IF k = a
             THEN Changed(IF invs[k].id = None THEN [invs[k] EXCEPT !.id = e.id] ELSE invs[k], e)
             ELSE invs[k]]
    BY <1>4, Zenon DEF Correlated
  <2>10. Correlated(invs, e) = [k \in 1 .. Len(invs) |-> IF k = a THEN Changed(w, e) ELSE invs[k]]
    BY <2>1, <2>2, <2>9
  <2>11. /\ w.id = i /\ w.name = invs[a].name
         /\ w.result = invs[a].result /\ w.message = invs[a].message
    BY <2>4, <2>6
  <2>. QED  BY <2>1, <2>5, <2>8, <2>10, <2>11
<1>. QED  BY <1>3, <1>4

LEMMA CorrelatedTyped ==
  ASSUME NEW invs \in Seq(Invocations), NEW e \in Events, IsAboutTool(e)
  PROVE  Correlated(invs, e) \in Seq(Invocations)
<1>1. PICK a : a = Matched(invs, e.name, e.id)
  OBVIOUS
<1>2. ASSUME NEW w \in Invocations, Correlated(invs, e) = Append(invs, Changed(w, e))
      PROVE  Correlated(invs, e) \in Seq(Invocations)
  <2>1. Changed(w, e) \in Invocations
    BY ChangedParts
  <2>. QED  BY <1>2, <2>1
<1>3. ASSUME NEW w \in Invocations,
             Correlated(invs, e) = [k \in 1 .. Len(invs) |-> IF k = a THEN Changed(w, e) ELSE invs[k]]
      PROVE  Correlated(invs, e) \in Seq(Invocations)
  <2>1. Changed(w, e) \in Invocations
    BY ChangedParts
  <2>2. PICK l \in Nat, v \in Invocations : l = Len(invs) /\ v = Changed(w, e)
    BY <2>1
  <2>3. Correlated(invs, e) = [k \in 1 .. l |-> IF k = a THEN v ELSE invs[k]]
    BY <1>3, <2>2
  <2>4. \A k \in 1 .. l : (IF k = a THEN v ELSE invs[k]) \in Invocations
    BY <2>2
  <2>. QED  BY <2>3, <2>4
<1>4. \/ \E w \in Invocations : Correlated(invs, e) = Append(invs, Changed(w, e))
      \/ \E w \in Invocations :
           Correlated(invs, e) = [k \in 1 .. Len(invs) |-> IF k = a THEN Changed(w, e) ELSE invs[k]]
  BY <1>1, CorrelatedParts
<1>. QED  BY <1>2, <1>3, <1>4, Zenon

LEMMA TurnParts ==
  ASSUME NEW t \in Turns
  PROVE  /\ t.run \in Nat /\ t.output \in SUBSET Nat /\ t.invocations \in Seq(Invocations)
         /\ t = [run |-> t.run, output |-> t.output, invocations |-> t.invocations]
BY DEF Turns

LEMMA IsATurn ==
  ASSUME NEW run \in Nat, NEW output \in SUBSET Nat, NEW invs \in Seq(Invocations)
  PROVE  [run |-> run, output |-> output, invocations |-> invs] \in Turns
BY DEF Turns

LEMMA NewTurn ==
  ASSUME NEW run \in Nat
  PROVE  Turn(run) \in Turns /\ Turn(run).run = run /\ Turn(run).invocations = <<>>
<1>1. <<>> \in Seq(Invocations) /\ {} \in SUBSET Nat
  OBVIOUS
<1>2. PICK n \in Seq(Invocations), o \in SUBSET Nat : n = <<>> /\ o = {}
  BY <1>1
<1>3. Turn(run) = [run |-> run, output |-> o, invocations |-> n]
  BY <1>2 DEF Turn
<1>4. Turn(run) \in Turns
  BY <1>3, IsATurn
<1>. QED  BY <1>2, <1>3, <1>4

\* The invocations of the calls that a reply asks for.
Asked(run, tools) == [k \in DOMAIN tools |-> Invocation(<<run, k>>, tools[k])]

LEMMA AskedTyped ==
  ASSUME NEW run \in Nat, NEW tools \in Seq(STRING)
  PROVE  /\ Asked(run, tools) \in Seq(Invocations)
         /\ DOMAIN Asked(run, tools) = DOMAIN tools
         /\ \A k \in DOMAIN tools :
              /\ Asked(run, tools)[k].id = <<run, k>> /\ Asked(run, tools)[k].name = tools[k]
              /\ Asked(run, tools)[k].result = None /\ Asked(run, tools)[k].message = None
              /\ <<run, k>> \in CallIds
<1>1. DOMAIN tools = 1 .. Len(tools) /\ Len(tools) \in Nat
  OBVIOUS
<1>2. \A k \in DOMAIN tools : <<run, k>> \in CallIds /\ tools[k] \in STRING
  BY <1>1 DEF CallIds
<1>3. PICK s : s = Asked(run, tools)
  OBVIOUS
<1>4. DOMAIN s = DOMAIN tools /\ s = [k \in 1 .. Len(tools) |-> s[k]]
  BY <1>1, <1>3 DEF Asked
<1>5. \A k \in DOMAIN tools : /\ s[k] \in Invocations
                              /\ s[k].id = <<run, k>> /\ s[k].name = tools[k]
                              /\ s[k].result = None /\ s[k].message = None
  <2>. TAKE k \in DOMAIN tools
  <2>1. PICK id, name : id = <<run, k>> /\ name = tools[k]
    OBVIOUS
  <2>2. s[k] = Invocation(id, name)
    BY <1>3, <2>1 DEF Asked
  <2>3. id \in CallIds \cup {None} /\ name \in STRING \cup {"unknown"}
    BY <1>2, <2>1
  <2>4. PICK v \in Invocations : /\ v = Invocation(id, name) /\ v.id = id /\ v.name = name
                                 /\ v.result = None /\ v.message = None
    BY <2>3, NewInvocation
  <2>. QED  BY <2>1, <2>2, <2>4
<1>6. s \in Seq(Invocations)
  BY <1>1, <1>4, <1>5
<1>. QED  BY <1>2, <1>3, <1>4, <1>5, <1>6

\* What an event does to the turn under way.
LEMMA ContinuedParts ==
  ASSUME NEW t \in Turns, NEW e \in Events, e.kind # "chat_model_start"
  PROVE  /\ Continued(t, e) \in Turns /\ Continued(t, e).run = t.run
         /\ e.kind = "llm_new_token" => Continued(t, e).invocations = t.invocations
         /\ e.kind = "llm_end" => Continued(t, e).invocations = Asked(e.run, e.tools)
         /\ IsAboutTool(e) => Continued(t, e).invocations = Correlated(t.invocations, e)
<1>1. PICK run \in Nat, output \in SUBSET Nat, invs \in Seq(Invocations) :
        t = [run |-> run, output |-> output, invocations |-> invs]
  BY TurnParts
<1>2. t.run = run /\ t.output = output /\ t.invocations = invs
  BY <1>1
<1>3. CASE e.kind = "llm_new_token"
  <2>1. PICK o \in SUBSET Nat : o = output \cup {e.run}
    BY EventCases
  <2>2. Continued(t, e) = [t EXCEPT !.output = o]
    BY <1>2, <1>3, <2>1 DEF Continued
  <2>3. Continued(t, e) = [run |-> run, output |-> o, invocations |-> invs]
    BY <1>1, <2>2
  <2>4. Continued(t, e) \in Turns
    BY <2>3, IsATurn
  <2>. QED  BY <1>2, <1>3, <2>3, <2>4 DEF IsAboutTool
<1>4. ASSUME NEW is \in Seq(Invocations), Continued(t, e) = [t EXCEPT !.invocations = is]
      PROVE  /\ Continued(t, e) \in Turns /\ Continued(t, e).run = t.run
             /\ Continued(t, e).invocations = is
  <2>1. Continued(t, e) = [run |-> run, output |-> output, invocations |-> is]
    BY <1>1, <1>4
  <2>2. Continued(t, e) \in Turns
    BY <2>1, IsATurn
  <2>. QED  BY <1>2, <2>1, <2>2
<1>5. CASE e.kind = "llm_end"
  <2>1. PICK is : is = Asked(e.run, e.tools)
    OBVIOUS
  <2>2. is \in Seq(Invocations)
    BY <1>5, <2>1, EventCases, AskedTyped
  <2>3. Continued(t, e) = [t EXCEPT !.invocations = is]
    BY <1>5, <2>1 DEF Continued, Asked
  <2>. QED  BY <1>4, <1>5, <2>1, <2>2, <2>3 DEF IsAboutTool
<1>6. CASE IsAboutTool(e)
  <2>1. PICK is : is = Correlated(invs, e)
    OBVIOUS
  <2>2. is \in Seq(Invocations)
    BY <1>6, <2>1, CorrelatedTyped
  <2>3. Continued(t, e) = [t EXCEPT !.invocations = is]
    BY <1>2, <1>6, <2>1 DEF Continued, IsAboutTool
  <2>. QED  BY <1>2, <1>4, <1>6, <2>1, <2>2, <2>3 DEF IsAboutTool
<1>. QED  BY <1>3, <1>5, <1>6, EventCases DEF IsAboutTool

LEMMA AfterTyped ==
  ASSUME NEW s \in States(Turns), NEW e \in Events
  PROVE  After(s, e) \in States(Turns)
<1>1. e.kind = "chat_model_start" => Turn(e.run) \in Turns
  BY EventCases, NewTurn
<1>2. e.kind # "chat_model_start" /\ s.current # <<>> => Continued(s.current[1], e) \in Turns
  <2>. SUFFICES ASSUME e.kind # "chat_model_start", s.current # <<>>
                PROVE  Continued(s.current[1], e) \in Turns
    OBVIOUS
  <2>1. PICK t \in Turns : s.current = <<t>>
    BY StateParts
  <2>2. s.current[1] = t
    BY <2>1
  <2>. QED  BY <2>2, ContinuedParts
<1>. QED  BY <1>1, <1>2, AfterIsAState DEF Covers

\* The tracer stays a tracer of such turns.
LEMMA TracedTyped ==
  ASSUME NEW es \in Seq(Events)
  PROVE  Traced(es) \in States(Turns)
<1>1. PICK f : IsTrace(f, es) /\ Traced(es) = f[Len(es)]
  BY TracedByATrace
<1>. DEFINE P == {n \in Nat : n <= Len(es) => f[n] \in States(Turns)}
<1>2. 0 \in P
  <2>1. <<>> \in Seq(Turns)
    OBVIOUS
  <2>. QED  BY <1>1, <2>1, IsAState DEF IsTrace, Untraced
<1>3. ASSUME NEW n \in Nat, n \in P PROVE n + 1 \in P
  <2>. SUFFICES ASSUME n + 1 <= Len(es) PROVE f[n + 1] \in States(Turns)
    OBVIOUS
  <2>1. n + 1 \in 1 .. Len(es) /\ (n + 1) - 1 = n /\ f[n] \in States(Turns)
    BY <1>3
  <2>2. PICK s \in States(Turns), e \in Events : s = f[n] /\ e = es[n + 1]
    BY <2>1
  <2>3. f[n + 1] = After(s, e)
    BY <1>1, <2>1, <2>2 DEF IsTrace
  <2>4. After(s, e) \in States(Turns)
    BY AfterTyped
  <2>. QED  BY <2>3, <2>4
<1>. HIDE DEF P
<1>4. Len(es) \in P
  BY <1>2, <1>3, NaturalsByInduction
<1>. QED  BY <1>1, <1>4 DEF P

-----------------------------------------------------------------------------
(* What is asked for and reported in a sequence of events                  *)

LEMMA RequestedBy ==
  ASSUME NEW es, NEW run, NEW q
  PROVE  q \in RequestedIn(es, run) <=>
           \E i \in DOMAIN es : /\ es[i].kind = "llm_end" /\ es[i].run = run
                                /\ \E k \in DOMAIN es[i].tools :
                                     q = [id |-> <<run, k>>, name |-> es[i].tools[k]]
BY DEF RequestedIn

LEMMA OneMoreEvent ==
  ASSUME NEW es \in Seq(Events), NEW e \in Events, NEW l, l = Append(es, e)
  PROVE  /\ l \in Seq(Events) /\ DOMAIN l = DOMAIN es \cup {Len(es) + 1}
         /\ l[Len(es) + 1] = e /\ \A i \in DOMAIN es : l[i] = es[i]
OBVIOUS

LEMMA RequestedOneMore ==
  ASSUME NEW es \in Seq(Events), NEW e \in Events, NEW l, l = Append(es, e), NEW run, NEW q
  PROVE  q \in RequestedIn(l, run) <=>
           \/ q \in RequestedIn(es, run)
           \/ /\ e.kind = "llm_end" /\ e.run = run
              /\ \E k \in DOMAIN e.tools : q = [id |-> <<run, k>>, name |-> e.tools[k]]
<1>1. /\ DOMAIN l = DOMAIN es \cup {Len(es) + 1}
      /\ l[Len(es) + 1] = e /\ \A i \in DOMAIN es : l[i] = es[i]
  BY OneMoreEvent
<1>2. PICK n : n = Len(es) + 1
  OBVIOUS
<1>3. ASSUME NEW i \in DOMAIN es
      PROVE  l[i] = es[i] /\ i \in DOMAIN l
  BY <1>1
<1>. DEFINE Has(x) == /\ x.kind = "llm_end" /\ x.run = run
                      /\ \E k \in DOMAIN x.tools : q = [id |-> <<run, k>>, name |-> x.tools[k]]
<1>4. (\E i \in DOMAIN l : Has(l[i])) <=> (\E i \in DOMAIN es : Has(es[i])) \/ Has(e)
  <2>. HIDE DEF Has
  <2>. QED  BY <1>1
<1>5. q \in RequestedIn(l, run) <=> \E i \in DOMAIN l : Has(l[i])
  BY DEF RequestedIn
<1>6. q \in RequestedIn(es, run) <=> \E i \in DOMAIN es : Has(es[i])
  BY DEF RequestedIn
<1>7. Has(e) <=> /\ e.kind = "llm_end" /\ e.run = run
                 /\ \E k \in DOMAIN e.tools : q = [id |-> <<run, k>>, name |-> e.tools[k]]
  OBVIOUS
<1>. HIDE DEF Has
<1>. QED  BY <1>4, <1>5, <1>6, <1>7, Zenon

LEMMA ReportedOneMore ==
  ASSUME NEW es \in Seq(Events), NEW e \in Events, NEW l, l = Append(es, e),
         NEW kind \in {"tool_end", "tool_message"}
  PROVE  ReportedIn(l, kind) = IF e.kind = kind THEN ReportedIn(es, kind) \cup {e.id}
                               ELSE ReportedIn(es, kind)
<1>1. /\ DOMAIN l = DOMAIN es \cup {Len(es) + 1}
      /\ l[Len(es) + 1] = e /\ \A i \in DOMAIN es : l[i] = es[i]
  BY OneMoreEvent
<1>2. ASSUME NEW id
      PROVE  (\E i \in DOMAIN l : l[i].kind = kind /\ id = l[i].id) <=>
               (\E i \in DOMAIN es : es[i].kind = kind /\ id = es[i].id) \/ (e.kind = kind /\ id = e.id)
  BY <1>1
<1>3. /\ \A id \in ReportedIn(l, kind) : \E i \in DOMAIN l : l[i].kind = kind /\ id = l[i].id
      /\ \A i \in DOMAIN l : l[i].kind = kind => l[i].id \in ReportedIn(l, kind)
  BY DEF ReportedIn
<1>4. /\ \A id \in ReportedIn(es, kind) : \E i \in DOMAIN es : es[i].kind = kind /\ id = es[i].id
      /\ \A i \in DOMAIN es : es[i].kind = kind => es[i].id \in ReportedIn(es, kind)
  BY DEF ReportedIn
<1>5. ASSUME NEW id
      PROVE  id \in ReportedIn(l, kind) <=> id \in ReportedIn(es, kind) \/ (e.kind = kind /\ id = e.id)
  BY <1>2, <1>3, <1>4
<1>6. CASE e.kind = kind
  BY <1>5, <1>6
<1>7. CASE e.kind # kind
  <2>1. ReportedIn(l, kind) = ReportedIn(es, kind)
    BY <1>5, <1>7
  <2>. QED  BY <1>7, <2>1
<1>. QED  BY <1>6, <1>7

\* What was asked for in a turn has the number of the turn in its id.
LEMMA RequestedHere ==
  ASSUME NEW es, NEW run, NEW q \in RequestedIn(es, run)
  PROVE  q.id # None => q.id[1] = run
BY RequestedBy

\* An event of another turn leaves a turn as it is.
LEMMA FineElsewhere ==
  ASSUME NEW es \in Seq(Events), NEW e \in Events, NEW l, l = Append(es, e),
         NEW t, FineIn(es, t),
         e.kind = "llm_end" => e.run # t.run,
         e.kind \in {"tool_end", "tool_message"} /\ e.id # None => e.id[1] # t.run
  PROVE  FineIn(l, t)
<1>1. PICK invs, run : invs = t.invocations /\ run = t.run
  OBVIOUS
<1>2. RequestedIn(l, run) = RequestedIn(es, run)
  <2>1. \A q : q \in RequestedIn(l, run) <=> q \in RequestedIn(es, run)
    BY <1>1, RequestedOneMore
  <2>. QED  BY <2>1
<1>3. PICK requested, mes, ret, mes2, ret2 :
        /\ requested = RequestedIn(es, run)
        /\ mes = ReportedIn(es, "tool_message") /\ ret = ReportedIn(es, "tool_end")
        /\ mes2 = ReportedIn(l, "tool_message") /\ ret2 = ReportedIn(l, "tool_end")
  OBVIOUS
<1>4. \A q \in requested : q.id # None => q.id[1] = run
  BY <1>3, RequestedHere
<1>5. \A id : id # None /\ id[1] = run => (id \in mes2 <=> id \in mes) /\ (id \in ret2 <=> id \in ret)
  <2>. SUFFICES ASSUME NEW id, id # None, id[1] = run
                PROVE  (id \in mes2 <=> id \in mes) /\ (id \in ret2 <=> id \in ret)
    OBVIOUS
  <2>1. \A kind \in {"tool_end", "tool_message"} :
          ReportedIn(l, kind) = IF e.kind = kind THEN ReportedIn(es, kind) \cup {e.id}
                                 ELSE ReportedIn(es, kind)
    BY ReportedOneMore
  <2>2. id \in mes2 <=> id \in mes \/ (e.kind = "tool_message" /\ id = e.id)
    BY <1>3, <2>1
  <2>3. id \in ret2 <=> id \in ret \/ (e.kind = "tool_end" /\ id = e.id)
    BY <1>3, <2>1
  <2>. QED  BY <1>1, <2>2, <2>3
<1>6. Fine(invs, requested, mes, ret)
  BY <1>1, <1>3 DEF FineIn
<1>7. Fine(invs, requested, mes2, ret2)
  <2>1. ASSUME NEW i \in DOMAIN invs, invs[i].id # None
        PROVE  Asks(invs[i]) \in requested /\ Right(invs[i], mes2, ret2)
    <3>1. Asks(invs[i]) \in requested /\ Right(invs[i], mes, ret)
      BY <1>6, <2>1 DEF Fine
    <3>2. invs[i].id[1] = run
      BY <1>4, <2>1, <3>1 DEF Asks
    <3>. QED  BY <1>5, <2>1, <3>1, <3>2 DEF Right
  <2>. QED  BY <1>6, <2>1 DEF Fine
<1>. QED  BY <1>1, <1>2, <1>3, <1>7 DEF FineIn

\* An event about a tool changes the invocation with the id of its call, or one that
\* has no id or neither result nor message.
LEMMA FineCorrelated ==
  ASSUME NEW invs \in Seq(Invocations), Unique(invs), NEW e \in Events, IsAboutTool(e),
         NEW requested, NEW mes, NEW ret, NEW mes2, NEW ret2, Fine(invs, requested, mes, ret),
         \A q \in requested : q.id # None,
         e.id # None => [id |-> e.id, name |-> e.name] \in requested,
         \A id : id \in mes2 <=> id \in mes \/ (e.kind = "tool_message" /\ id = e.id),
         \A id : id \in ret2 <=> id \in ret \/ (e.kind = "tool_end" /\ id = e.id)
  PROVE  Unique(Correlated(invs, e)) /\ Fine(Correlated(invs, e), requested, mes2, ret2)
<1>1. e.id \in CallIds \cup {None} /\ None \notin CallIds /\ (e.kind = "tool_message" => e.id # None)
  BY EventCases, NoneIsNoId DEF IsAboutTool
<1>2. PICK a, r : a = Matched(invs, e.name, e.id) /\ r = Correlated(invs, e)
  OBVIOUS
<1>3. DOMAIN invs = 1 .. Len(invs) /\ Len(invs) \in Nat
  OBVIOUS
<1>4. e.id # None => a \in 1 .. Len(invs) /\ invs[a].id = e.id
  <2>. SUFFICES ASSUME e.id # None PROVE a \in 1 .. Len(invs) /\ invs[a].id = e.id
    OBVIOUS
  <2>1. PICK b \in DOMAIN invs : invs[b].id # None /\ Asks(invs[b]) = [id |-> e.id, name |-> e.name]
    BY DEF Fine
  <2>2. invs[b].id = e.id
    BY <2>1 DEF Asks
  <2>3. a = b
    BY <1>1, <1>2, <1>3, <2>2, MatchedById
  <2>. QED  BY <1>3, <2>2, <2>3
<1>5. ASSUME NEW v, v.id # None, v.id # e.id, Right(v, mes, ret)
      PROVE  Right(v, mes2, ret2)
  BY <1>5 DEF Right
<1>6. ASSUME NEW w \in Invocations, r = Append(invs, Changed(w, e)), w.id = e.id, a = 0
      PROVE  Unique(r) /\ Fine(r, requested, mes2, ret2)
  <2>1. e.id = None
    BY <1>4, <1>6
  <2>2. PICK v \in Invocations : v = Changed(w, e) /\ v.id = None
    BY <1>6, <2>1, ChangedParts
  <2>3. /\ DOMAIN r = DOMAIN invs \cup {Len(invs) + 1} /\ r[Len(invs) + 1] = v
        /\ \A i \in DOMAIN invs : r[i] = invs[i]
    BY <1>3, <1>6, <2>2
  <2>4. \A i \in DOMAIN r : r[i].id # None => i \in DOMAIN invs /\ r[i] = invs[i]
    BY <2>2, <2>3
  <2>5. Unique(r)
    BY <2>3, <2>4 DEF Unique
  <2>6. ASSUME NEW i \in DOMAIN r, r[i].id # None
        PROVE  Asks(r[i]) \in requested /\ Right(r[i], mes2, ret2)
    <3>1. i \in DOMAIN invs /\ r[i] = invs[i]
      BY <2>4, <2>6
    <3>2. Asks(invs[i]) \in requested /\ Right(invs[i], mes, ret) /\ invs[i].id # None
      BY <2>6, <3>1 DEF Fine
    <3>. QED  BY <1>5, <2>1, <3>1, <3>2
  <2>7. \A q \in requested : \E i \in DOMAIN r : r[i].id # None /\ Asks(r[i]) = q
    <3>. TAKE q \in requested
    <3>1. PICK i \in DOMAIN invs : invs[i].id # None /\ Asks(invs[i]) = q
      BY DEF Fine
    <3>. QED  BY <2>3, <3>1
  <2>. QED  BY <2>5, <2>6, <2>7 DEF Fine
<1>7. ASSUME NEW w \in Invocations, a \in 1 .. Len(invs),
             w.id = IF invs[a].id = None THEN e.id ELSE invs[a].id, w.name = invs[a].name,
             w.result = invs[a].result, w.message = invs[a].message,
             r = [k \in 1 .. Len(invs) |-> IF k = a THEN Changed(w, e) ELSE invs[k]]
      PROVE  Unique(r) /\ Fine(r, requested, mes2, ret2)
  <2>1. w.id = invs[a].id
    BY <1>4, <1>7
  <2>2. PICK v \in Invocations :
          /\ v = Changed(w, e) /\ v.id = invs[a].id /\ v.name = invs[a].name
          /\ v.result = IF e.kind = "tool_end" THEN Shown(e) ELSE invs[a].result
          /\ v.message = IF e.kind = "tool_message" THEN e.id ELSE invs[a].message
    BY <1>7, <2>1, ChangedParts
  <2>3. DOMAIN r = DOMAIN invs /\ r[a] = v /\ \A i \in DOMAIN invs : i # a => r[i] = invs[i]
    BY <1>3, <1>7, <2>2
  <2>4. \A i \in DOMAIN invs : r[i].id = invs[i].id /\ r[i].name = invs[i].name
    BY <2>2, <2>3
  <2>5. Unique(r)
    BY <2>3, <2>4 DEF Unique
  <2>6. v.id # None => Right(v, mes2, ret2)
    <3>. SUFFICES ASSUME v.id # None PROVE Right(v, mes2, ret2)
      OBVIOUS
    <3>1. Right(invs[a], mes, ret)
      BY <1>3, <1>7, <2>2 DEF Fine
    <3>2. CASE e.id = None
      <4>1. ~IsComplete(invs[a])
        BY <1>2, <1>7, <3>2, MatchedWithoutId
      <4>2. invs[a].result = None
        BY <4>1 DEF IsComplete
      <4>3. e.kind # "tool_message"
        BY <1>1, <3>2
      <4>4. v.id \notin ret
        BY <2>2, <3>1, <4>2 DEF Right
      <4>5. v.id \notin ret2 /\ (v.id \in mes2 <=> v.id \in mes)
        BY <3>2, <4>3, <4>4
      <4>6. v.result \in {None, "unidentified"}
        BY <2>2, <3>2, <4>2 DEF Shown
      <4>. QED  BY <2>2, <3>1, <4>3, <4>5, <4>6 DEF Right
    <3>3. CASE e.id # None
      <4>1. v.id = e.id
        BY <1>4, <2>2, <3>3
      <4>2. CASE e.kind = "tool_message"
        <5>1. v.message = v.id /\ v.result = invs[a].result
          BY <2>2, <4>1, <4>2
        <5>2. v.id \in mes2 /\ (v.id \in ret2 <=> v.id \in ret)
          BY <4>1, <4>2
        <5>. QED  BY <2>2, <3>1, <5>1, <5>2 DEF Right
      <4>3. CASE e.kind = "tool_end"
        <5>1. v.result = v.id /\ v.message = invs[a].message
          BY <2>2, <3>3, <4>1, <4>3 DEF Shown
        <5>2. v.id \in ret2 /\ (v.id \in mes2 <=> v.id \in mes)
          BY <4>1, <4>3
        <5>. QED  BY <2>2, <3>1, <5>1, <5>2 DEF Right
      <4>4. CASE e.kind = "tool_start"
        BY <3>3, <4>4, EventCases
      <4>. QED  BY <4>2, <4>3, <4>4 DEF IsAboutTool
    <3>. QED  BY <3>2, <3>3
  <2>7. ASSUME NEW i \in DOMAIN r, r[i].id # None
        PROVE  Asks(r[i]) \in requested /\ Right(r[i], mes2, ret2)
    <3>1. i \in DOMAIN invs /\ invs[i].id # None
      BY <2>3, <2>4, <2>7
    <3>2. Asks(invs[i]) \in requested /\ Right(invs[i], mes, ret)
      BY <3>1 DEF Fine
    <3>3. Asks(r[i]) \in requested
      BY <2>4, <3>1, <3>2 DEF Asks
    <3>4. CASE i = a
      BY <2>2, <2>3, <2>6, <3>1, <3>3, <3>4
    <3>5. CASE i # a
      <4>1. r[i] = invs[i]
        BY <2>3, <3>1, <3>5
      <4>2. invs[i].id # e.id
        <5>. SUFFICES ASSUME invs[i].id = e.id PROVE FALSE
          OBVIOUS
        <5>1. invs[a].id = invs[i].id /\ a \in DOMAIN invs
          BY <1>3, <1>4, <1>7, <3>1
        <5>. QED  BY <3>1, <3>5, <5>1 DEF Unique
      <4>. QED  BY <1>5, <3>1, <3>2, <3>3, <4>1, <4>2
    <3>. QED  BY <3>4, <3>5
  <2>8. \A q \in requested : \E i \in DOMAIN r : r[i].id # None /\ Asks(r[i]) = q
    <3>. TAKE q \in requested
    <3>1. PICK i \in DOMAIN invs : invs[i].id # None /\ Asks(invs[i]) = q
      BY DEF Fine
    <3>2. r[i].id # None /\ Asks(r[i]) = q
      BY <2>4, <3>1 DEF Asks
    <3>. QED  BY <2>3, <3>2
  <2>. QED  BY <2>5, <2>7, <2>8 DEF Fine
<1>. QED  BY <1>2, <1>6, <1>7, CorrelatedParts

-----------------------------------------------------------------------------
(* What an event does to the turns                                         *)

LEMMA ClosedElements ==
  ASSUME NEW s \in States(Turns), NEW i \in DOMAIN Closed(s)
  PROVE  \/ \E j \in DOMAIN s.turns : Closed(s)[i] = s.turns[j]
         \/ s.current # <<>> /\ Closed(s)[i] = s.current[1]
<1>1. PICK ts \in Seq(Turns), c \in Seq(Turns) : ts = s.turns /\ c = s.current
  BY StateParts
<1>2. c = <<>> \/ \E x \in Turns : c = <<x>>
  BY <1>1, StateParts
<1>3. Closed(s) = ts \o c
  BY <1>1 DEF Closed
<1>4. Len(ts) \in Nat /\ Len(c) \in 0 .. 1 /\ (Len(c) = 1 => c # <<>>)
  <2>1. Len(ts) \in Nat
    OBVIOUS
  <2>2. CASE c = <<>>
    BY <2>1, <2>2
  <2>3. ASSUME NEW x \in Turns, c = <<x>>
        PROVE  Len(c) = 1 /\ c # <<>>
    BY <2>3
  <2>. QED  BY <1>2, <2>1, <2>2, <2>3
<1>5. DOMAIN (ts \o c) = 1 .. Len(ts) + Len(c)
  BY <1>3
<1>6. \A n \in 1 .. Len(ts) + Len(c) : (ts \o c)[n] = IF n <= Len(ts) THEN ts[n] ELSE c[n - Len(ts)]
  BY ConcatProperties
<1>7. i \in 1 .. Len(ts) + Len(c)
  BY <1>3, <1>5
<1>8. CASE i <= Len(ts)
  <2>1. i \in DOMAIN ts /\ (ts \o c)[i] = ts[i]
    BY <1>4, <1>6, <1>7, <1>8
  <2>. QED  BY <1>1, <1>3, <2>1
<1>9. CASE i > Len(ts)
  <2>1. Len(c) = 1 /\ i - Len(ts) = 1
    <3>1. PICK a \in Nat, b \in 0 .. 1 : a = Len(ts) /\ b = Len(c)
      BY <1>4
    <3>2. i \in 1 .. a + b /\ i > a
      BY <1>7, <1>9, <3>1
    <3>3. b = 1 /\ i - a = 1
      BY <3>2
    <3>. QED  BY <3>1, <3>3
  <2>2. (ts \o c)[i] = c[1]
    BY <1>4, <1>6, <1>7, <1>9, <2>1
  <2>. QED  BY <1>1, <1>3, <1>4, <2>1, <2>2
<1>. QED  BY <1>4, <1>7, <1>8, <1>9

\* A model start closes the turn under way and opens one without invocations.
LEMMA StartStep ==
  ASSUME NEW s \in States(Turns), NEW es \in Seq(Events), NEW e \in Events, NEW l, l = Append(es, e),
         NEW n \in Nat, NEW m \in Nat, m = n + 1, NEW gone, e.kind = "chat_model_start", e.run = m, m \notin gone,
         ClosedTurnsFine(s, es, n, gone), CurrentTurnFine(s, es, n, gone), RequestedUpTo(es, n),
         NEW s2, s2 = After(s, e)
  PROVE  /\ ClosedTurnsFine(s2, l, m, gone) /\ CurrentTurnFine(s2, l, m, gone)
         /\ s2.current # <<>> /\ s2.current[1].invocations = <<>>
<1>1. PICK t \in Turns : t = Turn(m) /\ t.run = m /\ t.invocations = <<>>
  BY NewTurn
<1>2. s2 = [turns |-> Closed(s), current |-> <<t>>]
  BY <1>1, AfterStart
<1>3. s2.turns = Closed(s) /\ s2.current = <<t>> /\ s2.current[1] = t /\ s2.current # <<>>
  BY <1>2
<1>4. ASSUME NEW i \in DOMAIN Closed(s)
      PROVE  /\ Closed(s)[i] \in Turns /\ Closed(s)[i].run <= n
             /\ Closed(s)[i].run \notin gone => FineIn(l, Closed(s)[i])
  <2>1. PICK u : u = Closed(s)[i]
    OBVIOUS
  <2>2. Closed(s) \in Seq(Turns)
    BY ClosedTyped
  <2>3. u \in Turns
    BY <2>1, <2>2
  <2>4. u.run <= n /\ (u.run \notin gone => FineIn(es, u))
    <3>1. CASE \E j \in DOMAIN s.turns : u = s.turns[j]
      BY <3>1 DEF ClosedTurnsFine
    <3>2. CASE s.current # <<>> /\ u = s.current[1]
      BY <3>2 DEF CurrentTurnFine
    <3>. QED  BY <2>1, <3>1, <3>2, ClosedElements
  <2>5. e.kind # "llm_end" /\ e.kind \notin {"tool_end", "tool_message"}
    OBVIOUS
  <2>6. u.run \notin gone => FineIn(l, u)
    BY <2>4, <2>5, FineElsewhere
  <2>. QED  BY <2>1, <2>3, <2>4, <2>6
<1>5. ClosedTurnsFine(s2, l, m, gone)
  <2>1. \A i \in DOMAIN s2.turns : s2.turns[i].run <= m
    <3>. TAKE i \in DOMAIN s2.turns
    <3>1. s2.turns[i].run <= n /\ s2.turns[i].run \in Nat
      BY <1>3, <1>4, TurnParts
    <3>. QED  BY <3>1
  <2>. QED  BY <1>3, <1>4, <2>1 DEF ClosedTurnsFine
<1>6. \A i \in DOMAIN s2.turns : s2.turns[i].run < m
  <2>. TAKE i \in DOMAIN s2.turns
  <2>1. s2.turns[i].run <= n /\ s2.turns[i].run \in Nat
    BY <1>3, <1>4, TurnParts
  <2>. QED  BY <2>1
<1>7. FineIn(l, t)
  <2>1. RequestedIn(l, m) = {}
    <3>. SUFFICES ASSUME NEW q \in RequestedIn(l, m) PROVE FALSE
      OBVIOUS
    <3>1. q \in RequestedIn(es, m)
      BY RequestedOneMore
    <3>2. PICK i \in DOMAIN es : es[i].kind = "llm_end" /\ es[i].run = m
      BY <3>1 DEF RequestedIn
    <3>. QED  BY <3>2 DEF RequestedUpTo
  <2>. QED  BY <1>1, <2>1 DEF FineIn, Fine
<1>8. Unique(t.invocations)
  BY <1>1 DEF Unique
<1>9. CurrentTurnFine(s2, l, m, gone)
  BY <1>1, <1>3, <1>6, <1>7, <1>8 DEF CurrentTurnFine
<1>. QED  BY <1>1, <1>3, <1>5, <1>9

\* An event of the turn under way leaves the closed turns as they are.
LEMMA OthersStay ==
  ASSUME NEW s \in States(Turns), NEW es \in Seq(Events), NEW e \in Events, NEW l, l = Append(es, e),
         NEW n \in Nat, NEW gone,
         ClosedTurnsFine(s, es, n, gone), \A i \in DOMAIN s.turns : s.turns[i].run < n,
         e.kind = "llm_end" => e.run = n,
         e.kind \in {"tool_end", "tool_message"} /\ e.id # None => e.id[1] = n
  PROVE  ClosedTurnsFine(s, l, n, gone)
<1>. SUFFICES ASSUME NEW i \in DOMAIN s.turns, s.turns[i].run \notin gone
              PROVE  FineIn(l, s.turns[i])
  BY DEF ClosedTurnsFine
<1>1. PICK u : u = s.turns[i]
  OBVIOUS
<1>2. s.turns \in Seq(Turns)
  BY StateParts
<1>3. u \in Turns
  BY <1>1, <1>2
<1>4. u.run \in Nat /\ u.run < n /\ FineIn(es, u)
  BY <1>1, <1>3, TurnParts DEF ClosedTurnsFine
<1>5. u.run # n
  BY <1>4
<1>. QED  BY <1>1, <1>4, <1>5, FineElsewhere

\* An event that does not end the turn under way changes this turn only.
LEMMA AfterWithin ==
  ASSUME NEW s \in States(Turns), NEW e \in Events, e.kind # "chat_model_start", s.current # <<>>,
         NEW s2, s2 = After(s, e)
  PROVE  \E t \in Turns, t2 \in Turns :
           /\ s.current = <<t>> /\ s.current[1] = t
           /\ t2 = Continued(t, e) /\ t2.run = t.run
           /\ ~EndsTurn(e) => s2.turns = s.turns /\ s2.current # <<>> /\ s2.current[1] = t2
           /\ EndsTurn(e) => s2.turns = Append(s.turns, t2) /\ s2.current = <<>>
<1>1. PICK t \in Turns : s.current = <<t>>
  BY StateParts
<1>2. PICK t2 \in Turns : t2 = Continued(t, e) /\ t2.run = t.run
  BY ContinuedParts
<1>3. s.current[1] = t
  BY <1>1
<1>4. s2 = IF EndsTurn(e) THEN [turns |-> Append(s.turns, t2), current |-> <<>>]
           ELSE [turns |-> s.turns, current |-> <<t2>>]
  BY <1>2, <1>3, AfterContinues
<1>5. EndsTurn(e) => s2.turns = Append(s.turns, t2) /\ s2.current = <<>>
  BY <1>4
<1>6. ~EndsTurn(e) => s2.turns = s.turns /\ s2.current = <<t2>>
  BY <1>4
<1>. QED  BY <1>1, <1>2, <1>3, <1>5, <1>6

\* A token changes no invocation.
LEMMA TokenStep ==
  ASSUME NEW s \in States(Turns), NEW es \in Seq(Events), NEW e \in Events, NEW l, l = Append(es, e),
         NEW n \in Nat, NEW gone, e.kind = "llm_new_token", s.current # <<>>,
         ClosedTurnsFine(s, es, n, gone), CurrentTurnFine(s, es, n, gone),
         NEW s2, s2 = After(s, e)
  PROVE  /\ ClosedTurnsFine(s2, l, n, gone) /\ CurrentTurnFine(s2, l, n, gone)
         /\ s2.current # <<>> /\ s2.current[1].invocations = s.current[1].invocations
<1>1. ~EndsTurn(e)
  BY DEF EndsTurn
<1>2. PICK t \in Turns, t2 \in Turns :
        /\ s.current[1] = t /\ t2 = Continued(t, e) /\ t2.run = t.run
        /\ s2.turns = s.turns /\ s2.current # <<>> /\ s2.current[1] = t2
  BY <1>1, AfterWithin
<1>3. t2.invocations = t.invocations
  BY <1>2, ContinuedParts
<1>4. t.run = n /\ \A i \in DOMAIN s.turns : s.turns[i].run < n
  BY <1>2 DEF CurrentTurnFine
<1>5. ClosedTurnsFine(s, l, n, gone)
  BY <1>4, OthersStay
<1>6. ClosedTurnsFine(s2, l, n, gone)
  BY <1>2, <1>5 DEF ClosedTurnsFine
<1>7. n \notin gone => FineIn(l, t2) /\ Unique(t2.invocations)
  <2>. SUFFICES ASSUME n \notin gone PROVE FineIn(l, t2) /\ Unique(t2.invocations)
    OBVIOUS
  <2>1. FineIn(es, t) /\ Unique(t.invocations)
    BY <1>2 DEF CurrentTurnFine
  <2>2. FineIn(es, t2)
    BY <1>2, <1>3, <2>1 DEF FineIn
  <2>3. FineIn(l, t2)
    BY <2>2, FineElsewhere
  <2>. QED  BY <1>3, <2>1, <2>3
<1>8. CurrentTurnFine(s2, l, n, gone)
  BY <1>2, <1>4, <1>7 DEF CurrentTurnFine
<1>. QED  BY <1>2, <1>3, <1>6, <1>8

\* An event about a tool reaches the invocation of its call in the turn under way.
LEMMA ToolStep ==
  ASSUME NEW s \in States(Turns), NEW es \in Seq(Events), NEW e \in Events, NEW l, l = Append(es, e),
         NEW n \in Nat, NEW gone, n \notin gone, IsAboutTool(e), s.current # <<>>,
         e.id # None => e.id[1] = n /\ [id |-> e.id, name |-> e.name] \in RequestedIn(es, n),
         ClosedTurnsFine(s, es, n, gone), CurrentTurnFine(s, es, n, gone),
         NEW s2, s2 = After(s, e)
  PROVE  /\ ClosedTurnsFine(s2, l, n, gone) /\ CurrentTurnFine(s2, l, n, gone)
         /\ s2.current # <<>>
<1>0. e.kind # "llm_end" /\ e.kind # "chat_model_start" /\ e.kind \in {"tool_start", "tool_end", "tool_message"}
  BY DEF IsAboutTool
<1>1. ~EndsTurn(e)
  BY <1>0 DEF EndsTurn
<1>2. PICK t \in Turns, t2 \in Turns :
        /\ s.current[1] = t /\ t2 = Continued(t, e) /\ t2.run = t.run
        /\ s2.turns = s.turns /\ s2.current # <<>> /\ s2.current[1] = t2
  BY <1>0, <1>1, AfterWithin
<1>3. PICK invs \in Seq(Invocations) : invs = t.invocations /\ t2.invocations = Correlated(invs, e)
  BY <1>0, <1>2, ContinuedParts, TurnParts
<1>4. t.run = n /\ \A i \in DOMAIN s.turns : s.turns[i].run < n
  BY <1>2 DEF CurrentTurnFine
<1>5. ClosedTurnsFine(s, l, n, gone)
  BY <1>0, <1>4, OthersStay
<1>6. ClosedTurnsFine(s2, l, n, gone)
  BY <1>2, <1>5 DEF ClosedTurnsFine
<1>7. FineIn(es, t) /\ Unique(invs)
  BY <1>2, <1>3 DEF CurrentTurnFine
<1>8. PICK requested, mes, ret, mes2, ret2 :
        /\ requested = RequestedIn(es, n)
        /\ mes = ReportedIn(es, "tool_message") /\ ret = ReportedIn(es, "tool_end")
        /\ mes2 = ReportedIn(l, "tool_message") /\ ret2 = ReportedIn(l, "tool_end")
  OBVIOUS
<1>9. Fine(invs, requested, mes, ret)
  BY <1>3, <1>4, <1>7, <1>8 DEF FineIn
<1>10. RequestedIn(l, n) = requested
  <2>1. \A q : q \in RequestedIn(l, n) <=> q \in RequestedIn(es, n)
    BY <1>0, RequestedOneMore
  <2>. QED  BY <1>8, <2>1
<1>11. \A kind \in {"tool_end", "tool_message"} :
         ReportedIn(l, kind) = IF e.kind = kind THEN ReportedIn(es, kind) \cup {e.id}
                               ELSE ReportedIn(es, kind)
  BY ReportedOneMore
<1>12. \A id : id \in mes2 <=> id \in mes \/ (e.kind = "tool_message" /\ id = e.id)
  BY <1>8, <1>11
<1>13. \A id : id \in ret2 <=> id \in ret \/ (e.kind = "tool_end" /\ id = e.id)
  BY <1>8, <1>11
<1>14. \A q \in requested : q.id # None
  <2>. TAKE q \in requested
  <2>1. PICK i \in DOMAIN es :
          /\ es[i].kind = "llm_end"
          /\ \E k \in DOMAIN es[i].tools : q = [id |-> <<n, k>>, name |-> es[i].tools[k]]
    BY <1>8 DEF RequestedIn
  <2>2. PICK k \in DOMAIN es[i].tools : q = [id |-> <<n, k>>, name |-> es[i].tools[k]]
    BY <2>1
  <2>3. PICK x \in Events : x = es[i]
    OBVIOUS
  <2>4. x.tools \in Seq(STRING)
    BY <2>1, <2>3, EventCases
  <2>5. k \in Nat
    BY <2>2, <2>3, <2>4
  <2>6. <<n, k>> \in CallIds
    BY <2>5 DEF CallIds
  <2>. QED  BY <2>2, <2>6, NoneIsNoId
<1>15. Unique(t2.invocations) /\ Fine(t2.invocations, requested, mes2, ret2)
  <2>1. e.id # None => [id |-> e.id, name |-> e.name] \in requested
    BY <1>8
  <2>. QED  BY <1>3, <1>7, <1>9, <1>12, <1>13, <1>14, <2>1, FineCorrelated
<1>16. FineIn(l, t2)
  BY <1>2, <1>4, <1>8, <1>10, <1>15 DEF FineIn
<1>17. CurrentTurnFine(s2, l, n, gone)
  BY <1>2, <1>4, <1>15, <1>16 DEF CurrentTurnFine
<1>. QED  BY <1>2, <1>6, <1>17

\* The end of a reply gives the turn an invocation for each call asked for, and ends
\* the turn if the reply asked for nothing.
LEMMA ReplyStep ==
  ASSUME NEW s \in States(Turns), NEW es \in Seq(Events), NEW e \in Events, NEW l, l = Append(es, e),
         NEW n \in Nat, NEW gone, n \notin gone, e.kind = "llm_end", e.run = n,
         s.current # <<>>, s.current[1].invocations = <<>>,
         n # 0, ReportedUpTo(es, n - 1),
         ClosedTurnsFine(s, es, n, gone), CurrentTurnFine(s, es, n, gone),
         NEW s2, s2 = After(s, e)
  PROVE  /\ ClosedTurnsFine(s2, l, n, gone) /\ CurrentTurnFine(s2, l, n, gone)
         /\ (s2.current = <<>> <=> EndsTurn(e))
<1>1. PICK t \in Turns, t2 \in Turns :
        /\ s.current[1] = t /\ t2 = Continued(t, e) /\ t2.run = t.run
        /\ ~EndsTurn(e) => s2.turns = s.turns /\ s2.current # <<>> /\ s2.current[1] = t2
        /\ EndsTurn(e) => s2.turns = Append(s.turns, t2) /\ s2.current = <<>>
  BY AfterWithin
<1>2. PICK tools \in Seq(STRING) : tools = e.tools
  BY EventCases
<1>3. t.run = n /\ FineIn(es, t) /\ \A i \in DOMAIN s.turns : s.turns[i].run < n
  BY <1>1 DEF CurrentTurnFine
<1>4. ClosedTurnsFine(s, l, n, gone)
  BY <1>3, OthersStay
<1>5. PICK invs : invs = t2.invocations
  OBVIOUS
<1>6. invs = Asked(n, tools)
  BY <1>1, <1>2, <1>5, ContinuedParts
<1>7. /\ DOMAIN invs = DOMAIN tools
      /\ \A k \in DOMAIN tools :
           /\ invs[k].id = <<n, k>> /\ invs[k].name = tools[k]
           /\ invs[k].result = None /\ invs[k].message = None /\ <<n, k>> \in CallIds
  BY <1>6, AskedTyped
<1>8. Unique(invs)
  <2>. SUFFICES ASSUME NEW i \in DOMAIN invs, NEW j \in DOMAIN invs, invs[i].id = invs[j].id
                PROVE  i = j
    BY DEF Unique
  <2>1. invs[i].id = <<n, i>> /\ invs[j].id = <<n, j>>
    BY <1>7
  <2>2. <<n, i>> = <<n, j>>
    BY <2>1
  <2>. QED  BY <2>2
<1>9. RequestedIn(es, n) = {}
  BY <1>1, <1>3 DEF FineIn, Fine
<1>10. \A q : q \in RequestedIn(l, n) <=> \E k \in DOMAIN tools : q = [id |-> <<n, k>>, name |-> tools[k]]
  <2>1. \A run, q : q \in RequestedIn(l, run) <=>
                     \/ q \in RequestedIn(es, run)
                     \/ /\ e.kind = "llm_end" /\ e.run = run
                        /\ \E k \in DOMAIN e.tools : q = [id |-> <<run, k>>, name |-> e.tools[k]]
    BY RequestedOneMore
  <2>2. \A q : q \in RequestedIn(l, n) <=>
                 \/ q \in RequestedIn(es, n)
                 \/ \E k \in DOMAIN e.tools : q = [id |-> <<n, k>>, name |-> e.tools[k]]
    BY <2>1
  <2>. QED  BY <1>2, <1>9, <2>2
<1>11. \A k \in DOMAIN tools : <<n, k>> \notin ReportedIn(l, "tool_message")
                               /\ <<n, k>> \notin ReportedIn(l, "tool_end")
  <2>. TAKE k \in DOMAIN tools
  <2>1. <<n, k>> # None /\ <<n, k>>[1] = n
    BY <1>7, NoneIsNoId
  <2>2. \A kind \in {"tool_end", "tool_message"} : ReportedIn(l, kind) = ReportedIn(es, kind)
    BY ReportedOneMore
  <2>3. <<n, k>> \notin ReportedIn(es, "tool_message") \cup ReportedIn(es, "tool_end")
    <3>. SUFFICES ASSUME <<n, k>> \in ReportedIn(es, "tool_message") \cup ReportedIn(es, "tool_end")
                  PROVE  FALSE
      OBVIOUS
    <3>1. n <= n - 1
      BY <2>1 DEF ReportedUpTo
    <3>. QED  BY <3>1
  <2>. QED  BY <2>2, <2>3
<1>12. FineIn(l, t2)
  <2>1. ASSUME NEW k \in DOMAIN tools
        PROVE  /\ Asks(invs[k]) \in RequestedIn(l, n)
               /\ Right(invs[k], ReportedIn(l, "tool_message"), ReportedIn(l, "tool_end"))
    <3>1. Asks(invs[k]) = [id |-> <<n, k>>, name |-> tools[k]]
      BY <1>7 DEF Asks
    <3>2. Asks(invs[k]) \in RequestedIn(l, n)
      BY <1>10, <3>1
    <3>3. Right(invs[k], ReportedIn(l, "tool_message"), ReportedIn(l, "tool_end"))
      BY <1>7, <1>11 DEF Right
    <3>. QED  BY <3>2, <3>3
  <2>2. ASSUME NEW q \in RequestedIn(l, n)
        PROVE  \E k \in DOMAIN tools : invs[k].id # None /\ Asks(invs[k]) = q
    <3>1. PICK k \in DOMAIN tools : q = [id |-> <<n, k>>, name |-> tools[k]]
      BY <1>10
    <3>2. Asks(invs[k]) = q /\ invs[k].id # None
      BY <1>7, <3>1, NoneIsNoId DEF Asks
    <3>. QED  BY <3>2
  <2>. QED  BY <1>1, <1>3, <1>5, <1>7, <2>1, <2>2 DEF FineIn, Fine
<1>13. CASE EndsTurn(e)
  <2>1. s2.turns = Append(s.turns, t2) /\ s2.current = <<>> /\ s.turns \in Seq(Turns)
    BY <1>1, <1>13, StateParts
  <2>2. \A i \in DOMAIN s2.turns :
          (i \in DOMAIN s.turns /\ s2.turns[i] = s.turns[i]) \/ s2.turns[i] = t2
    BY <2>1
  <2>3. n <= n
    OBVIOUS
  <2>4. ClosedTurnsFine(s2, l, n, gone)
    BY <1>1, <1>3, <1>4, <1>12, <2>2, <2>3 DEF ClosedTurnsFine
  <2>. QED  BY <1>13, <2>1, <2>4 DEF CurrentTurnFine
<1>14. CASE ~EndsTurn(e)
  <2>1. s2.turns = s.turns /\ s2.current # <<>> /\ s2.current[1] = t2
    BY <1>1, <1>14
  <2>2. ClosedTurnsFine(s2, l, n, gone)
    BY <1>4, <2>1 DEF ClosedTurnsFine
  <2>3. CurrentTurnFine(s2, l, n, gone)
    BY <1>1, <1>3, <1>5, <1>8, <1>12, <2>1 DEF CurrentTurnFine
  <2>. QED  BY <1>14, <2>1, <2>2, <2>3
<1>. QED  BY <1>13, <1>14

\* Messages that were reported before close no turn, open none, and report nothing.
LEMMA AgainParts ==
  ASSUME NEW es \in Seq(Events), NEW ms \in Seq(Events), NEW l, l = es \o ms
  PROVE  /\ l \in Seq(Events) /\ Len(l) = Len(es) + Len(ms)
         /\ Len(es) \in Nat /\ Len(ms) \in Nat
         /\ \A i \in 1 .. Len(es) : i \in 1 .. Len(l) /\ l[i] = es[i]
         /\ \A i \in 1 .. Len(ms) : Len(es) + i \in 1 .. Len(l) /\ l[Len(es) + i] = ms[i]
         /\ \A i \in 1 .. Len(l) : i \in 1 .. Len(es) \/ \E j \in 1 .. Len(ms) : l[i] = ms[j]
<1>1. l \in Seq(Events) /\ Len(l) = Len(es) + Len(ms)
  BY ConcatProperties
<1>2. \A i \in 1 .. Len(es) + Len(ms) : l[i] = IF i <= Len(es) THEN es[i] ELSE ms[i - Len(es)]
  BY ConcatProperties
<1>3. PICK a \in Nat, b \in Nat : a = Len(es) /\ b = Len(ms)
  OBVIOUS
<1>4. \A i \in 1 .. a : i \in 1 .. a + b /\ l[i] = es[i]
  BY <1>2, <1>3
<1>5. \A i \in 1 .. b : a + i \in 1 .. a + b /\ l[a + i] = ms[i]
  <2>. TAKE i \in 1 .. b
  <2>1. PICK k \in 1 .. a + b : k = a + i
    OBVIOUS
  <2>2. ~(k <= a) /\ k - a = i
    BY <2>1
  <2>3. l[k] = ms[k - a]
    BY <1>2, <1>3, <2>2
  <2>. QED  BY <2>1, <2>2, <2>3
<1>6. \A i \in 1 .. a + b : i \in 1 .. a \/ \E j \in 1 .. b : l[i] = ms[j]
  <2>. TAKE i \in 1 .. a + b
  <2>1. CASE i <= a
    BY <2>1
  <2>2. CASE ~(i <= a)
    <3>1. PICK j \in 1 .. b : j = i - a
      BY <2>2
    <3>2. l[i] = ms[i - a]
      BY <1>2, <1>3, <2>2
    <3>. QED  BY <3>1, <3>2
  <2>. QED  BY <2>1, <2>2
<1>. QED  BY <1>1, <1>3, <1>4, <1>5, <1>6

LEMMA AgainTraced ==
  ASSUME NEW es \in Seq(Events), NEW ms \in Seq(Events), \A i \in 1 .. Len(ms) : ms[i].kind = "tool_message",
         NEW s, s = Traced(es), NEW s2, s2 = Traced(es \o ms)
  PROVE  /\ s2.turns = s.turns
         /\ s.current = <<>> => s2.current = <<>>
         /\ s.current # <<>> => s2.current # <<>> /\ s2.current[1].run = s.current[1].run
<1>1. PICK l : l = es \o ms
  OBVIOUS
<1>2. /\ l \in Seq(Events) /\ Len(l) = Len(es) + Len(ms)
      /\ Len(es) \in Nat /\ Len(ms) \in Nat
      /\ \A i \in 1 .. Len(es) : i \in 1 .. Len(l) /\ l[i] = es[i]
      /\ \A i \in 1 .. Len(ms) : Len(es) + i \in 1 .. Len(l) /\ l[Len(es) + i] = ms[i]
  BY <1>1, AgainParts
<1>3. PICK f : IsTrace(f, es) /\ Traced(es) = f[Len(es)]
  BY TracedByATrace
<1>4. PICK g : IsTrace(g, l) /\ Traced(l) = g[Len(l)]
  BY <1>2, TracedByATrace
<1>5. g[Len(es)] = s
  <2>1. Len(es) <= Len(l)
    BY <1>2
  <2>2. \A n \in 1 .. Len(es) : es[n] = l[n]
    BY <1>2
  <2>3. IsTrace(f, es) /\ IsTrace(g, l) /\ l \in Seq(Events)
    BY <1>2, <1>3, <1>4
  <2>4. \A n \in 0 .. Len(es) : f[n] = g[n]
    BY <2>1, <2>2, <2>3, TracesAgree
  <2>. QED  BY <1>2, <1>3, <2>4
<1>. DEFINE Kept(x) == /\ x \in States(Turns) /\ x.turns = s.turns
                       /\ s.current = <<>> => x.current = <<>>
                       /\ s.current # <<>> => x.current # <<>> /\ x.current[1].run = s.current[1].run
<1>6. ASSUME NEW x, Kept(x), NEW e \in Events, e.kind = "tool_message"
      PROVE  Kept(After(x, e))
  <2>1. x \in States(Turns) /\ e.kind # "chat_model_start" /\ ~EndsTurn(e)
    BY <1>6 DEF EndsTurn
  <2>2. PICK y : y = After(x, e)
    OBVIOUS
  <2>3. y \in States(Turns)
    BY <2>1, <2>2, AfterTyped
  <2>4. CASE x.current = <<>>
    <3>1. y = x
      BY <2>1, <2>2, <2>4, AfterIgnored
    <3>. QED  BY <1>6, <2>2, <3>1
  <2>5. CASE x.current # <<>>
    <3>1. PICK t \in Turns, t2 \in Turns :
            /\ x.current[1] = t /\ t2.run = t.run
            /\ y.turns = x.turns /\ y.current # <<>> /\ y.current[1] = t2
      BY <2>1, <2>2, <2>5, AfterWithin
    <3>. QED  BY <1>6, <2>2, <2>3, <2>5, <3>1
  <2>. QED  BY <2>4, <2>5
<1>7. Kept(s)
  <2>1. s \in States(Turns)
    BY TracedTyped
  <2>. QED  BY <2>1
<1>. HIDE DEF Kept
<1>. DEFINE P == {n \in Nat : n <= Len(ms) => Kept(g[Len(es) + n])}
<1>8. 0 \in P
  <2>1. Len(es) + 0 = Len(es)
    BY <1>2
  <2>. QED  BY <1>5, <1>7, <2>1
<1>9. ASSUME NEW n \in Nat, n \in P PROVE n + 1 \in P
  <2>. SUFFICES ASSUME n + 1 <= Len(ms) PROVE Kept(g[Len(es) + (n + 1)])
    OBVIOUS
  <2>1. n <= Len(ms) /\ n + 1 \in 1 .. Len(ms)
    BY <1>2
  <2>2. Kept(g[Len(es) + n])
    BY <1>9, <2>1
  <2>3. PICK k : k = Len(es) + (n + 1) /\ k \in 1 .. Len(l) /\ l[k] = ms[n + 1] /\ k - 1 = Len(es) + n
    BY <1>2, <2>1
  <2>4. PICK e \in Events : e = l[k] /\ e.kind = "tool_message"
    BY <2>1, <2>3
  <2>5. g[k] = After(g[k - 1], e)
    BY <1>4, <2>3, <2>4 DEF IsTrace
  <2>. QED  BY <1>6, <2>2, <2>3, <2>4, <2>5
<1>. HIDE DEF P
<1>10. Len(ms) \in P
  BY <1>2, <1>8, <1>9, NaturalsByInduction
<1>11. Kept(g[Len(l)])
  BY <1>2, <1>10 DEF P
<1>. QED  BY <1>1, <1>4, <1>11 DEF Kept

LEMMA AgainAsks ==
  ASSUME NEW es \in Seq(Events), NEW ms \in Seq(Events), NEW l, l = es \o ms,
         \A i \in 1 .. Len(ms) : ms[i].kind = "tool_message"
  PROVE  /\ \A i \in DOMAIN es : i \in DOMAIN l /\ l[i] = es[i]
         /\ \A i \in DOMAIN l : (i \in DOMAIN es /\ l[i] = es[i]) \/ l[i].kind = "tool_message"
<1>1. /\ l \in Seq(Events)
      /\ \A i \in 1 .. Len(es) : i \in 1 .. Len(l) /\ l[i] = es[i]
  BY AgainParts
<1>2. \A i \in 1 .. Len(l) : i \in 1 .. Len(es) \/ \E j \in 1 .. Len(ms) : l[i] = ms[j]
  BY AgainParts
<1>3. DOMAIN l = 1 .. Len(l) /\ DOMAIN es = 1 .. Len(es)
  BY <1>1
<1>. QED  BY <1>1, <1>2, <1>3

LEMMA AgainRequested ==
  ASSUME NEW es, NEW l,
         \A i \in DOMAIN es : i \in DOMAIN l /\ l[i] = es[i],
         \A i \in DOMAIN l : (i \in DOMAIN es /\ l[i] = es[i]) \/ l[i].kind = "tool_message"
  PROVE  \A run : RequestedIn(l, run) = RequestedIn(es, run)
<1>. TAKE run
<1>1. /\ \A i \in DOMAIN es : i \in DOMAIN l /\ l[i] = es[i]
      /\ \A i \in DOMAIN l : (i \in DOMAIN es /\ l[i] = es[i]) \/ l[i].kind = "tool_message"
  OBVIOUS
<1>2. PICK S : S = {i \in DOMAIN es : es[i].kind = "llm_end" /\ es[i].run = run}
  OBVIOUS
<1>3. S = {i \in DOMAIN l : l[i].kind = "llm_end" /\ l[i].run = run}
  BY <1>1, <1>2
<1>4. \A i \in S : l[i] = es[i]
  BY <1>1, <1>2
<1>. DEFINE Asking(x) == {[id |-> <<run, k>>, name |-> x.tools[k]] : k \in DOMAIN x.tools}
<1>5. RequestedIn(es, run) = UNION {Asking(es[i]) : i \in S}
  BY <1>2, Zenon DEF RequestedIn
<1>6. RequestedIn(l, run) = UNION {Asking(l[i]) : i \in S}
  BY <1>3, Zenon DEF RequestedIn
<1>. HIDE DEF Asking
<1>7. {Asking(es[i]) : i \in S} = {Asking(l[i]) : i \in S}
  BY <1>4
<1>. QED  BY <1>5, <1>6, <1>7, Zenon

LEMMA AgainReported ==
  ASSUME NEW es \in Seq(Events), NEW ms \in Seq(Events), NEW l, l = es \o ms,
         \A i \in 1 .. Len(ms) :
           ms[i].kind = "tool_message" /\ ms[i].id \in ReportedIn(es, "tool_message")
  PROVE  \A kind \in {"tool_end", "tool_message"} : ReportedIn(l, kind) = ReportedIn(es, kind)
<1>1. /\ l \in Seq(Events)
      /\ \A i \in 1 .. Len(es) : i \in 1 .. Len(l) /\ l[i] = es[i]
  BY AgainParts
<1>2. \A i \in 1 .. Len(l) : i \in 1 .. Len(es) \/ \E j \in 1 .. Len(ms) : l[i] = ms[j]
  BY AgainParts
<1>3. DOMAIN l = 1 .. Len(l) /\ DOMAIN es = 1 .. Len(es)
  BY <1>1
<1>4. \A i \in DOMAIN es : i \in DOMAIN l /\ l[i] = es[i]
  BY <1>1, <1>3
<1>5. \A i \in DOMAIN l :
        \/ i \in DOMAIN es /\ l[i] = es[i]
        \/ l[i].kind = "tool_message" /\ l[i].id \in ReportedIn(es, "tool_message")
  BY <1>1, <1>2, <1>3
<1>6. ReportedIn(l, "tool_end") = ReportedIn(es, "tool_end")
  <2>1. \A id \in ReportedIn(l, "tool_end") : id \in ReportedIn(es, "tool_end")
    BY <1>5 DEF ReportedIn
  <2>2. \A id \in ReportedIn(es, "tool_end") : id \in ReportedIn(l, "tool_end")
    BY <1>4 DEF ReportedIn
  <2>. QED  BY <2>1, <2>2
<1>7. ReportedIn(l, "tool_message") = ReportedIn(es, "tool_message")
  <2>1. \A id \in ReportedIn(l, "tool_message") : id \in ReportedIn(es, "tool_message")
    BY <1>5 DEF ReportedIn
  <2>2. \A id \in ReportedIn(es, "tool_message") : id \in ReportedIn(l, "tool_message")
    BY <1>4 DEF ReportedIn
  <2>. QED  BY <2>1, <2>2
<1>. QED  BY <1>6, <1>7

-----------------------------------------------------------------------------
(* The steps of the agent                                                  *)

LEMMA RecordOne ==
  ASSUME SinkOK, NEW e \in Events, Record(<<e>>)
  PROVE  /\ history \in Seq(Events) /\ history' = Append(history, e)
         /\ Traced(history) \in States(Turns) /\ Traced(history') = After(Traced(history), e)
<1>1. history \in Seq(Events)
  BY DEF SinkOK
<1>2. history' = history \o <<e>>
  BY DEF Record
<1>3. history \o <<e>> = Append(history, e)
  BY <1>1
<1>4. Traced(Append(history, e)) = After(Traced(history), e)
  BY <1>1, TracedOneMore
<1>. QED  BY <1>1, <1>2, <1>3, <1>4, TracedTyped

LEMMA RequestedUpToOneMore ==
  ASSUME NEW es \in Seq(Events), NEW e \in Events, NEW l, l = Append(es, e),
         NEW n \in Nat, NEW m \in Nat, n <= m, RequestedUpTo(es, n), e.kind = "llm_end" => e.run <= m
  PROVE  RequestedUpTo(l, m)
<1>1. /\ l \in Seq(Events) /\ DOMAIN l = DOMAIN es \cup {Len(es) + 1}
      /\ l[Len(es) + 1] = e /\ \A i \in DOMAIN es : l[i] = es[i]
  BY OneMoreEvent
<1>. SUFFICES ASSUME NEW i \in DOMAIN l, l[i].kind = "llm_end" PROVE l[i].run <= m
  BY DEF RequestedUpTo
<1>2. CASE i \in DOMAIN es
  <2>1. PICK x \in Events : x = es[i] /\ x = l[i]
    BY <1>1, <1>2
  <2>2. x.run <= n
    BY <1>2, <2>1 DEF RequestedUpTo
  <2>3. x.run \in Nat
    BY EventCases
  <2>. QED  BY <2>1, <2>2, <2>3
<1>3. CASE i = Len(es) + 1
  BY <1>1, <1>3
<1>. QED  BY <1>1, <1>2, <1>3

LEMMA ReportedIds ==
  ASSUME NEW es \in Seq(Events), NEW kind \in {"tool_end", "tool_message"}, NEW id \in ReportedIn(es, kind)
  PROVE  id \in CallIds \cup {None}
<1>1. PICK x \in Events : x.kind = kind /\ x.id = id
  BY DEF ReportedIn
<1>2. x.id \in CallIds \cup {None}
  BY <1>1, EventCases
<1>. QED  BY <1>1, <1>2

LEMMA ReportedUpToOneMore ==
  ASSUME NEW es \in Seq(Events), NEW e \in Events, NEW l, l = Append(es, e),
         NEW n \in Nat, NEW m \in Nat, n <= m, ReportedUpTo(es, n),
         e.kind \in {"tool_end", "tool_message"} /\ e.id # None => e.id[1] <= m
  PROVE  ReportedUpTo(l, m)
<1>. SUFFICES ASSUME NEW kind \in {"tool_end", "tool_message"}, NEW id \in ReportedIn(l, kind), id # None
              PROVE  id[1] <= m
  BY DEF ReportedUpTo
<1>1. ReportedIn(l, kind) = IF e.kind = kind THEN ReportedIn(es, kind) \cup {e.id}
                            ELSE ReportedIn(es, kind)
  BY ReportedOneMore
<1>2. CASE id \in ReportedIn(es, kind)
  <2>1. id[1] <= n
    BY <1>2 DEF ReportedUpTo
  <2>2. id \in CallIds
    BY <1>2, ReportedIds
  <2>3. id[1] \in Nat
    BY <2>2 DEF CallIds
  <2>. QED  BY <2>1, <2>3
<1>3. CASE e.kind = kind /\ id = e.id
  BY <1>3
<1>. QED  BY <1>1, <1>2, <1>3

\* What was asked for and reported stays so.
LEMMA MoreToCome ==
  ASSUME NEW es \in Seq(Events), NEW e \in Events, NEW l, l = Append(es, e)
  PROVE  /\ \A run : RequestedIn(es, run) \subseteq RequestedIn(l, run)
         /\ ReportedIn(es, "tool_message") \subseteq ReportedIn(l, "tool_message")
         /\ e.kind = "tool_message" => e.id \in ReportedIn(l, "tool_message")
<1>1. \A kind \in {"tool_end", "tool_message"} :
        ReportedIn(l, kind) = IF e.kind = kind THEN ReportedIn(es, kind) \cup {e.id}
                              ELSE ReportedIn(es, kind)
  BY ReportedOneMore
<1>2. ASSUME NEW run, NEW q \in RequestedIn(es, run)
      PROVE  q \in RequestedIn(l, run)
  BY <1>2, RequestedOneMore
<1>. QED  BY <1>1, <1>2

LEMMA TranscriptStays ==
  ASSUME AgentTypeOK, \A i \in DOMAIN transcript : transcript[i].id \in ReportedIn(history, "tool_message"),
         UNCHANGED transcript,
         ReportedIn(history, "tool_message") \subseteq ReportedIn(history', "tool_message")
  PROVE  \A i \in DOMAIN transcript' : transcript'[i].id \in ReportedIn(history', "tool_message")
OBVIOUS

LEMMA StartKeeps ==
  ASSUME AgentTypeOK, SinkOK, TracerInv, OnChatModelStart
  PROVE  TracerInv'
<1>1. turn \in Nat /\ turn + 1 \in Nat /\ turn' = turn + 1 /\ turn + 1 \notin cut
  BY TracingAssumption DEF AgentTypeOK, OnChatModelStart
<1>2. PICK e \in Events : /\ e = Event("chat_model_start", turn', None, None)
                          /\ e.kind = "chat_model_start" /\ e.run = turn + 1
  BY <1>1, EventKinds, EventFields
<1>3. Record(<<e>>)
  BY <1>2 DEF OnChatModelStart
<1>4. PICK es, l, s, s2 :
        /\ es = history /\ l = history' /\ s = Traced(history) /\ s2 = Traced(history')
        /\ es \in Seq(Events) /\ s \in States(Turns)
        /\ l = Append(es, e) /\ s2 = After(s, e)
  BY <1>3, RecordOne
<1>5. PICK n \in Nat, m \in Nat : n = turn /\ m = turn + 1 /\ m = n + 1 /\ n <= m /\ n <= n
  BY <1>1
<1>6. /\ ClosedTurnsFine(s, es, n, cut) /\ CurrentTurnFine(s, es, n, cut)
      /\ RequestedUpTo(es, n) /\ ReportedUpTo(es, n)
  BY <1>4, <1>5 DEF TracerInv
<1>7. /\ ClosedTurnsFine(s2, l, m, cut) /\ CurrentTurnFine(s2, l, m, cut)
      /\ s2.current # <<>> /\ s2.current[1].invocations = <<>>
  <2>1. PICK gone : gone = cut
    OBVIOUS
  <2>2. e.kind = "chat_model_start" /\ e.run = m /\ m \notin gone /\ m = n + 1
    BY <1>1, <1>2, <1>5, <2>1
  <2>3. es \in Seq(Events) /\ s \in States(Turns) /\ l = Append(es, e) /\ s2 = After(s, e)
    BY <1>4
  <2>4. ClosedTurnsFine(s, es, n, gone) /\ CurrentTurnFine(s, es, n, gone) /\ RequestedUpTo(es, n)
    BY <1>6, <2>1
  <2>5. ClosedTurnsFine(s2, l, m, gone)
    BY <2>2, <2>3, <2>4, StartStep
  <2>6. CurrentTurnFine(s2, l, m, gone)
    BY <2>2, <2>3, <2>4, StartStep
  <2>7. s2.current # <<>>
    BY <2>2, <2>3, <2>4, StartStep
  <2>8. s2.current[1].invocations = <<>>
    BY <2>2, <2>3, <2>4, StartStep
  <2>. QED  BY <2>1, <2>5, <2>6, <2>7, <2>8
<1>8. RequestedUpTo(l, m) /\ ReportedUpTo(l, n) /\ ReportedUpTo(l, m)
  <2>1. /\ e.kind = "llm_end" => e.run <= m
        /\ e.kind \in {"tool_end", "tool_message"} /\ e.id # None => e.id[1] <= m
        /\ e.kind \in {"tool_end", "tool_message"} /\ e.id # None => e.id[1] <= n
    BY <1>2
  <2>2. RequestedUpTo(l, m)
    BY <1>4, <1>5, <1>6, <2>1, RequestedUpToOneMore, Zenon
  <2>3. ReportedUpTo(l, m)
    BY <1>4, <1>5, <1>6, <2>1, ReportedUpToOneMore, Zenon
  <2>4. ReportedUpTo(l, n)
    BY <1>4, <1>5, <1>6, <2>1, ReportedUpToOneMore, Zenon
  <2>. QED  BY <2>2, <2>3, <2>4
<1>9. m - 1 = n
  BY <1>5
<1>10. \A i \in DOMAIN transcript' : transcript'[i].id \in ReportedIn(l, "tool_message")
  BY <1>4, MoreToCome, TranscriptStays DEF OnChatModelStart, TracerInv
<1>11. cut' = cut /\ phase' = "reply" /\ turn' = m
  BY <1>1, <1>5 DEF OnChatModelStart
<1>12. InStep'
  BY <1>1, <1>4, <1>7, <1>11 DEF InStep
<1>. QED  BY <1>4, <1>5, <1>7, <1>8, <1>9, <1>10, <1>11, <1>12 DEF TracerInv

LEMMA TokenKeeps ==
  ASSUME AgentTypeOK, SinkOK, TracerInv, OnLlmNewToken
  PROVE  TracerInv'
<1>1. turn \in Nat /\ turn # 0 /\ turn - 1 \in Nat
  BY TracingAssumption DEF AgentTypeOK, OnLlmNewToken
<1>2. PICK e \in Events : /\ e = Event("llm_new_token", turn, None, None)
                          /\ e.kind = "llm_new_token"
  BY <1>1, EventKinds, EventFields
<1>3. Record(<<e>>)
  BY <1>2 DEF OnLlmNewToken
<1>4. PICK es, l, s, s2 :
        /\ es = history /\ l = history' /\ s = Traced(history) /\ s2 = Traced(history')
        /\ es \in Seq(Events) /\ s \in States(Turns)
        /\ l = Append(es, e) /\ s2 = After(s, e)
  BY <1>3, RecordOne
<1>5. PICK n \in Nat, m \in Nat : n = turn /\ m = turn - 1 /\ m <= m /\ n <= n
  BY <1>1
<1>6. PICK gone : gone = cut
  OBVIOUS
<1>7. /\ ClosedTurnsFine(s, es, n, gone) /\ CurrentTurnFine(s, es, n, gone)
      /\ RequestedUpTo(es, n) /\ ReportedUpTo(es, n) /\ ReportedUpTo(es, m)
  BY <1>4, <1>5, <1>6 DEF TracerInv, OnLlmNewToken
<1>8. s.current # <<>> /\ s.current[1].invocations = <<>> /\ n \notin gone
  BY <1>4, <1>5, <1>6 DEF TracerInv, InStep, OnLlmNewToken
<1>9. ClosedTurnsFine(s2, l, n, gone) /\ CurrentTurnFine(s2, l, n, gone)
  <2>1. /\ es \in Seq(Events) /\ s \in States(Turns) /\ l = Append(es, e) /\ s2 = After(s, e)
        /\ e.kind = "llm_new_token" /\ s.current # <<>>
        /\ ClosedTurnsFine(s, es, n, gone) /\ CurrentTurnFine(s, es, n, gone)
    BY <1>2, <1>4, <1>7, <1>8
  <2>2. ClosedTurnsFine(s2, l, n, gone)
    BY <2>1, TokenStep
  <2>3. CurrentTurnFine(s2, l, n, gone)
    BY <2>1, TokenStep
  <2>. QED  BY <2>2, <2>3
<1>11. s2.current # <<>>
  BY <1>2, <1>4, <1>7, <1>8, TokenStep
<1>12. s2.current[1].invocations = s.current[1].invocations
  BY <1>2, <1>4, <1>7, <1>8, TokenStep
<1>13. /\ e.kind = "llm_end" => e.run <= n
       /\ e.kind \in {"tool_end", "tool_message"} /\ e.id # None => e.id[1] <= n
       /\ e.kind \in {"tool_end", "tool_message"} /\ e.id # None => e.id[1] <= m
  BY <1>2
<1>14. RequestedUpTo(l, n)
  BY <1>4, <1>5, <1>7, <1>13, RequestedUpToOneMore
<1>15. ReportedUpTo(l, n)
  BY <1>4, <1>5, <1>7, <1>13, ReportedUpToOneMore
<1>16. ReportedUpTo(l, m)
  <2>1. /\ es \in Seq(Events) /\ l = Append(es, e) /\ m <= m /\ ReportedUpTo(es, m)
        /\ e.kind \in {"tool_end", "tool_message"} /\ e.id # None => e.id[1] <= m
    BY <1>4, <1>5, <1>7, <1>13
  <2>. QED  BY <2>1, ReportedUpToOneMore
<1>17. UNCHANGED <<phase, turn, asked, open, progress, transcript, cut>>
  BY DEF OnLlmNewToken, agentVars
<1>18. \A i \in DOMAIN transcript' : transcript'[i].id \in ReportedIn(l, "tool_message")
  BY <1>4, <1>17, MoreToCome, TranscriptStays DEF TracerInv
<1>19. phase = "reply"
  BY DEF OnLlmNewToken
<1>20. InStep'
  BY <1>4, <1>5, <1>6, <1>8, <1>11, <1>12, <1>17, <1>19 DEF InStep
<1>. QED  BY <1>4, <1>5, <1>6, <1>9, <1>14, <1>15, <1>16, <1>17, <1>18, <1>20 DEF TracerInv

LEMMA ReplyKeeps ==
  ASSUME AgentTypeOK, SinkOK, TracerInv,
         NEW tools \in Seq(STRING), NEW finish \in {"tool_calls", "stop"}, OnLlmEnd(tools, finish)
  PROVE  TracerInv'
<1>1. turn \in Nat /\ turn # 0 /\ turn - 1 \in Nat
  BY TracingAssumption DEF AgentTypeOK, OnLlmEnd
<1>2. PICK e : e = [kind |-> "llm_end", run |-> turn, tools |-> tools, finish |-> finish]
  OBVIOUS
<1>3. e.kind = "llm_end" /\ e.run = turn /\ e.tools = tools /\ e.finish = finish
  BY <1>2
<1>4. e \in Events
  BY <1>1, <1>2 DEF Events, LlmEnds
<1>5. Record(<<e>>)
  BY <1>2 DEF OnLlmEnd
<1>6. PICK es, l, s, s2 :
        /\ es = history /\ l = history' /\ s = Traced(history) /\ s2 = Traced(history')
        /\ es \in Seq(Events) /\ s \in States(Turns)
        /\ l = Append(es, e) /\ s2 = After(s, e)
  BY <1>4, <1>5, RecordOne
<1>7. PICK n \in Nat, m \in Nat : n = turn /\ m = turn - 1 /\ m = n - 1 /\ m <= m /\ n <= n /\ n # 0
  BY <1>1
<1>8. PICK gone : gone = cut
  OBVIOUS
<1>9. /\ ClosedTurnsFine(s, es, n, gone) /\ CurrentTurnFine(s, es, n, gone)
      /\ RequestedUpTo(es, n) /\ ReportedUpTo(es, n) /\ ReportedUpTo(es, m)
  BY <1>6, <1>7, <1>8 DEF TracerInv, OnLlmEnd
<1>10. s.current # <<>> /\ s.current[1].invocations = <<>> /\ n \notin gone
  BY <1>6, <1>7, <1>8 DEF TracerInv, InStep, OnLlmEnd
<1>11. e.run = n /\ ReportedUpTo(es, n - 1)
  BY <1>3, <1>7, <1>9
<1>12. ClosedTurnsFine(s2, l, n, gone)
  BY <1>3, <1>4, <1>6, <1>7, <1>9, <1>10, <1>11, ReplyStep
<1>13. CurrentTurnFine(s2, l, n, gone)
  BY <1>3, <1>4, <1>6, <1>7, <1>9, <1>10, <1>11, ReplyStep
<1>14. s2.current = <<>> <=> EndsTurn(e)
  BY <1>3, <1>4, <1>6, <1>7, <1>9, <1>10, <1>11, ReplyStep
<1>15. /\ e.kind = "llm_end" => e.run <= n
       /\ e.kind \in {"tool_end", "tool_message"} /\ e.id # None => e.id[1] <= n
       /\ e.kind \in {"tool_end", "tool_message"} /\ e.id # None => e.id[1] <= m
  BY <1>3, <1>7
<1>16. RequestedUpTo(l, n)
  BY <1>4, <1>6, <1>7, <1>9, <1>15, RequestedUpToOneMore, Zenon
<1>17. ReportedUpTo(l, n)
  BY <1>4, <1>6, <1>7, <1>9, <1>15, ReportedUpToOneMore, Zenon
<1>18. ReportedUpTo(l, m)
  BY <1>4, <1>6, <1>7, <1>9, <1>15, ReportedUpToOneMore, Zenon
<1>19. /\ UNCHANGED <<turn, transcript, cut>> /\ phase' = "decide"
       /\ asked' = tools /\ open' = (tools # <<>> \/ finish = "tool_calls")
       /\ progress' = [k \in DOMAIN tools |-> "waiting"]
  BY DEF OnLlmEnd
<1>20. \A i \in DOMAIN transcript' : transcript'[i].id \in ReportedIn(l, "tool_message")
  BY <1>4, <1>6, <1>19, MoreToCome, TranscriptStays DEF TracerInv
<1>21. open' <=> s2.current # <<>>
  BY <1>3, <1>14, <1>19 DEF EndsTurn
<1>22. ASSUME NEW k \in DOMAIN tools
       PROVE  /\ [id |-> <<turn, k>>, name |-> tools[k]] \in RequestedIn(l, turn)
              /\ progress'[k] # "answered"
  <2>1. PICK q : q = [id |-> <<turn, k>>, name |-> tools[k]]
    OBVIOUS
  <2>2. \A run, p : p \in RequestedIn(l, run) <=>
                     \/ p \in RequestedIn(es, run)
                     \/ /\ e.kind = "llm_end" /\ e.run = run
                        /\ \E j \in DOMAIN e.tools : p = [id |-> <<run, j>>, name |-> e.tools[j]]
    BY <1>4, <1>6, RequestedOneMore
  <2>3. \E j \in DOMAIN e.tools : q = [id |-> <<turn, j>>, name |-> e.tools[j]]
    BY <1>3, <2>1
  <2>4. q \in RequestedIn(l, turn)
    BY <1>3, <2>2, <2>3
  <2>. QED  BY <1>19, <2>1, <2>4
<1>23. asked' # <<>> => open'
  BY <1>19
<1>24. InStep'
  BY <1>6, <1>7, <1>8, <1>10, <1>19, <1>21, <1>22, <1>23 DEF InStep
<1>. QED  BY <1>6, <1>7, <1>8, <1>12, <1>13, <1>16, <1>17, <1>18, <1>19, <1>20, <1>24 DEF TracerInv

LEMMA ToolKeeps ==
  ASSUME AgentTypeOK, SinkOK, TracerInv,
         NEW k \in DOMAIN asked, NEW from, NEW to \in {"running", "ended", "answered"}, Moves(k, from, to),
         NEW e \in Events, IsAboutTool(e), Record(<<e>>),
         e.id # None => e.id = <<turn, k>> /\ e.name = asked[k],
         to = "answered" => e.kind = "tool_message" /\ e.id = <<turn, k>>
  PROVE  TracerInv'
<1>1. turn \in Nat /\ phase = "tools"
  BY TracingAssumption DEF AgentTypeOK, Moves
<1>2. PICK es, l, s, s2 :
        /\ es = history /\ l = history' /\ s = Traced(history) /\ s2 = Traced(history')
        /\ es \in Seq(Events) /\ s \in States(Turns)
        /\ l = Append(es, e) /\ s2 = After(s, e)
  BY RecordOne
<1>3. PICK n \in Nat : n = turn /\ n <= n
  BY <1>1
<1>4. PICK gone : gone = cut
  OBVIOUS
<1>5. /\ ClosedTurnsFine(s, es, n, gone) /\ CurrentTurnFine(s, es, n, gone)
      /\ RequestedUpTo(es, n) /\ ReportedUpTo(es, n)
  BY <1>2, <1>3, <1>4 DEF TracerInv
<1>6. s.current # <<>> /\ n \notin gone
  BY <1>1, <1>2, <1>3, <1>4 DEF TracerInv, InStep
<1>7. [id |-> <<turn, k>>, name |-> asked[k]] \in RequestedIn(history, turn)
  BY <1>1 DEF TracerInv, InStep
<1>8. e.id # None => e.id[1] = n /\ [id |-> e.id, name |-> e.name] \in RequestedIn(es, n)
  <2>. SUFFICES ASSUME e.id # None
                PROVE  e.id[1] = n /\ [id |-> e.id, name |-> e.name] \in RequestedIn(es, n)
    OBVIOUS
  <2>1. PICK i, name : i = <<turn, k>> /\ name = asked[k] /\ e.id = i /\ e.name = name
    OBVIOUS
  <2>2. [id |-> i, name |-> name] \in RequestedIn(es, n)
    BY <1>2, <1>3, <1>7, <2>1
  <2>3. i[1] = n
    BY <1>3, <2>1
  <2>. QED  BY <2>1, <2>2, <2>3
<1>9. ClosedTurnsFine(s2, l, n, gone)
  BY <1>2, <1>5, <1>6, <1>8, ToolStep
<1>10. CurrentTurnFine(s2, l, n, gone)
  BY <1>2, <1>5, <1>6, <1>8, ToolStep
<1>11. s2.current # <<>>
  BY <1>2, <1>5, <1>6, <1>8, ToolStep
<1>12. /\ e.kind = "llm_end" => e.run <= n
       /\ e.kind \in {"tool_end", "tool_message"} /\ e.id # None => e.id[1] <= n
  BY <1>3, <1>8 DEF IsAboutTool
<1>13. RequestedUpTo(l, n)
  BY <1>2, <1>3, <1>5, <1>12, RequestedUpToOneMore, Zenon
<1>14. ReportedUpTo(l, n)
  BY <1>2, <1>3, <1>5, <1>12, ReportedUpToOneMore, Zenon
<1>15. /\ UNCHANGED <<phase, turn, asked, open, transcript, cut>>
       /\ progress' = [progress EXCEPT ![k] = to]
  BY DEF Moves
<1>16. /\ \A run : RequestedIn(es, run) \subseteq RequestedIn(l, run)
       /\ ReportedIn(es, "tool_message") \subseteq ReportedIn(l, "tool_message")
       /\ e.kind = "tool_message" => e.id \in ReportedIn(l, "tool_message")
  BY <1>2, MoreToCome
<1>17. \A i \in DOMAIN transcript' : transcript'[i].id \in ReportedIn(l, "tool_message")
  BY <1>2, <1>15, <1>16, TranscriptStays DEF TracerInv
<1>18. ASSUME NEW j \in DOMAIN asked
       PROVE  /\ [id |-> <<turn, j>>, name |-> asked[j]] \in RequestedIn(l, turn)
              /\ progress'[j] = "answered" => <<turn, j>> \in ReportedIn(l, "tool_message")
  <2>1. /\ [id |-> <<turn, j>>, name |-> asked[j]] \in RequestedIn(es, turn)
        /\ progress[j] = "answered" => <<turn, j>> \in ReportedIn(es, "tool_message")
    BY <1>1, <1>2 DEF TracerInv, InStep
  <2>2. j # k => progress'[j] = progress[j]
    BY <1>15 DEF AgentTypeOK
  <2>3. j = k => progress'[j] = to
    BY <1>15 DEF AgentTypeOK
  <2>. QED  BY <1>16, <2>1, <2>2, <2>3
<1>19. InStep'
  BY <1>1, <1>2, <1>3, <1>4, <1>6, <1>11, <1>15, <1>18 DEF InStep
<1>. QED  BY <1>1, <1>2, <1>3, <1>4, <1>9, <1>10, <1>13, <1>14, <1>15, <1>17, <1>19 DEF TracerInv

LEMMA ToolsDoneKeeps ==
  ASSUME AgentTypeOK, SinkOK, TracerInv, ToolsDone
  PROVE  TracerInv'
<1>1. PICK cs : cs = [k \in DOMAIN asked |-> Call(k)]
  OBVIOUS
<1>2. /\ phase = "tools" /\ phase' = "model" /\ transcript' = transcript \o cs
      /\ \A k \in DOMAIN asked : progress[k] = "answered"
      /\ UNCHANGED <<turn, asked, open, progress, sink, history, cut>>
  BY <1>1 DEF ToolsDone
<1>3. DOMAIN asked = 1 .. Len(asked) /\ Len(asked) \in Nat /\ transcript \in Seq(Messages)
  BY DEF AgentTypeOK
<1>4. \A k \in DOMAIN asked : cs[k] \in Messages /\ cs[k].id = <<turn, k>>
  BY <1>1, CallTyped
<1>5. cs \in Seq(Messages) /\ DOMAIN cs = DOMAIN asked
  BY <1>1, <1>3, <1>4
<1>6. \A k \in DOMAIN cs : cs[k].id \in ReportedIn(history, "tool_message")
  BY <1>2, <1>4, <1>5 DEF TracerInv, InStep
<1>7. \A i \in DOMAIN transcript : transcript[i].id \in ReportedIn(history, "tool_message")
  BY DEF TracerInv
<1>8. \A i \in DOMAIN transcript' : transcript'[i].id \in ReportedIn(history, "tool_message")
  <2>1. PICK ts, us, R : /\ ts = transcript /\ us = transcript' /\ us = ts \o cs /\ ts \in Seq(Messages)
                         /\ R = ReportedIn(history, "tool_message")
    BY <1>2, <1>3
  <2>2. \A i \in 1 .. Len(ts) + Len(cs) : (ts \o cs)[i] = IF i <= Len(ts) THEN ts[i] ELSE cs[i - Len(ts)]
    BY <1>5, <2>1, ConcatProperties
  <2>3. PICK a \in Nat, b \in Nat : /\ a = Len(ts) /\ b = Len(cs)
                                    /\ DOMAIN us = 1 .. a + b /\ DOMAIN ts = 1 .. a /\ DOMAIN cs = 1 .. b
    BY <1>5, <2>1
  <2>4. \A i \in 1 .. a : ts[i].id \in R
    BY <1>7, <2>1, <2>3
  <2>5. \A i \in 1 .. b : cs[i].id \in R
    BY <1>6, <2>1, <2>3
  <2>6. \A i \in 1 .. a + b : us[i].id \in R
    <3>. TAKE i \in 1 .. a + b
    <3>1. us[i] = IF i <= a THEN ts[i] ELSE cs[i - a]
      BY <2>1, <2>2, <2>3
    <3>2. CASE i <= a
      BY <2>4, <3>1, <3>2
    <3>3. CASE ~(i <= a)
      <4>1. PICK j \in 1 .. b : j = i - a
        BY <3>3
      <4>. QED  BY <2>5, <3>1, <3>3, <4>1
    <3>. QED  BY <3>2, <3>3
  <2>. QED  BY <2>1, <2>3, <2>6
<1>9. InStep'
  BY <1>2 DEF TracerInv, InStep
<1>. QED  BY <1>2, <1>8, <1>9 DEF TracerInv

LEMMA DecisionKeeps ==
  ASSUME AgentTypeOK, SinkOK, TracerInv, Reprompt \/ Allow
  PROVE  TracerInv'
<1>1. /\ phase = "decide" /\ UNCHANGED <<turn, asked, open, progress, transcript, sink, history, cut>>
      /\ phase' \in {"model", "tools"} /\ (phase' = "tools" => asked # <<>>)
  BY DEF Reprompt, Allow
<1>2. InStep'
  BY <1>1 DEF TracerInv, InStep
<1>. QED  BY <1>1, <1>2 DEF TracerInv

LEMMA EndKeeps ==
  ASSUME AgentTypeOK, SinkOK, TracerInv, OnChainEnd
  PROVE  TracerInv'
<1>1. /\ phase = "decide" /\ phase' = "idle" /\ UNCHANGED <<turn, asked, open, progress, transcript>>
      /\ cut' = IF open THEN cut \cup {turn} ELSE cut
      /\ Record(Again(transcript))
  BY DEF OnChainEnd, Again
<1>2. PICK ms : ms = Again(transcript)
  OBVIOUS
<1>3. PICK es, l, s, s2 :
        /\ es = history /\ l = history' /\ s = Traced(history) /\ s2 = Traced(history')
        /\ es \in Seq(Events) /\ l = es \o ms
  BY <1>1, <1>2 DEF SinkOK, Record
<1>4. /\ ms \in Seq(Events) /\ Len(ms) = Len(transcript)
      /\ \A i \in 1 .. Len(transcript) : \E j \in DOMAIN transcript : ms[i] = MessageEvent(transcript[j])
  BY <1>2, AgainTyped DEF AgentTypeOK
<1>5. \A i \in 1 .. Len(ms) :
        ms[i].kind = "tool_message" /\ ms[i].id \in ReportedIn(es, "tool_message")
  <2>. TAKE i \in 1 .. Len(ms)
  <2>1. PICK j \in DOMAIN transcript : ms[i] = MessageEvent(transcript[j])
    BY <1>4
  <2>2. transcript[j] \in Messages
    BY DEF AgentTypeOK
  <2>3. ms[i].kind = "tool_message" /\ ms[i].id = transcript[j].id
    BY <2>1, <2>2, MessageEventTyped
  <2>. QED  BY <1>3, <2>3 DEF TracerInv
<1>6. /\ \A run : RequestedIn(l, run) = RequestedIn(es, run)
      /\ \A kind \in {"tool_end", "tool_message"} : ReportedIn(l, kind) = ReportedIn(es, kind)
  <2>1. es \in Seq(Events) /\ ms \in Seq(Events) /\ l = es \o ms
    BY <1>3, <1>4
  <2>2. \A run : RequestedIn(l, run) = RequestedIn(es, run)
    <3>1. \A i \in 1 .. Len(ms) : ms[i].kind = "tool_message"
      BY <1>5
    <3>2. /\ \A i \in DOMAIN es : i \in DOMAIN l /\ l[i] = es[i]
          /\ \A i \in DOMAIN l : (i \in DOMAIN es /\ l[i] = es[i]) \/ l[i].kind = "tool_message"
      BY <2>1, <3>1, AgainAsks
    <3>. QED  BY <3>2, AgainRequested, Zenon
  <2>3. \A kind \in {"tool_end", "tool_message"} : ReportedIn(l, kind) = ReportedIn(es, kind)
    BY <1>5, <2>1, AgainReported
  <2>. QED  BY <2>2, <2>3
<1>7. /\ s2.turns = s.turns
      /\ s.current = <<>> => s2.current = <<>>
      /\ s.current # <<>> => s2.current # <<>> /\ s2.current[1].run = s.current[1].run
  <2>1. \A i \in 1 .. Len(ms) : ms[i].kind = "tool_message"
    BY <1>5
  <2>2. s = Traced(es) /\ s2 = Traced(es \o ms)
    BY <1>3
  <2>. QED  BY <1>3, <1>4, <2>1, <2>2, AgainTraced
<1>8. \A t : FineIn(l, t) <=> FineIn(es, t)
  BY <1>6 DEF FineIn
<1>9. ClosedTurnsFine(s2, l, turn, cut')
  BY <1>1, <1>3, <1>7, <1>8 DEF TracerInv, ClosedTurnsFine
<1>10. CurrentTurnFine(s2, l, turn, cut')
  <2>. SUFFICES ASSUME s2.current # <<>>
                PROVE  /\ s2.current[1].run = turn
                       /\ \A i \in DOMAIN s2.turns : s2.turns[i].run < turn
                       /\ turn \in cut'
    BY DEF CurrentTurnFine
  <2>1. s.current # <<>>
    BY <1>7
  <2>2. open
    BY <1>1, <1>3, <2>1 DEF TracerInv, InStep
  <2>3. s.current[1].run = turn /\ \A i \in DOMAIN s.turns : s.turns[i].run < turn
    BY <1>3, <2>1 DEF TracerInv, CurrentTurnFine
  <2>. QED  BY <1>1, <1>7, <2>1, <2>2, <2>3
<1>11. RequestedUpTo(l, turn)
  <2>1. \A i \in DOMAIN l : (i \in DOMAIN es /\ l[i] = es[i]) \/ l[i].kind = "tool_message"
    <3>1. \A i \in 1 .. Len(ms) : ms[i].kind = "tool_message"
      BY <1>5
    <3>. QED  BY <1>3, <1>4, <3>1, AgainAsks
  <2>. QED  BY <1>3, <2>1 DEF TracerInv, RequestedUpTo
<1>12. ReportedUpTo(l, turn)
  BY <1>3, <1>6 DEF TracerInv, ReportedUpTo
<1>13. \A i \in DOMAIN transcript' : transcript'[i].id \in ReportedIn(l, "tool_message")
  BY <1>1, <1>3, <1>6 DEF TracerInv
<1>14. InStep'
  BY <1>1 DEF InStep
<1>. QED  BY <1>1, <1>3, <1>9, <1>10, <1>11, <1>12, <1>13, <1>14 DEF TracerInv

LEMMA TracerInvInit == TracingInit => TracerInv
<1>. SUFFICES ASSUME TracingInit PROVE TracerInv
  OBVIOUS
<1>1. phase = "idle" /\ turn = 0 /\ asked = <<>> /\ transcript = <<>> /\ history = <<>> /\ cut = {}
  BY DEF TracingInit
<1>2. Traced(history).turns = <<>> /\ Traced(history).current = <<>>
  BY <1>1, TracedNothing DEF Untraced
<1>3. ReportedIn(history, "tool_message") = {} /\ ReportedIn(history, "tool_end") = {}
  BY <1>1 DEF ReportedIn
<1>. QED  BY <1>1, <1>2, <1>3
          DEF TracerInv, ClosedTurnsFine, CurrentTurnFine, RequestedUpTo, ReportedUpTo, InStep

LEMMA TracerInvStep ==
  ASSUME AgentTypeOK, SinkOK, TracerInv, [TracingNext]_tracingVars
  PROVE  TracerInv'
<1>1. \A tools \in Replies : tools \in Seq(STRING)
  BY TracingAssumption
<1>2. CASE \E tools \in Replies : OnLlmEnd(tools, "tool_calls")
  <2>1. PICK tools \in Replies : OnLlmEnd(tools, "tool_calls")
    BY <1>2
  <2>2. PICK finish \in {"tool_calls", "stop"} : finish = "tool_calls"
    OBVIOUS
  <2>3. tools \in Seq(STRING) /\ OnLlmEnd(tools, finish)
    BY <1>1, <2>1, <2>2
  <2>. QED  BY <2>3, ReplyKeeps
<1>3. CASE OnLlmEnd(<<>>, "stop")
  <2>0. <<>> \in Seq(STRING)
    OBVIOUS
  <2>1. PICK tools \in Seq(STRING) : tools = <<>>
    BY <2>0
  <2>2. PICK finish \in {"tool_calls", "stop"} : finish = "stop"
    OBVIOUS
  <2>3. OnLlmEnd(tools, finish)
    BY <1>3, <2>1, <2>2
  <2>. QED  BY <2>3, ReplyKeeps
<1>4. ASSUME NEW k \in DOMAIN asked, OnToolStart(k)
      PROVE  TracerInv'
  <2>1. asked[k] \in STRING /\ turn \in Nat
    BY CallTyped
  <2>2. PICK e \in Events : e = Event("tool_start", turn, asked[k], None) /\ e.kind = "tool_start" /\ e.id = None
    <3>1. PICK e, name : e = Event("tool_start", turn, name, None) /\ name = asked[k]
      OBVIOUS
    <3>2. e \in Events
      BY <2>1, <3>1, EventKinds
    <3>3. e.kind = "tool_start" /\ e.id = None
      BY <3>1 DEF Event
    <3>. QED  BY <3>1, <3>2, <3>3
  <2>3. PICK from : from = "waiting"
    OBVIOUS
  <2>6. PICK to \in {"running", "ended", "answered"} : to = "running"
    OBVIOUS
  <2>4. Moves(k, from, to) /\ Record(<<e>>) /\ to # "answered"
    BY <1>4, <2>2, <2>3, <2>6 DEF OnToolStart
  <2>5. IsAboutTool(e)
    BY <2>2 DEF IsAboutTool
  <2>. QED  BY <2>2, <2>4, <2>5, ToolKeeps
<1>5. ASSUME NEW k \in DOMAIN asked, OnToolEnd(k)
      PROVE  TracerInv'
  <2>1. asked[k] \in STRING /\ turn \in Nat /\ Call(k).id \in CallIds /\ Call(k).id = <<turn, k>>
    BY CallTyped
  <2>2. PICK e : e = IF asked[k] \in Commanding THEN Event("tool_end", turn, None, None)
                     ELSE Event("tool_end", turn, asked[k], Call(k).id)
    OBVIOUS
  <2>3. /\ e \in Events /\ e.kind = "tool_end"
        /\ e.id # None => e.id = <<turn, k>> /\ e.name = asked[k]
    <3>1. PICK name, id : name = asked[k] /\ id = <<turn, k>>
      OBVIOUS
    <3>2. e = Event("tool_end", turn, None, None) \/ e = Event("tool_end", turn, name, id)
      BY <2>1, <2>2, <3>1
    <3>3. name \in STRING /\ id \in CallIds
      BY <2>1, <3>1
    <3>4. e \in Events
      BY <2>1, <3>2, <3>3, EventKinds
    <3>5. e.kind = "tool_end" /\ (e.id # None => e.id = id /\ e.name = name)
      BY <3>2 DEF Event
    <3>. QED  BY <3>1, <3>4, <3>5
  <2>4. PICK from : from = "running"
    OBVIOUS
  <2>7. PICK to \in {"running", "ended", "answered"} : to = "ended"
    OBVIOUS
  <2>5. Moves(k, from, to) /\ Record(<<e>>) /\ to # "answered"
    BY <1>5, <2>2, <2>4, <2>7 DEF OnToolEnd
  <2>6. IsAboutTool(e)
    BY <2>3 DEF IsAboutTool
  <2>. QED  BY <2>3, <2>5, <2>6, ToolKeeps
<1>6. ASSUME NEW k \in DOMAIN asked, OnToolNodeEnd(k)
      PROVE  TracerInv'
  <2>1. PICK c \in Messages : c = Call(k) /\ c.id = <<turn, k>> /\ c.name = asked[k]
    BY CallTyped
  <2>2. PICK e \in Events : e = MessageEvent(c) /\ e.kind = "tool_message" /\ e.id = c.id /\ e.name = c.name
    <3>1. PICK e : e = MessageEvent(c)
      OBVIOUS
    <3>2. e.name = c.name
      BY <3>1, EventFields DEF MessageEvent
    <3>. QED  BY <3>1, <3>2, MessageEventTyped
  <2>3. PICK from : from \in {"ended", "waiting"} /\ Moves(k, from, "answered")
    BY <1>6 DEF OnToolNodeEnd
  <2>4. PICK to \in {"running", "ended", "answered"} : to = "answered"
    OBVIOUS
  <2>5. Moves(k, from, to) /\ Record(<<e>>)
    BY <1>6, <2>1, <2>2, <2>3, <2>4 DEF OnToolNodeEnd
  <2>6. IsAboutTool(e)
    BY <2>2 DEF IsAboutTool
  <2>7. e.id = <<turn, k>> /\ e.name = asked[k] /\ e.kind = "tool_message"
    BY <2>1, <2>2
  <2>. QED  BY <2>5, <2>6, <2>7, ToolKeeps
<1>7. CASE UNCHANGED tracingVars
  <2>1. UNCHANGED <<phase, turn, asked, open, progress, transcript, sink, history, cut>>
    BY <1>7 DEF tracingVars, agentVars
  <2>2. InStep'
    BY <2>1 DEF TracerInv, InStep
  <2>. QED  BY <2>1, <2>2 DEF TracerInv
<1>. QED  BY <1>2, <1>3, <1>4, <1>5, <1>6, <1>7, StartKeeps, TokenKeeps, DecisionKeeps, ToolsDoneKeeps,
             EndKeeps DEF TracingNext

LEMMA TracerInvSuffices == AgentTypeOK /\ SinkOK /\ TracerInv => AnswersReachTheirCalls
<1>. SUFFICES ASSUME AgentTypeOK, SinkOK, TracerInv PROVE AnswersReachTheirCalls
  OBVIOUS
<1>1. PICK s : s = Traced(history) /\ s \in States(Turns)
  BY TracedTyped DEF SinkOK
<1>2. /\ \A run : Requested(run) = RequestedIn(history, run)
      /\ \A kind : Reported(kind) = ReportedIn(history, kind)
  BY DEF Requested, Reported, RequestedIn, ReportedIn
<1>3. Snapshot(history) = Closed(s)
  BY <1>1 DEF Snapshot
<1>4. PICK messaged, returned :
        messaged = ReportedIn(history, "tool_message") /\ returned = ReportedIn(history, "tool_end")
  OBVIOUS
<1>5. ASSUME NEW i \in DOMAIN Closed(s), Closed(s)[i].run \notin cut,
             NEW known, known = {v \in ToSet(Closed(s)[i].invocations) : v.id # None}
      PROVE  /\ {[id |-> v.id, name |-> v.name] : v \in known} = RequestedIn(history, Closed(s)[i].run)
             /\ \A v \in known :
                  /\ v.message = IF v.id \in messaged THEN v.id ELSE None
                  /\ v.id \in returned => v.result = v.id
                  /\ v.id \notin returned => v.result \in {None, "unidentified"}
  <2>1. PICK t : t = Closed(s)[i]
    OBVIOUS
  <2>2. FineIn(history, t)
    <3>1. CASE \E j \in DOMAIN s.turns : t = s.turns[j]
      BY <1>1, <1>5, <2>1, <3>1 DEF TracerInv, ClosedTurnsFine
    <3>2. CASE s.current # <<>> /\ t = s.current[1]
      BY <1>1, <1>5, <2>1, <3>2 DEF TracerInv, CurrentTurnFine
    <3>. QED  BY <1>1, <2>1, <3>1, <3>2, ClosedElements
  <2>3. PICK invs, requested : invs = t.invocations /\ requested = RequestedIn(history, t.run)
    OBVIOUS
  <2>4. Fine(invs, requested, messaged, returned)
    BY <1>4, <2>2, <2>3 DEF FineIn
  <2>5. known = {v \in ToSet(invs) : v.id # None}
    BY <1>5, <2>1, <2>3
  <2>6. \A v : v \in known <=> \E j \in DOMAIN invs : v = invs[j] /\ v.id # None
    BY <2>5 DEF ToSet
  <2>7. \A v \in known : Asks(v) \in requested /\ Right(v, messaged, returned)
    BY <2>4, <2>6 DEF Fine
  <2>8. \A q \in requested : \E v \in known : Asks(v) = q
    BY <2>4, <2>6 DEF Fine
  <2>9. {[id |-> v.id, name |-> v.name] : v \in known} = requested
    BY <2>7, <2>8 DEF Asks
  <2>. QED  BY <2>1, <2>3, <2>7, <2>9 DEF Right
<1>. QED  BY <1>2, <1>3, <1>4, <1>5 DEF AnswersReachTheirCalls

\* Each turn that the guard did not cut short has an invocation for every call that its
\* reply asked for, with the result and the message of this call and of no other, in
\* whatever order the calls end, and whatever else is reported without an id.
THEOREM AnswersFindTheirCalls == TracingSpec => []AnswersReachTheirCalls
<1>1. TracingInit => TracerInv
  BY TracerInvInit
<1>2. (AgentTypeOK /\ SinkOK) /\ TracerInv /\ [TracingNext]_tracingVars => TracerInv'
  BY TracerInvStep
<1>3. (AgentTypeOK /\ SinkOK) /\ TracerInv => AnswersReachTheirCalls
  BY TracerInvSuffices
<1>. QED  BY <1>1, <1>2, <1>3, TracingInvariant, PTL DEF TracingSpec
=============================================================================
