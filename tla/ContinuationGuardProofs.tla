----------------------- MODULE ContinuationGuardProofs -----------------------
(***************************************************************************)
(* Proofs about the guard of a run (ContinuationGuard): the repair of a    *)
(* transcript for every transcript, and the invariants of a run for every  *)
(* set of histories, texts and turns and every bound.                      *)
(***************************************************************************)
EXTENDS ContinuationGuard, Induction, SequenceTheorems

-----------------------------------------------------------------------------
(* Messages and transcripts.                                               *)

\* What the fields of a message hold, by the role of who speaks.
LEMMA MessageFields ==
  ASSUME NEW m \in Message
  PROVE  /\ m.role \in {"user", "ai", "tool"}
         /\ m.id = <<m.id[1], m.id[2]>> /\ m.id[1] \in Nat /\ m.id[2] \in Nat
         /\ m.role # "tool" <=> m.id[2] = 0
         /\ m.role = "user" => m.kind \in Reminders \cup {"task"}
         /\ m.role = "ai" => /\ m.tools \in Seq(Tools) /\ m.malformed \in BOOLEAN
                             /\ m.text \in SUBSET Markers
         /\ m.role = "tool" => m.ok \in BOOLEAN /\ m.shows \in Nat \cup {None}
<1>1. CASE m \in UserMessage
  BY <1>1 DEF UserMessage
<1>2. CASE m \in AIMessage
  BY <1>2 DEF AIMessage
<1>3. CASE m \in ToolMessage
  BY <1>3 DEF ToolMessage
<1>. QED  BY <1>1, <1>2, <1>3 DEF Message

\* The messages that the guard and the agent write are messages.
LEMMA NewMessages ==
  /\ \A n \in Nat, kind \in Reminders \cup {"task"} : User(n, kind) \in Message
  /\ \A n \in Nat, tools \in Seq(Tools), malformed \in BOOLEAN, text \in SUBSET Markers :
       AI(n, tools, malformed, text) \in Message
  /\ \A n \in Nat, k \in Nat \ {0}, ok \in BOOLEAN, shows \in Nat \cup {None} :
       ToolResult(<<n, k>>, ok, shows) \in Message
BY DEF User, AI, ToolResult, Message, UserMessage, AIMessage, ToolMessage

LEMMA TranscriptFacts ==
  ASSUME NEW ms, IsTranscript(ms)
  PROVE  /\ ms \in Seq(Message) /\ Len(ms) \in Nat /\ DOMAIN ms = 1 .. Len(ms)
         /\ \A i \in 1 .. Len(ms) : ms[i] \in Message
         /\ \A i, j \in 1 .. Len(ms) : ms[i].id = ms[j].id => i = j
BY DEF IsTranscript

\* The calls of a message bear its number.
LEMMA CallsBearNumber ==
  ASSUME NEW m \in Message, NEW c \in CallsOf(m)
  PROVE  m.role = "ai" /\ c = <<m.id[1], c[2]>> /\ c[2] \in DOMAIN m.tools /\ c[2] \in Nat \ {0}
<1>1. m.role = "ai"
  BY DEF CallsOf
<1>2. DOMAIN m.tools = 1 .. Len(m.tools) /\ Len(m.tools) \in Nat
  BY <1>1, MessageFields
<1>. QED  BY <1>1, <1>2 DEF CallsOf

-----------------------------------------------------------------------------
(* The places that the operators of the model look for.                    *)

LEMMA LastPlace ==
  ASSUME NEW N \in Nat, NEW I \in SUBSET (1 .. N), NEW k, k = IF I # {} THEN Max(I) ELSE 0
  PROVE  /\ k \in 0 .. N /\ \A i \in I : i <= k
         /\ k = 0 => I = {}
         /\ k # 0 => k \in I
<1>1. CASE I = {}
  BY <1>1
<1>2. CASE I # {}
  <2>1. I \in SUBSET Nat /\ \A x \in I : x <= N
    OBVIOUS
  <2>2. Max(I) \in I /\ \A y \in I : Max(I) >= y
    BY <1>2, <2>1, GreatestNumber
  <2>3. k = Max(I) /\ k \in I
    BY <1>2, <2>2
  <2>4. \A i \in I : i <= k
    <3>. TAKE i \in I
    <3>1. k >= i /\ i \in Nat /\ k \in Nat
      BY <2>1, <2>2, <2>3
    <3>. QED  BY <3>1
  <2>. QED  BY <2>3, <2>4
<1>. QED  BY <1>1, <1>2

LEMMA LatestAIFacts ==
  ASSUME NEW ms, Len(ms) \in Nat
  PROVE  /\ LatestAI(ms) \in 0 .. Len(ms)
         /\ LatestAI(ms) # 0 => ms[LatestAI(ms)].role = "ai"
         /\ \A i \in LatestAI(ms) + 1 .. Len(ms) : ms[i].role # "ai"
<1>. DEFINE I == {i \in 1 .. Len(ms) : ms[i].role = "ai"}
<1>1. LatestAI(ms) = IF I # {} THEN Max(I) ELSE 0
  BY DEF LatestAI, LastWhere, SelectLastInSeq
<1>2. /\ LatestAI(ms) \in 0 .. Len(ms) /\ \A i \in I : i <= LatestAI(ms)
      /\ LatestAI(ms) # 0 => LatestAI(ms) \in I
  <2>1. I \in SUBSET (1 .. Len(ms))
    OBVIOUS
  <2>. HIDE DEF I
  <2>. QED  BY <1>1, <2>1, LastPlace
<1>. QED  BY <1>2

\* The last message before place j that is not a result, 0 if there is none.
LEMMA AskedBeforeFacts ==
  ASSUME NEW ms, NEW j \in Nat, j # 0
  PROVE  /\ AskedBefore(ms, j) \in 0 .. j - 1
         /\ AskedBefore(ms, j) # 0 => ms[AskedBefore(ms, j)].role # "tool"
         /\ \A k \in AskedBefore(ms, j) + 1 .. j - 1 : ms[k].role = "tool"
<1>. DEFINE I == {0} \cup {a \in 1 .. j - 1 : ms[a].role # "tool"}
<1>1. I \in SUBSET Nat /\ I # {} /\ \A x \in I : x <= j - 1 /\ j - 1 \in Nat
  OBVIOUS
<1>2. AskedBefore(ms, j) = Max(I)
  BY DEF AskedBefore
<1>3. Max(I) \in I /\ \A y \in I : Max(I) >= y
  <2>. HIDE DEF I
  <2>. QED  BY <1>1, GreatestNumber
<1>4. /\ AskedBefore(ms, j) \in I
      /\ \A y \in I : y <= AskedBefore(ms, j)
  BY <1>1, <1>2, <1>3
<1>. HIDE DEF I
<1>5. /\ AskedBefore(ms, j) \in 0 .. j - 1
      /\ AskedBefore(ms, j) # 0 => ms[AskedBefore(ms, j)].role # "tool"
  BY <1>4 DEF I
<1>6. ASSUME NEW k \in AskedBefore(ms, j) + 1 .. j - 1, ms[k].role # "tool"
      PROVE  FALSE
  <2>1. k \in I
    BY <1>5, <1>6 DEF I
  <2>. QED  BY <1>4, <1>5, <2>1
<1>. QED  BY <1>5, <1>6

LEMMA AskedBeforeIs ==
  ASSUME NEW ms, NEW j \in Nat, j # 0, NEW a \in 0 .. j - 1,
         a # 0 => ms[a].role # "tool",
         \A k \in a + 1 .. j - 1 : ms[k].role = "tool"
  PROVE  AskedBefore(ms, j) = a
BY AskedBeforeFacts

\* The next message after place a that is not a result, or the place after the end.
LEMMA NextMessageFacts ==
  ASSUME NEW ms, Len(ms) \in Nat, NEW a \in 1 .. Len(ms)
  PROVE  /\ NextMessage(ms, a) \in a + 1 .. Len(ms) + 1
         /\ NextMessage(ms, a) # Len(ms) + 1 => ms[NextMessage(ms, a)].role # "tool"
         /\ \A k \in a + 1 .. NextMessage(ms, a) - 1 : ms[k].role = "tool"
<1>. DEFINE I == {Len(ms) + 1} \cup {j \in a + 1 .. Len(ms) : ms[j].role # "tool"}
<1>1. I \in SUBSET Nat /\ I # {}
  OBVIOUS
<1>2. NextMessage(ms, a) = Min(I)
  BY DEF NextMessage
<1>3. Min(I) \in I /\ \A y \in I : Min(I) <= y
  <2>. HIDE DEF I
  <2>. QED  BY <1>1, LeastNumber
<1>4. NextMessage(ms, a) \in I /\ \A y \in I : NextMessage(ms, a) <= y
  BY <1>2, <1>3
<1>. HIDE DEF I
<1>5. /\ NextMessage(ms, a) \in a + 1 .. Len(ms) + 1
      /\ NextMessage(ms, a) # Len(ms) + 1 => ms[NextMessage(ms, a)].role # "tool"
  BY <1>4 DEF I
<1>6. ASSUME NEW k \in a + 1 .. NextMessage(ms, a) - 1, ms[k].role # "tool"
      PROVE  FALSE
  <2>1. k \in I
    BY <1>5, <1>6 DEF I
  <2>. QED  BY <1>4, <1>5, <2>1
<1>. QED  BY <1>5, <1>6

LEMMA NextMessageIs ==
  ASSUME NEW ms, Len(ms) \in Nat, NEW a \in 1 .. Len(ms), NEW n \in a + 1 .. Len(ms) + 1,
         n # Len(ms) + 1 => ms[n].role # "tool",
         \A k \in a + 1 .. n - 1 : ms[k].role = "tool"
  PROVE  NextMessage(ms, a) = n
BY NextMessageFacts

-----------------------------------------------------------------------------
(* The repair of a transcript.                                             *)

\* The messages r are those of the first n of ms whose ids are not in ids, and p are
\* their places.
Picks(r, p, ms, n, ids) ==
  /\ r \in Seq(Message) /\ p \in [1 .. Len(r) -> 1 .. n]
  /\ \A k, l \in 1 .. Len(r) : k < l => p[k] < p[l]
  /\ \A k \in 1 .. Len(r) : r[k] = ms[p[k]] /\ ms[p[k]].id \notin ids
  /\ \A i \in 1 .. n : ms[i].id \notin ids => \E k \in 1 .. Len(r) : p[k] = i

LEMMA PicksNone ==
  ASSUME NEW ms, NEW ids
  PROVE  Picks(<<>>, <<>>, ms, 0, ids)
BY DEF Picks

LEMMA PicksLess ==
  ASSUME NEW ms \in Seq(Message), NEW ids, NEW n \in 1 .. Len(ms), NEW r, NEW p,
         Picks(r, p, ms, n - 1, ids), ms[n].id \in ids
  PROVE  Picks(r, p, ms, n, ids)
<1>1. p \in [1 .. Len(r) -> 1 .. n]
  BY DEF Picks
<1>2. \A i \in 1 .. n : ms[i].id \notin ids => i \in 1 .. n - 1
  OBVIOUS
<1>. QED  BY <1>1, <1>2 DEF Picks

LEMMA PicksMore ==
  ASSUME NEW ms \in Seq(Message), NEW ids, NEW n \in 1 .. Len(ms), NEW r, NEW p,
         Picks(r, p, ms, n - 1, ids), ms[n].id \notin ids
  PROVE  \E q : Picks(Append(r, ms[n]), q, ms, n, ids)
<1>. DEFINE s == Append(r, ms[n])
            q == [k \in 1 .. Len(r) + 1 |-> IF k = Len(r) + 1 THEN n ELSE p[k]]
<1>1. r \in Seq(Message) /\ Len(r) \in Nat /\ p \in [1 .. Len(r) -> 1 .. n - 1]
  BY DEF Picks
<1>2. /\ s \in Seq(Message) /\ Len(s) = Len(r) + 1
      /\ \A k \in 1 .. Len(r) : s[k] = r[k]
      /\ s[Len(r) + 1] = ms[n]
  BY <1>1
<1>3. /\ q \in [1 .. Len(r) + 1 -> 1 .. n]
      /\ \A k \in 1 .. Len(r) : q[k] = p[k] /\ q[k] \in 1 .. n - 1
      /\ q[Len(r) + 1] = n
  BY <1>1
<1>. HIDE DEF s, q
<1>4. \A k, l \in 1 .. Len(s) : k < l => q[k] < q[l]
  <2>. TAKE k, l \in 1 .. Len(s)
  <2>. HAVE k < l
  <2>1. k \in 1 .. Len(r) /\ l \in 1 .. Len(r) + 1
    BY <1>1, <1>2
  <2>2. CASE l = Len(r) + 1
    BY <1>3, <2>1, <2>2
  <2>3. CASE l \in 1 .. Len(r)
    BY <1>3, <2>1, <2>3 DEF Picks
  <2>. QED  BY <1>1, <2>1, <2>2, <2>3
<1>5. \A k \in 1 .. Len(s) : s[k] = ms[q[k]] /\ ms[q[k]].id \notin ids
  <2>. TAKE k \in 1 .. Len(s)
  <2>1. CASE k = Len(r) + 1
    BY <1>2, <1>3, <2>1
  <2>2. CASE k \in 1 .. Len(r)
    BY <1>2, <1>3, <2>2 DEF Picks
  <2>. QED  BY <1>1, <1>2, <2>1, <2>2
<1>6. \A i \in 1 .. n : ms[i].id \notin ids => \E k \in 1 .. Len(s) : q[k] = i
  <2>. TAKE i \in 1 .. n
  <2>. HAVE ms[i].id \notin ids
  <2>1. CASE i = n
    <3>1. Len(r) + 1 \in 1 .. Len(s)
      BY <1>1, <1>2
    <3>. QED  BY <1>3, <2>1, <3>1
  <2>2. CASE i \in 1 .. n - 1
    <3>1. PICK k \in 1 .. Len(r) : p[k] = i
      BY <2>2 DEF Picks
    <3>2. k \in 1 .. Len(s) /\ q[k] = i
      BY <1>1, <1>2, <1>3, <3>1
    <3>. QED  BY <3>2
  <2>. QED  BY <2>1, <2>2
<1>7. Picks(s, q, ms, n, ids)
  BY <1>2, <1>3, <1>4, <1>5, <1>6 DEF Picks
<1>. QED  BY <1>7 DEF s

\* Removing messages leaves the others, in their order.
LEMMA WithoutPicks ==
  ASSUME NEW ms \in Seq(Message), NEW ids
  PROVE  \E p : Picks(Without(ms, ids), p, ms, Len(ms), ids)
<1>. DEFINE Next(x, n) == IF ms[n].id \in ids THEN x ELSE Append(x, ms[n])
            Op == [n \in Nat |-> [x \in Seq(Message) |->
                     IF n \in 1 .. Len(ms) THEN Next(x, n) ELSE x]]
<1>1. Op \in Steps(Seq(Message)) /\ <<>> \in Seq(Message) /\ Len(ms) \in Nat
  BY DEF Steps
<1>2. \A n \in 1 .. Len(ms), x \in Seq(Message) :
        Op[n][x] = IF ms[n].id \in ids THEN x ELSE Append(x, ms[n])
  OBVIOUS
<1>. HIDE DEF Op
<1>3. PICK f : IteratesTo(f, Len(ms), Seq(Message), <<>>, Op)
  BY <1>1, Iterates
<1>4. f \in [0 .. Len(ms) -> Seq(Message)] /\ f[0] = <<>>
  BY <1>3 DEF IteratesTo
<1>5. \A n \in 1 .. Len(ms) :
        f[n] = IF ms[n].id \in ids THEN f[n - 1] ELSE Append(f[n - 1], ms[n])
  <2>. TAKE n \in 1 .. Len(ms)
  <2>1. f[n - 1] \in Seq(Message) /\ f[n] = Op[n][f[n - 1]]
    BY <1>3, <1>4 DEF IteratesTo
  <2>. QED  BY <1>2, <2>1
<1>6. f = [n \in 0 .. Len(ms) |->
             IF n = 0 THEN <<>>
             ELSE IF ms[n].id \in ids THEN f[n - 1] ELSE Append(f[n - 1], ms[n])]
  <2>1. \A n \in 0 .. Len(ms) :
          f[n] = IF n = 0 THEN <<>>
                 ELSE IF ms[n].id \in ids THEN f[n - 1] ELSE Append(f[n - 1], ms[n])
    <3>. TAKE n \in 0 .. Len(ms)
    <3>1. CASE n = 0
      BY <1>4, <3>1
    <3>2. CASE n # 0
      <4>1. n \in 1 .. Len(ms)
        BY <1>1, <3>2
      <4>. QED  BY <1>5, <3>2, <4>1
    <3>. QED  BY <3>1, <3>2
  <2>2. f = [n \in 0 .. Len(ms) |-> f[n]]
    BY <1>4
  <2>. QED  BY <2>1, <2>2, Zenon
<1>. DEFINE rest[n \in 0 .. Len(ms)] ==
              IF n = 0 THEN <<>>
              ELSE IF ms[n].id \in ids THEN rest[n - 1] ELSE Append(rest[n - 1], ms[n])
<1>7. rest = [n \in 0 .. Len(ms) |->
                IF n = 0 THEN <<>>
                ELSE IF ms[n].id \in ids THEN rest[n - 1] ELSE Append(rest[n - 1], ms[n])]
  BY <1>6
<1>8. Without(ms, ids) = rest[Len(ms)]
  BY DEF Without
<1>. HIDE DEF rest
<1>9. rest[0] = <<>> /\ \A n \in 1 .. Len(ms) :
        rest[n] = IF ms[n].id \in ids THEN rest[n - 1] ELSE Append(rest[n - 1], ms[n])
  <2>1. rest[0] = <<>>
    BY <1>1, <1>7
  <2>. SUFFICES ASSUME NEW n \in 1 .. Len(ms)
                PROVE  rest[n] = IF ms[n].id \in ids THEN rest[n - 1]
                                 ELSE Append(rest[n - 1], ms[n])
    BY <2>1
  <2>2. n \in 0 .. Len(ms) /\ n # 0
    OBVIOUS
  <2>. QED  BY <1>7, <2>2
<1>. DEFINE P == {n \in Nat : n <= Len(ms) => \E p : Picks(rest[n], p, ms, n, ids)}
<1>10. 0 \in P
  BY <1>9, PicksNone
<1>11. ASSUME NEW n \in Nat, n \in P PROVE n + 1 \in P
  <2>. SUFFICES ASSUME n + 1 <= Len(ms) PROVE \E p : Picks(rest[n + 1], p, ms, n + 1, ids)
    OBVIOUS
  <2>1. PICK p : Picks(rest[n], p, ms, n, ids)
    BY <1>1, <1>11
  <2>2. n + 1 \in 1 .. Len(ms) /\ (n + 1) - 1 = n
    BY <1>1
  <2>3. CASE ms[n + 1].id \in ids
    <3>1. rest[n + 1] = rest[n]
      BY <1>9, <2>2, <2>3
    <3>. QED  BY <2>1, <2>2, <2>3, <3>1, PicksLess
  <2>4. CASE ms[n + 1].id \notin ids
    <3>1. rest[n + 1] = Append(rest[n], ms[n + 1])
      BY <1>9, <2>2, <2>4
    <3>. QED  BY <2>1, <2>2, <2>4, <3>1, PicksMore
  <2>. QED  BY <2>3, <2>4
<1>. HIDE DEF P
<1>12. Len(ms) \in P
  BY <1>1, <1>10, <1>11, NaturalsByInduction
<1>. QED  BY <1>1, <1>8, <1>12 DEF P

\* r lists the kept messages of ms, and p their places.
Keeps(r, p, ms) ==
  /\ r \in Seq(Message) /\ p \in [1 .. Len(r) -> 1 .. Len(ms)]
  /\ \A k, l \in 1 .. Len(r) : k < l => p[k] < p[l]
  /\ \A k \in 1 .. Len(r) : r[k] = ms[p[k]] /\ Kept(ms, p[k])
  /\ \A i \in 1 .. Len(ms) : Kept(ms, i) => \E k \in 1 .. Len(r) : p[k] = i

\* As ids are unique, the repair drops the messages that are not kept and no other.
LEMMA RepairedKeeps ==
  ASSUME NEW ms, IsTranscript(ms)
  PROVE  \E p : Keeps(Repaired(ms), p, ms)
<1>. DEFINE lost == {ms[i].id : i \in {j \in DOMAIN ms : ~Kept(ms, j)}}
<1>1. ms \in Seq(Message) /\ DOMAIN ms = 1 .. Len(ms)
  BY TranscriptFacts
<1>2. \A i \in 1 .. Len(ms) : ms[i].id \notin lost <=> Kept(ms, i)
  BY <1>1, TranscriptFacts
<1>3. Repaired(ms) = Without(ms, lost)
  BY DEF Repaired
<1>. HIDE DEF lost
<1>4. PICK p : Picks(Repaired(ms), p, ms, Len(ms), lost)
  BY <1>1, <1>3, WithoutPicks
<1>5. Keeps(Repaired(ms), p, ms)
  BY <1>2, <1>4 DEF Picks, Keeps
<1>. QED  BY <1>5

\* A kept request is followed by a kept result of each of its calls.
LEMMA ResultsAreKept ==
  ASSUME NEW ms, IsTranscript(ms), NEW i \in 1 .. Len(ms), ms[i].role # "tool", Kept(ms, i),
         NEW c \in CallsOf(ms[i])
  PROVE  \E m \in i + 1 .. NextMessage(ms, i) - 1 :
           m \in 1 .. Len(ms) /\ ms[m].id = c /\ ms[m].role = "tool" /\ Kept(ms, m)
<1>1. ~Unresolved(ms, i)
  BY DEF Kept
<1>2. PICK m \in i + 1 .. NextMessage(ms, i) - 1 : ms[m].id = c
  BY <1>1 DEF Unresolved
<1>3. Len(ms) \in Nat /\ NextMessage(ms, i) \in i + 1 .. Len(ms) + 1
  BY TranscriptFacts, NextMessageFacts
<1>4. m \in 1 .. Len(ms) /\ \A k \in i + 1 .. m : ms[k].role = "tool"
  <2>1. m \in 1 .. Len(ms)
    BY <1>2, <1>3
  <2>2. \A k \in i + 1 .. m : k \in i + 1 .. NextMessage(ms, i) - 1
    BY <1>2, <1>3
  <2>. QED  BY <1>3, <2>1, <2>2, NextMessageFacts
<1>5. AskedBefore(ms, m) = i
  <2>1. m \in Nat /\ m # 0 /\ i \in 0 .. m - 1 /\ i # 0 /\ m \in i + 1 .. m
    BY <1>2, <1>3, <1>4
  <2>2. \A k \in i + 1 .. m - 1 : ms[k].role = "tool"
    BY <1>4, <2>1
  <2>. QED  BY <2>1, <2>2, AskedBeforeIs
<1>6. ms[m].role = "tool"
  BY <1>2, <1>3, <1>4
<1>7. ~Orphan(ms, m)
  <2>1. \A k \in i + 1 .. m - 1 : k \in 1 .. Len(ms) /\ k # m
    BY <1>3, <1>4
  <2>2. \A k \in i + 1 .. m - 1 : ms[k].id # ms[m].id
    BY <1>4, <2>1, TranscriptFacts
  <2>. QED  BY <1>2, <1>5, <2>2 DEF Orphan
<1>8. Kept(ms, m)
  BY <1>1, <1>5, <1>6, <1>7 DEF Kept
<1>. QED  BY <1>2, <1>4, <1>6, <1>8

\* What stood between two kept messages in the transcript does so in the repaired one.
LEMMA KeepsBetween ==
  ASSUME NEW ms, IsTranscript(ms), NEW r, NEW p, Keeps(r, p, ms),
         NEW k \in 1 .. Len(r), NEW l \in 1 .. Len(r), p[k] < p[l]
  PROVE  /\ k < l
         /\ \A m \in k + 1 .. l - 1 : m \in 1 .. Len(r) /\ p[m] \in p[k] + 1 .. p[l] - 1
<1>1. Len(r) \in Nat /\ Len(ms) \in Nat /\ p \in [1 .. Len(r) -> 1 .. Len(ms)]
  BY TranscriptFacts DEF Keeps
<1>2. p[k] \in Nat /\ p[l] \in Nat
  BY <1>1
<1>3. k < l
  <2>1. l < k => p[l] < p[k]
    BY DEF Keeps
  <2>. QED  BY <1>1, <1>2, <2>1
<1>. SUFFICES ASSUME NEW m \in k + 1 .. l - 1
              PROVE  m \in 1 .. Len(r) /\ p[m] \in p[k] + 1 .. p[l] - 1
  BY <1>3
<1>4. m \in 1 .. Len(r) /\ k < m /\ m < l
  BY <1>1
<1>5. p[k] < p[m] /\ p[m] < p[l]
  BY <1>4 DEF Keeps
<1>6. p[m] \in Nat
  BY <1>1, <1>4
<1>. QED  BY <1>2, <1>4, <1>5, <1>6

\* What the repair leaves of any transcript pairs calls with their results
\* (_repair_tool_transcript_messages).
THEOREM RepairedSound ==
  ASSUME NEW ms, IsTranscript(ms)
  PROVE  IsTranscript(Repaired(ms)) /\ Sound(Repaired(ms))
<1>. DEFINE r == Repaired(ms)
<1>1. PICK p : Keeps(r, p, ms)
  BY RepairedKeeps
<1>. HIDE DEF r
<1>2. /\ r \in Seq(Message) /\ Len(r) \in Nat /\ DOMAIN r = 1 .. Len(r)
      /\ Len(ms) \in Nat /\ p \in [1 .. Len(r) -> 1 .. Len(ms)]
  BY <1>1, TranscriptFacts DEF Keeps
<1>3. IsTranscript(r)
  <2>1. ASSUME NEW k \in 1 .. Len(r), NEW l \in 1 .. Len(r), r[k].id = r[l].id
        PROVE  k = l
    <3>1. p[k] = p[l] /\ p[k] \in Nat
      BY <1>1, <1>2, <2>1, TranscriptFacts DEF Keeps
    <3>2. ~(k < l) /\ ~(l < k)
      BY <1>1, <1>2, <3>1 DEF Keeps
    <3>. QED  BY <1>2, <3>2
  <2>. QED  BY <1>2, <2>1 DEF IsTranscript
<1>4. ASSUME NEW k \in 1 .. Len(r), r[k].role # "tool"
      PROVE  ~Unresolved(r, k)
  <2>1. p[k] \in 1 .. Len(ms) /\ r[k] = ms[p[k]] /\ Kept(ms, p[k]) /\ ms[p[k]].role # "tool"
    BY <1>1, <1>2, <1>4 DEF Keeps
  <2>2. ASSUME NEW c \in CallsOf(r[k])
        PROVE  \E j \in k + 1 .. NextMessage(r, k) - 1 : r[j].id = c
    <3>1. PICK m \in p[k] + 1 .. NextMessage(ms, p[k]) - 1 :
            m \in 1 .. Len(ms) /\ ms[m].id = c /\ ms[m].role = "tool" /\ Kept(ms, m)
      <4>1. PICK i : i = p[k]
        OBVIOUS
      <4>2. /\ i \in 1 .. Len(ms) /\ ms[i].role # "tool" /\ Kept(ms, i)
            /\ c \in CallsOf(ms[i])
        BY <2>1, <2>2, <4>1
      <4>3. \E m \in i + 1 .. NextMessage(ms, i) - 1 :
              m \in 1 .. Len(ms) /\ ms[m].id = c /\ ms[m].role = "tool" /\ Kept(ms, m)
        BY <4>2, ResultsAreKept
      <4>. QED  BY <4>1, <4>3
    <3>2. PICK j \in 1 .. Len(r) : p[j] = m
      BY <1>1, <3>1 DEF Keeps
    <3>3. p[k] < p[j] /\ p[k] \in Nat /\ p[j] \in Nat
      BY <2>1, <3>1, <3>2
    <3>4. /\ k < j
          /\ \A l \in k + 1 .. j - 1 : l \in 1 .. Len(r) /\ p[l] \in p[k] + 1 .. p[j] - 1
      BY <1>1, <3>2, <3>3, KeepsBetween
    <3>5. \A l \in k + 1 .. j : r[l].role = "tool"
      <4>. TAKE l \in k + 1 .. j
      <4>1. CASE l = j
        BY <1>1, <3>1, <3>2, <4>1 DEF Keeps
      <4>2. CASE l \in k + 1 .. j - 1
        <5>1. p[l] \in p[k] + 1 .. NextMessage(ms, p[k]) - 1
          <6>1. NextMessage(ms, p[k]) \in Nat
            BY <1>2, <2>1, NextMessageFacts
          <6>. QED  BY <2>1, <3>1, <3>2, <3>3, <3>4, <4>2, <6>1
        <5>2. ms[p[l]].role = "tool"
          BY <1>2, <2>1, <5>1, NextMessageFacts
        <5>. QED  BY <1>1, <3>4, <4>2, <5>2 DEF Keeps
      <4>. QED  BY <3>2, <4>1, <4>2
    <3>6. j < NextMessage(r, k)
      <4>. SUFFICES ASSUME NextMessage(r, k) <= j PROVE FALSE
        BY <1>2, <3>2, NextMessageFacts
      <4>1. NextMessage(r, k) \in k + 1 .. j
        BY <1>2, <3>2, NextMessageFacts
      <4>2. NextMessage(r, k) # Len(r) + 1
        BY <1>2, <3>2, <4>1
      <4>. QED  BY <1>2, <3>5, <4>1, <4>2, NextMessageFacts
    <3>7. j \in k + 1 .. NextMessage(r, k) - 1
      BY <1>2, <3>2, <3>4, <3>6, NextMessageFacts
    <3>8. r[j].id = c
      BY <1>1, <3>1, <3>2 DEF Keeps
    <3>. QED  BY <3>7, <3>8
  <2>. QED  BY <2>2 DEF Unresolved
<1>5. ASSUME NEW k \in 1 .. Len(r), r[k].role = "tool"
      PROVE  Kept(r, k)
  <2>. DEFINE a == AskedBefore(ms, p[k])
  <2>1. p[k] \in 1 .. Len(ms) /\ r[k] = ms[p[k]] /\ Kept(ms, p[k]) /\ ms[p[k]].role = "tool"
    BY <1>1, <1>2, <1>5 DEF Keeps
  <2>2. ~Orphan(ms, p[k]) /\ ~Unresolved(ms, a)
    BY <2>1 DEF Kept
  <2>3. /\ a \in 1 .. p[k] - 1 /\ ms[a].role # "tool"
        /\ \A m \in a + 1 .. p[k] - 1 : ms[m].role = "tool"
        /\ ms[p[k]].id \in CallsOf(ms[a])
    <3>1. p[k] \in Nat /\ p[k] # 0
      BY <2>1
    <3>2. a # 0 /\ ms[p[k]].id \in CallsOf(ms[a])
      BY <2>1, <2>2 DEF Orphan
    <3>. QED  BY <3>1, <3>2, AskedBeforeFacts
  <2>. HIDE DEF a
  <2>4. a \in 1 .. Len(ms) /\ Kept(ms, a)
    BY <1>2, <2>1, <2>2, <2>3 DEF Kept
  <2>5. PICK b \in 1 .. Len(r) : p[b] = a
    BY <1>1, <2>4 DEF Keeps
  <2>6. /\ b < k
        /\ \A l \in b + 1 .. k - 1 : l \in 1 .. Len(r) /\ p[l] \in a + 1 .. p[k] - 1
    <3>1. p[b] < p[k]
      BY <1>2, <2>1, <2>3, <2>5
    <3>. QED  BY <1>1, <2>5, <3>1, KeepsBetween
  <2>7. r[b] = ms[a] /\ r[b].role # "tool"
    BY <1>1, <2>3, <2>5 DEF Keeps
  <2>8. \A l \in b + 1 .. k - 1 : r[l].role = "tool"
    BY <1>1, <2>3, <2>6 DEF Keeps
  <2>9. AskedBefore(r, k) = b
    <3>1. k \in Nat /\ k # 0 /\ b \in 0 .. k - 1
      BY <2>5, <2>6
    <3>. QED  BY <2>7, <2>8, <3>1, AskedBeforeIs
  <2>10. ~Orphan(r, k)
    <3>1. \A l \in b + 1 .. k - 1 : r[l].id # r[k].id
      <4>. TAKE l \in b + 1 .. k - 1
      <4>1. l \in 1 .. Len(r) /\ l # k
        BY <2>6
      <4>. QED  BY <1>3, <4>1, TranscriptFacts
    <3>2. b # 0 /\ r[k].id \in CallsOf(r[b])
      BY <2>1, <2>3, <2>5, <2>7
    <3>. QED  BY <2>9, <3>1, <3>2 DEF Orphan
  <2>11. ~Unresolved(r, b)
    BY <1>4, <2>7
  <2>. QED  BY <1>5, <2>9, <2>10, <2>11 DEF Kept
<1>6. Sound(r)
  BY <1>2, <1>4, <1>5 DEF Sound, Kept
<1>. QED  BY <1>3, <1>6 DEF r

\* A transcript in order is left as it is.
LEMMA SoundIsRepaired ==
  ASSUME NEW ms, IsTranscript(ms), Sound(ms)
  PROVE  Repaired(ms) = ms
<1>. DEFINE r == Repaired(ms)
<1>1. PICK p : Keeps(r, p, ms)
  BY RepairedKeeps
<1>. HIDE DEF r
<1>2. /\ r \in Seq(Message) /\ Len(r) \in Nat /\ DOMAIN r = 1 .. Len(r)
      /\ Len(ms) \in Nat /\ p \in [1 .. Len(r) -> 1 .. Len(ms)] /\ ms \in Seq(Message)
  BY <1>1, TranscriptFacts DEF Keeps
<1>3. \A i \in 1 .. Len(ms) : \E k \in 1 .. Len(r) : p[k] = i
  BY <1>1, TranscriptFacts DEF Keeps, Sound
<1>. DEFINE P == {n \in Nat : n + 1 \in 1 .. Len(r) => p[n + 1] = n + 1}
<1>4. 0 \in P
  <2>. SUFFICES ASSUME 1 \in 1 .. Len(r) PROVE p[1] = 1
    BY 0 + 1 = 1
  <2>1. p[1] \in 1 .. Len(ms) /\ 1 \in 1 .. Len(ms)
    BY <1>2
  <2>2. PICK j \in 1 .. Len(r) : p[j] = 1
    BY <1>3, <2>1
  <2>3. 1 < j => p[1] < p[j]
    BY <1>1 DEF Keeps
  <2>. QED  BY <1>2, <2>1, <2>2, <2>3
<1>5. ASSUME NEW n \in Nat, n \in P PROVE n + 1 \in P
  <2>. DEFINE m == n + 2
  <2>. SUFFICES ASSUME m \in 1 .. Len(r) PROVE p[m] = m
    BY (n + 1) + 1 = n + 2
  <2>1. n + 1 \in 1 .. Len(r) /\ p[n + 1] = n + 1 /\ n + 1 < m
    BY <1>2, <1>5
  <2>2. p[m] \in 1 .. Len(ms) /\ p[n + 1] < p[m]
    BY <1>1, <1>2, <2>1 DEF Keeps
  <2>3. p[m] \in Nat /\ m <= p[m] /\ m \in 1 .. Len(ms)
    BY <1>2, <2>1, <2>2
  <2>4. PICK j \in 1 .. Len(r) : p[j] = m
    BY <1>3, <2>3
  <2>. HIDE DEF m
  <2>5. m < j => p[m] < p[j]
    BY <1>1 DEF Keeps
  <2>6. j < n + 1 => p[j] < p[n + 1]
    BY <1>1, <2>1 DEF Keeps
  <2>7. ~(m < j)
    BY <2>3, <2>4, <2>5
  <2>8. ~(j < n + 1) /\ j # n + 1
    BY <2>1, <2>3, <2>4, <2>6 DEF m
  <2>. QED  BY <2>3, <2>4, <2>7, <2>8 DEF m
<1>6. \A k \in 1 .. Len(r) : p[k] = k
  <2>. HIDE DEF P
  <2>1. Nat \subseteq P
    BY <1>4, <1>5, NaturalsByInduction
  <2>. TAKE k \in 1 .. Len(r)
  <2>2. k - 1 \in Nat /\ (k - 1) + 1 = k
    OBVIOUS
  <2>3. k - 1 \in P
    BY <2>1, <2>2
  <2>. QED  BY <2>2, <2>3 DEF P
<1>7. Len(r) = Len(ms)
  <2>1. Len(r) <= Len(ms)
    <3>. SUFFICES ASSUME Len(ms) < Len(r) PROVE FALSE
      BY <1>2
    <3>1. Len(r) \in 1 .. Len(r)
      BY <1>2
    <3>. QED  BY <1>2, <1>6, <3>1
  <2>2. Len(ms) <= Len(r)
    <3>. SUFFICES ASSUME Len(r) < Len(ms) PROVE FALSE
      BY <1>2
    <3>1. Len(ms) \in 1 .. Len(ms)
      BY <1>2
    <3>. QED  BY <1>2, <1>3, <1>6, <3>1
  <2>. QED  BY <1>2, <2>1, <2>2
<1>8. \A k \in 1 .. Len(r) : r[k] = ms[k]
  BY <1>1, <1>6 DEF Keeps
<1>9. r = ms
  BY <1>2, <1>7, <1>8, SeqEqual
<1>. QED  BY <1>9 DEF r

\* Whether a message is kept is settled when the next message that is not a result comes.
Extends(es, ms) ==
  /\ Len(ms) \in Nat /\ Len(es) \in Nat /\ Len(ms) < Len(es)
  /\ \A i \in 1 .. Len(ms) : es[i] = ms[i]
  /\ es[Len(ms) + 1].role # "tool"

LEMMA KeptInExtension ==
  ASSUME NEW ms, NEW es, Extends(es, ms), NEW i \in 1 .. Len(ms)
  PROVE  Kept(es, i) <=> Kept(ms, i)
<1>. USE DEF Extends
<1>1. ASSUME NEW j \in 1 .. Len(ms)
      PROVE  AskedBefore(es, j) = AskedBefore(ms, j) /\ AskedBefore(ms, j) \in 0 .. Len(ms)
  <2>. DEFINE a == AskedBefore(ms, j)
  <2>1. /\ a \in 0 .. j - 1 /\ (a # 0 => ms[a].role # "tool")
        /\ \A k \in a + 1 .. j - 1 : ms[k].role = "tool"
    BY AskedBeforeFacts
  <2>. HIDE DEF a
  <2>2. a # 0 => es[a].role # "tool"
    BY <2>1
  <2>3. \A k \in a + 1 .. j - 1 : es[k].role = "tool"
    BY <2>1
  <2>4. AskedBefore(es, j) = a
    <3>1. j \in Nat /\ j # 0
      OBVIOUS
    <3>. QED  BY <2>1, <2>2, <2>3, <3>1, AskedBeforeIs
  <2>5. a \in 0 .. Len(ms)
    BY <2>1
  <2>. QED  BY <2>4, <2>5 DEF a
<1>2. ASSUME NEW a \in 1 .. Len(ms)
      PROVE  Unresolved(es, a) <=> Unresolved(ms, a)
  <2>. DEFINE n == NextMessage(ms, a)
  <2>1. /\ n \in a + 1 .. Len(ms) + 1 /\ (n # Len(ms) + 1 => ms[n].role # "tool")
        /\ \A k \in a + 1 .. n - 1 : ms[k].role = "tool"
    BY NextMessageFacts
  <2>. HIDE DEF n
  <2>2. es[n].role # "tool"
    <3>1. CASE n = Len(ms) + 1
      BY <3>1
    <3>2. CASE n # Len(ms) + 1
      BY <2>1, <3>2
    <3>. QED  BY <3>1, <3>2
  <2>3. \A k \in a + 1 .. n - 1 : k \in 1 .. Len(ms) /\ es[k] = ms[k]
    BY <2>1
  <2>4. NextMessage(es, a) = n
    <3>1. a \in 1 .. Len(es) /\ n \in a + 1 .. Len(es) + 1
      BY <2>1
    <3>2. \A k \in a + 1 .. n - 1 : es[k].role = "tool"
      BY <2>1, <2>3
    <3>. QED  BY <2>2, <3>1, <3>2, NextMessageIs
  <2>5. {es[k].id : k \in a + 1 .. n - 1} = {ms[k].id : k \in a + 1 .. n - 1}
    BY <2>3
  <2>6. es[a] = ms[a]
    OBVIOUS
  <2>. QED  BY <2>4, <2>5, <2>6 DEF Unresolved, n
<1>3. ms[i].role = "tool" => (Orphan(es, i) <=> Orphan(ms, i))
  <2>. DEFINE a == AskedBefore(ms, i)
  <2>1. AskedBefore(es, i) = a /\ a \in 0 .. Len(ms)
    BY <1>1
  <2>2. a # 0 => es[a] = ms[a]
    BY <2>1
  <2>3. es[i] = ms[i]
    OBVIOUS
  <2>4. \A k \in a + 1 .. i - 1 : es[k] = ms[k]
    BY <2>1
  <2>. HIDE DEF a
  <2>. QED  BY <2>1, <2>2, <2>3, <2>4 DEF Orphan, a
<1>4. CASE ms[i].role # "tool"
  <2>1. es[i].role # "tool"
    BY <1>4
  <2>. QED  BY <1>2, <1>4, <2>1 DEF Kept
<1>5. CASE ms[i].role = "tool"
  <2>1. es[i].role = "tool"
    BY <1>5
  <2>2. CASE AskedBefore(ms, i) = 0
    <3>1. Orphan(ms, i) /\ Orphan(es, i)
      BY <1>3, <1>5, <2>2 DEF Orphan
    <3>. QED  BY <1>5, <2>1, <3>1 DEF Kept
  <2>3. CASE AskedBefore(ms, i) # 0
    <3>1. AskedBefore(es, i) = AskedBefore(ms, i) /\ AskedBefore(ms, i) \in 1 .. Len(ms)
      BY <1>1, <2>3
    <3>2. Unresolved(es, AskedBefore(es, i)) <=> Unresolved(ms, AskedBefore(ms, i))
      BY <1>2, <3>1
    <3>. QED  BY <1>3, <1>5, <2>1, <3>2 DEF Kept
  <2>. QED  BY <2>2, <2>3
<1>. QED  BY <1>4, <1>5

\* So what is in order was in order before,
LEMMA SoundBefore ==
  ASSUME NEW ms \in Seq(Message), NEW es \in Seq(Message), Extends(es, ms), Sound(es)
  PROVE  Sound(ms)
<1>1. DOMAIN ms = 1 .. Len(ms) /\ DOMAIN es = 1 .. Len(es)
  OBVIOUS
<1>2. \A i \in 1 .. Len(ms) : i \in 1 .. Len(es)
  BY DEF Extends
<1>. QED  BY <1>1, <1>2, KeptInExtension DEF Sound

LEMMA AppendExtends ==
  ASSUME NEW ms \in Seq(Message), NEW m \in Message, m.role # "tool"
  PROVE  /\ Append(ms, m) \in Seq(Message) /\ Extends(Append(ms, m), ms)
         /\ Len(Append(ms, m)) = Len(ms) + 1 /\ Append(ms, m)[Len(ms) + 1] = m
         /\ \A i \in 1 .. Len(ms) : Append(ms, m)[i] = ms[i]
<1>1. /\ Append(ms, m) \in Seq(Message) /\ Len(ms) \in Nat
      /\ Len(Append(ms, m)) = Len(ms) + 1 /\ Append(ms, m)[Len(ms) + 1] = m
      /\ \A i \in 1 .. Len(ms) : Append(ms, m)[i] = ms[i]
  BY AppendProperties
<1>. QED  BY <1>1 DEF Extends

\* and a message without calls changes nothing.
LEMMA SoundAppend ==
  ASSUME NEW ms \in Seq(Message), NEW m \in Message, m.role # "tool", CallsOf(m) = {}
  PROVE  Sound(Append(ms, m)) <=> Sound(ms)
<1>. DEFINE es == Append(ms, m)
<1>1. /\ es \in Seq(Message) /\ Extends(es, ms) /\ Len(es) = Len(ms) + 1
      /\ es[Len(ms) + 1] = m
  BY AppendExtends
<1>. HIDE DEF es
<1>2. DOMAIN es = 1 .. Len(ms) + 1 /\ DOMAIN ms = 1 .. Len(ms) /\ Len(ms) \in Nat
  BY <1>1
<1>3. Kept(es, Len(ms) + 1)
  BY <1>1 DEF Kept, Unresolved
<1>4. \A i \in 1 .. Len(ms) : Kept(es, i) <=> Kept(ms, i)
  BY <1>1, KeptInExtension
<1>5. \A i \in 1 .. Len(ms) + 1 : i \in 1 .. Len(ms) \/ i = Len(ms) + 1
  BY <1>2
<1>6. \A i \in 1 .. Len(ms) : i \in 1 .. Len(ms) + 1
  BY <1>2
<1>. QED  BY <1>2, <1>3, <1>4, <1>5, <1>6 DEF Sound, es

-----------------------------------------------------------------------------
(* What the steps of a run do to a transcript.                             *)

\* The number of a new message exceeds those of the transcript.
LEMMA FreshExceeds ==
  ASSUME NEW ms, IsTranscript(ms)
  PROVE  /\ Fresh(ms) \in Nat
         /\ \A i \in 1 .. Len(ms) : ms[i].id[1] \in Nat /\ ms[i].id[1] < Fresh(ms)
<1>. DEFINE I == {0} \cup {ms[i].id[1] : i \in DOMAIN ms}
            P == {n \in Nat : n <= Len(ms) =>
                     \E b \in Nat : \A i \in 1 .. n : ms[i].id[1] <= b}
<1>1. /\ Len(ms) \in Nat /\ DOMAIN ms = 1 .. Len(ms)
      /\ \A i \in 1 .. Len(ms) : ms[i].id[1] \in Nat
  BY TranscriptFacts, MessageFields
<1>2. 0 \in P
  OBVIOUS
<1>3. ASSUME NEW n \in Nat, n \in P PROVE n + 1 \in P
  <2>. SUFFICES ASSUME n + 1 <= Len(ms)
                PROVE  \E b \in Nat : \A i \in 1 .. n + 1 : ms[i].id[1] <= b
    OBVIOUS
  <2>1. PICK b \in Nat : \A i \in 1 .. n : ms[i].id[1] <= b
    BY <1>1, <1>3
  <2>2. ms[n + 1].id[1] \in Nat
    BY <1>1
  <2>. DEFINE c == b + ms[n + 1].id[1]
  <2>3. c \in Nat /\ b <= c /\ ms[n + 1].id[1] <= c
    BY <2>2
  <2>4. \A i \in 1 .. n + 1 : ms[i].id[1] <= c
    <3>. TAKE i \in 1 .. n + 1
    <3>1. CASE i = n + 1
      BY <2>3, <3>1
    <3>2. CASE i \in 1 .. n
      <4>1. ms[i].id[1] \in Nat /\ ms[i].id[1] <= b
        BY <1>1, <2>1, <3>2
      <4>. QED  BY <2>3, <4>1
    <3>. QED  BY <3>1, <3>2
  <2>. QED  BY <2>3, <2>4
<1>. HIDE DEF P
<1>4. Len(ms) \in P
  BY <1>1, <1>2, <1>3, NaturalsByInduction
<1>5. PICK b \in Nat : \A i \in 1 .. Len(ms) : ms[i].id[1] <= b
  BY <1>1, <1>4 DEF P
<1>6. I \in SUBSET Nat /\ I # {} /\ \A x \in I : x <= b
  BY <1>1, <1>5
<1>7. Fresh(ms) = 1 + Max(I)
  BY DEF Fresh
<1>8. Max(I) \in I /\ \A y \in I : Max(I) >= y
  <2>. HIDE DEF I
  <2>. QED  BY <1>6, GreatestNumber
<1>9. \A i \in 1 .. Len(ms) : ms[i].id[1] \in I
  BY <1>1
<1>10. Max(I) \in Nat
  BY <1>6, <1>8
<1>. HIDE DEF I
<1>. QED  BY <1>1, <1>7, <1>8, <1>9, <1>10

\* A message with a higher number is added at the end,
LEMMA AppendTranscript ==
  ASSUME NEW ms, IsTranscript(ms), NEW m \in Message,
         \A i \in 1 .. Len(ms) : ms[i].id[1] < m.id[1]
  PROVE  IsTranscript(Append(ms, m))
<1>. DEFINE es == Append(ms, m)
<1>1. ms \in Seq(Message) /\ Len(ms) \in Nat
  BY TranscriptFacts
<1>2. /\ es \in Seq(Message) /\ Len(es) = Len(ms) + 1 /\ es[Len(ms) + 1] = m
      /\ \A i \in 1 .. Len(ms) : es[i] = ms[i]
  BY <1>1, AppendProperties
<1>3. m.id[1] \in Nat /\ \A i \in 1 .. Len(ms) : ms[i].id[1] \in Nat
  BY MessageFields, TranscriptFacts
<1>. HIDE DEF es
<1>4. ASSUME NEW i \in 1 .. Len(es), NEW j \in 1 .. Len(es), es[i].id = es[j].id
      PROVE  i = j
  <2>1. \A k \in 1 .. Len(ms) : es[k].id # m.id
    BY <1>2, <1>3
  <2>2. \A k \in 1 .. Len(es) : k \in 1 .. Len(ms) \/ k = Len(ms) + 1
    BY <1>1, <1>2
  <2>3. CASE i \in 1 .. Len(ms) /\ j \in 1 .. Len(ms)
    BY <1>2, <1>4, <2>3, TranscriptFacts
  <2>. QED  BY <1>2, <1>4, <2>1, <2>2, <2>3
<1>5. DOMAIN es = 1 .. Len(es)
  BY <1>2
<1>. QED  BY <1>2, <1>4, <1>5 DEF IsTranscript, es

\* or the last one taken away.
LEMMA FrontTranscript ==
  ASSUME NEW ms, IsTranscript(ms), ms # <<>>
  PROVE  /\ IsTranscript(Front(ms)) /\ Len(Front(ms)) = Len(ms) - 1 /\ Len(ms) - 1 \in Nat
         /\ \A i \in 1 .. Len(ms) - 1 : Front(ms)[i] = ms[i]
         /\ Last(ms) = ms[Len(ms)] /\ Last(ms) \in Message
         /\ ms = Append(Front(ms), Last(ms))
<1>1. ms \in Seq(Message) /\ Len(ms) \in Nat /\ Len(ms) # 0
  BY TranscriptFacts
<1>2. /\ Front(ms) \in Seq(Message) /\ Len(Front(ms)) = Len(ms) - 1
      /\ \A i \in 1 .. Len(ms) - 1 : Front(ms)[i] = ms[i]
  <2>1. Front(ms) = SubSeq(ms, 1, Len(ms) - 1)
    BY DEF Front
  <2>2. PICK n \in Nat : n = Len(ms) - 1
    BY <1>1
  <2>3. \A i \in 1 .. n : ms[i] \in Message
    BY <1>1, <2>2
  <2>4. /\ SubSeq(ms, 1, n) \in Seq(Message) /\ Len(SubSeq(ms, 1, n)) = n
        /\ \A i \in 1 .. n : SubSeq(ms, 1, n)[i] = ms[i]
    BY <1>1, <2>2, <2>3
  <2>. QED  BY <2>1, <2>2, <2>4
<1>3. Last(ms) = ms[Len(ms)] /\ Last(ms) \in Message
  BY <1>1 DEF Last
<1>4. IsTranscript(Front(ms))
  <2>1. DOMAIN Front(ms) = 1 .. Len(ms) - 1
    BY <1>2
  <2>2. ASSUME NEW i \in 1 .. Len(ms) - 1, NEW j \in 1 .. Len(ms) - 1,
               Front(ms)[i].id = Front(ms)[j].id
        PROVE  i = j
    <3>1. i \in 1 .. Len(ms) /\ j \in 1 .. Len(ms) /\ ms[i].id = ms[j].id
      BY <1>1, <1>2, <2>2
    <3>. QED  BY <3>1, TranscriptFacts
  <2>. QED  BY <1>2, <2>1, <2>2 DEF IsTranscript
<1>5. ms = Append(Front(ms), Last(ms))
  <2>. DEFINE es == Append(Front(ms), Last(ms))
  <2>1. /\ es \in Seq(Message) /\ Len(es) = Len(ms) /\ es[Len(ms)] = Last(ms)
        /\ \A i \in 1 .. Len(ms) - 1 : es[i] = ms[i]
    BY <1>1, <1>2, <1>3, AppendProperties
  <2>. HIDE DEF es
  <2>2. \A i \in 1 .. Len(ms) : i \in 1 .. Len(ms) - 1 \/ i = Len(ms)
    BY <1>1
  <2>3. \A i \in 1 .. Len(ms) : es[i] = ms[i]
    BY <1>3, <2>1, <2>2
  <2>4. es = ms
    BY <1>1, <2>1, <2>3, SeqEqual
  <2>. QED  BY <2>4 DEF es
<1>. QED  BY <1>1, <1>2, <1>3, <1>4, <1>5

LEMMA FrontOfAppend ==
  ASSUME NEW ms \in Seq(Message), NEW m \in Message
  PROVE  /\ Append(ms, m) # <<>> /\ Front(Append(ms, m)) = ms /\ Last(Append(ms, m)) = m
<1>. DEFINE es == Append(ms, m)
<1>1. /\ es \in Seq(Message) /\ Len(ms) \in Nat /\ Len(es) = Len(ms) + 1
      /\ es[Len(ms) + 1] = m /\ es # <<>>
      /\ \A i \in 1 .. Len(ms) : es[i] = ms[i]
  BY AppendProperties
<1>. HIDE DEF es
<1>2. Last(es) = m
  BY <1>1 DEF Last
<1>3. Front(es) = SubSeq(es, 1, Len(ms))
  BY <1>1 DEF Front
<1>4. /\ SubSeq(es, 1, Len(ms)) \in Seq(Message) /\ Len(SubSeq(es, 1, Len(ms))) = Len(ms)
      /\ \A i \in 1 .. Len(ms) : SubSeq(es, 1, Len(ms))[i] = ms[i]
  <2>1. \A i \in 1 .. Len(ms) : es[i] \in Message
    BY <1>1
  <2>. QED  BY <1>1, <2>1
<1>5. SubSeq(es, 1, Len(ms)) = ms
  BY <1>4, SeqEqual
<1>. QED  BY <1>1, <1>2, <1>3, <1>5 DEF es

LEMMA EndsWithFacts ==
  ASSUME NEW ms, IsTranscript(ms), NEW role
  PROVE  EndsWith(ms, role) <=> Len(ms) # 0 /\ ms[Len(ms)].role = role
BY TranscriptFacts DEF EndsWith, Last

\* The results of the last message extend a transcript.
LEMMA ResultsTranscript ==
  ASSUME NEW ms, IsTranscript(ms), ms # <<>>, Last(ms).role = "ai",
         \A i \in 1 .. Len(ms) - 1 : ms[i].id[1] < Last(ms).id[1],
         NEW rs \in Seq(ToolMessage),
         \A k \in 1 .. Len(rs) : rs[k].id = <<Last(ms).id[1], k>>
  PROVE  /\ IsTranscript(ms \o rs) /\ Len(ms \o rs) = Len(ms) + Len(rs)
         /\ \A i \in 1 .. Len(ms) : (ms \o rs)[i] = ms[i]
         /\ \A k \in 1 .. Len(rs) : (ms \o rs)[Len(ms) + k] = rs[k]
<1>. DEFINE es == ms \o rs
            n == Len(ms)
<1>1. ms \in Seq(Message) /\ n \in Nat /\ n # 0 /\ Len(rs) \in Nat
  BY TranscriptFacts
<1>2. rs \in Seq(Message)
  BY SeqMonotonic DEF Message
<1>3. /\ es \in Seq(Message) /\ Len(es) = n + Len(rs)
      /\ \A i \in 1 .. n : es[i] = ms[i]
      /\ \A k \in 1 .. Len(rs) : es[n + k] = rs[k]
  BY <1>1, <1>2
<1>4. /\ \A i \in 1 .. n : ms[i] \in Message
      /\ Last(ms) = ms[n] /\ Last(ms).id[1] \in Nat /\ Last(ms).id[2] = 0
  BY FrontTranscript, TranscriptFacts, MessageFields
<1>5. \A i \in 1 .. n, k \in 1 .. Len(rs) : es[i].id # es[n + k].id
  <2>. TAKE i \in 1 .. n, k \in 1 .. Len(rs)
  <2>1. es[n + k].id = <<Last(ms).id[1], k>> /\ es[i] = ms[i]
    BY <1>3
  <2>2. CASE i = n
    <3>1. es[i].id[2] = 0 /\ es[n + k].id[2] = k
      BY <1>4, <2>1, <2>2
    <3>. QED  BY <3>1
  <2>3. CASE i # n
    <3>1. i \in 1 .. n - 1
      BY <1>1, <2>3
    <3>2. es[i].id[1] < Last(ms).id[1] /\ es[n + k].id[1] = Last(ms).id[1]
      BY <2>1, <3>1
    <3>3. es[i].id[1] \in Nat
      BY <1>4, <2>1, MessageFields
    <3>. QED  BY <1>4, <3>2, <3>3
  <2>. QED  BY <2>2, <2>3
<1>. HIDE DEF es, n
<1>6. ASSUME NEW i \in 1 .. Len(es), NEW j \in 1 .. Len(es), es[i].id = es[j].id
      PROVE  i = j
  <2>1. \A l \in 1 .. Len(es) : l \in 1 .. n \/ \E k \in 1 .. Len(rs) : l = n + k
    <3>. TAKE l \in 1 .. Len(es)
    <3>1. CASE l > n
      <4>1. l - n \in 1 .. Len(rs) /\ l = n + (l - n)
        BY <1>1, <1>3, <3>1
      <4>. QED  BY <4>1
    <3>. QED  BY <1>1, <3>1
  <2>2. CASE i \in 1 .. n /\ j \in 1 .. n
    BY <1>3, <1>6, <2>2, TranscriptFacts DEF n
  <2>3. CASE i \notin 1 .. n /\ j \notin 1 .. n
    <3>1. PICK k \in 1 .. Len(rs) : i = n + k
      BY <2>1, <2>3
    <3>2. PICK l \in 1 .. Len(rs) : j = n + l
      BY <2>1, <2>3
    <3>3. es[i].id = <<Last(ms).id[1], k>> /\ es[j].id = <<Last(ms).id[1], l>>
      BY <1>3, <3>1, <3>2
    <3>4. es[i].id[2] = k /\ es[j].id[2] = l
      BY <3>3
    <3>5. k = l
      BY <1>6, <3>4
    <3>. QED  BY <3>1, <3>2, <3>5
  <2>. QED  BY <1>5, <1>6, <2>1, <2>2, <2>3
<1>7. DOMAIN es = 1 .. Len(es)
  BY <1>3
<1>8. IsTranscript(es)
  BY <1>3, <1>6, <1>7 DEF IsTranscript
<1>. QED  BY <1>3, <1>8 DEF es, n

-----------------------------------------------------------------------------
(* The tool calls of a turn.                                               *)

Data == [version : Nat, revision : Nat, serialized : Nat \cup {None}, unseen : BOOLEAN,
         finals : Nat]
Done == [ok : BOOLEAN, shows : Nat \cup {None}, data : Data]
\* Some of the calls are made: their outcomes stand in place of their tools.
Partly(tools) == [data : Data, outcome : [DOMAIN tools -> Done \cup Tools]]
Start(tools) ==
  [data    |-> [version |-> version, revision |-> revision, serialized |-> serialized,
                unseen |-> unseen, finals |-> 0],
   outcome |-> tools]
DataOK ==
  /\ version \in Nat /\ revision \in Nat /\ serialized \in Nat \cup {None}
  /\ unseen \in BOOLEAN

\* Data made of a number and the fields of other data.
LEMMA DataChanges ==
  ASSUME NEW d \in Data
  PROVE  /\ [d EXCEPT !.finals = @ + 1] \in Data
         /\ [d EXCEPT !.serialized = d.revision, !.unseen = FALSE] \in Data
         /\ [d EXCEPT !.version = @ + 1, !.unseen = TRUE] \in Data
         /\ [d EXCEPT !.version = @ + 1, !.revision = @ + 1, !.serialized = None] \in Data
<1>1. PICK v \in Nat, r \in Nat, f \in Nat :
        v = d.version + 1 /\ r = d.revision + 1 /\ f = d.finals + 1
  BY DEF Data
<1>2. [d EXCEPT !.finals = f] \in Data
  BY DEF Data
<1>3. [d EXCEPT !.serialized = d.revision, !.unseen = FALSE] \in Data
  BY DEF Data
<1>4. [d EXCEPT !.version = v, !.unseen = TRUE] \in Data
  BY DEF Data
<1>5. [d EXCEPT !.version = v, !.revision = r, !.serialized = None] \in Data
  BY DEF Data
<1>. QED  BY <1>1, <1>2, <1>3, <1>4, <1>5

LEMMA OutcomesTyped ==
  ASSUME NEW tool, NEW data \in Data
  PROVE  Outcomes(tool, data) \subseteq Done
<1>1. data.version \in Nat
  BY DEF Data
<1>2. \A ok \in BOOLEAN, shows \in Nat \cup {None}, d \in Data : Outcome(ok, shows, d) \in Done
  BY DEF Outcome, Done
<1>. SUFFICES ASSUME NEW o \in Outcomes(tool, data) PROVE o \in Done
  OBVIOUS
<1>3. CASE tool = "serialize_dataset" /\ data.serialized = data.revision
  <2>1. o = Outcome(FALSE, None, [data EXCEPT !.finals = @ + 1])
    BY <1>3 DEF Outcomes
  <2>. QED  BY <1>2, <2>1, DataChanges
<1>4. CASE tool = "serialize_dataset" /\ data.serialized # data.revision
  <2>1. o = Outcome(TRUE, data.version,
                    [data EXCEPT !.serialized = data.revision, !.unseen = FALSE])
    BY <1>4 DEF Outcomes
  <2>. QED  BY <1>1, <1>2, <2>1, DataChanges
<1>5. CASE tool # "serialize_dataset"
  <2>1. \/ o = Outcome(FALSE, None, data)
        \/ o = Outcome(TRUE, None, data)
        \/ o = Outcome(FALSE, None, [data EXCEPT !.version = @ + 1, !.unseen = TRUE])
        \/ o = Outcome(TRUE, None, [data EXCEPT !.version = @ + 1, !.revision = @ + 1,
                                                !.serialized = None])
    BY <1>5 DEF Outcomes
  <2>. QED  BY <1>2, <2>1, DataChanges
<1>. QED  BY <1>3, <1>4, <1>5

LEMMA AfterTyped ==
  ASSUME NEW tools, NEW x \in Partly(tools), NEW i \in DOMAIN tools
  PROVE  /\ After(tools, x, i) \subseteq Partly(tools)
         /\ \A y \in After(tools, x, i) :
              /\ y.outcome[i] \in Done
              /\ \A k \in DOMAIN tools : k # i => y.outcome[k] = x.outcome[k]
<1>1. x.data \in Data /\ x.outcome \in [DOMAIN tools -> Done \cup Tools]
  BY DEF Partly
<1>2. ASSUME NEW o \in Done
      PROVE  /\ [data |-> o.data, outcome |-> [x.outcome EXCEPT ![i] = o]] \in Partly(tools)
             /\ [x.outcome EXCEPT ![i] = o][i] \in Done
             /\ \A k \in DOMAIN tools : k # i => [x.outcome EXCEPT ![i] = o][k] = x.outcome[k]
  <2>1. o.data \in Data
    BY DEF Done
  <2>2. [x.outcome EXCEPT ![i] = o] \in [DOMAIN tools -> Done \cup Tools]
    BY <1>1
  <2>3. [data |-> o.data, outcome |-> [x.outcome EXCEPT ![i] = o]] \in Partly(tools)
    BY <2>1, <2>2 DEF Partly
  <2>. QED  BY <1>1, <2>3
<1>3. Outcomes(tools[i], x.data) \subseteq Done
  BY <1>1, OutcomesTyped
<1>4. ASSUME NEW y \in After(tools, x, i)
      PROVE  /\ y \in Partly(tools) /\ y.outcome[i] \in Done
             /\ \A k \in DOMAIN tools : k # i => y.outcome[k] = x.outcome[k]
  <2>1. PICK o \in Outcomes(tools[i], x.data) :
          y = [data |-> o.data, outcome |-> [x.outcome EXCEPT ![i] = o]]
    BY <1>4 DEF After
  <2>2. o \in Done /\ y.outcome = [x.outcome EXCEPT ![i] = o]
    BY <1>3, <2>1
  <2>. QED  BY <1>2, <2>1, <2>2
<1>. QED  BY <1>4

\* The recursion of Executions.
Makes(made, tools, order) ==
  /\ made \in [0 .. Len(tools) -> SUBSET Partly(tools)]
  /\ made[0] = {Start(tools)}
  /\ \A n \in 1 .. Len(tools) :
       made[n] = UNION {After(tools, x, order[n]) : x \in made[n - 1]}

LEMMA ExecutionsAreMade ==
  ASSUME NEW tools \in Seq(Tools), NEW order \in [DOMAIN tools -> DOMAIN tools], DataOK
  PROVE  \E made : Makes(made, tools, order) /\ Executions(tools, order) = made[Len(tools)]
<1>. DEFINE N == Len(tools)
            S == SUBSET Partly(tools)
            Op == [n \in Nat |-> [X \in S |->
                     IF n \in 1 .. N THEN UNION {After(tools, x, order[n]) : x \in X} ELSE X]]
            first == {Start(tools)}
<1>1. N \in Nat /\ DOMAIN tools = 1 .. N /\ tools \in [1 .. N -> Tools]
  OBVIOUS
<1>2. first \in S
  <2>1. Start(tools).data \in Data /\ tools \in [DOMAIN tools -> Done \cup Tools]
    BY <1>1 DEF Start, DataOK, Data
  <2>. QED  BY <2>1 DEF Start, Partly
<1>3. ASSUME NEW n \in 1 .. N, NEW X \in S
      PROVE  UNION {After(tools, x, order[n]) : x \in X} \in S
  <2>1. order[n] \in DOMAIN tools
    BY <1>1
  <2>. QED  BY <2>1, AfterTyped
<1>4. Op \in Steps(S)
  BY <1>3 DEF Steps
<1>5. \A n \in 1 .. N, X \in S :
        Op[n][X] = UNION {After(tools, x, order[n]) : x \in X}
  BY <1>1
<1>. HIDE DEF Op, N, S, first
<1>6. PICK f : IteratesTo(f, N, S, first, Op)
  BY <1>1, <1>2, <1>4, Iterates
<1>7. f \in [0 .. N -> S] /\ f[0] = first
  BY <1>6 DEF IteratesTo
<1>8. \A n \in 1 .. N : f[n] = UNION {After(tools, x, order[n]) : x \in f[n - 1]}
  <2>. TAKE n \in 1 .. N
  <2>1. f[n - 1] \in S /\ f[n] = Op[n][f[n - 1]]
    BY <1>1, <1>6, <1>7 DEF IteratesTo
  <2>. QED  BY <1>5, <2>1
<1>9. f = [n \in 0 .. N |->
             IF n = 0 THEN first
             ELSE UNION {After(tools, x, order[n]) : x \in f[n - 1]}]
  <2>1. \A n \in 0 .. N :
          f[n] = IF n = 0 THEN first
                 ELSE UNION {After(tools, x, order[n]) : x \in f[n - 1]}
    <3>. TAKE n \in 0 .. N
    <3>1. CASE n = 0
      BY <1>7, <3>1
    <3>2. CASE n # 0
      <4>1. n \in 1 .. N
        BY <1>1, <3>2
      <4>. QED  BY <1>8, <3>2, <4>1
    <3>. QED  BY <3>1, <3>2
  <2>2. f = [n \in 0 .. N |-> f[n]]
    BY <1>7
  <2>. QED  BY <2>1, <2>2, Zenon
<1>. DEFINE made[n \in 0 .. N] ==
              IF n = 0 THEN first
              ELSE UNION {After(tools, x, order[n]) : x \in made[n - 1]}
<1>10. made = [n \in 0 .. N |->
                 IF n = 0 THEN first
                 ELSE UNION {After(tools, x, order[n]) : x \in made[n - 1]}]
  BY <1>9
<1>11. Executions(tools, order) = made[N]
  BY DEF Executions, Start, N, first
<1>. HIDE DEF made
<1>12. made[0] = first
  BY <1>1, <1>10
<1>13. \A n \in 1 .. N : made[n] = UNION {After(tools, x, order[n]) : x \in made[n - 1]}
  <2>. TAKE n \in 1 .. N
  <2>1. n \in 0 .. N /\ n # 0
    BY <1>1
  <2>. QED  BY <1>10, <2>1
<1>. DEFINE P == {n \in Nat : n <= N => made[n] \in S}
<1>14. 0 \in P
  BY <1>2, <1>12
<1>15. ASSUME NEW n \in Nat, n \in P PROVE n + 1 \in P
  <2>. SUFFICES ASSUME n + 1 <= N PROVE made[n + 1] \in S
    OBVIOUS
  <2>1. n + 1 \in 1 .. N /\ (n + 1) - 1 = n /\ made[n] \in S
    BY <1>1, <1>15
  <2>2. made[n + 1] = UNION {After(tools, x, order[n + 1]) : x \in made[n]}
    BY <1>13, <2>1
  <2>. QED  BY <1>3, <2>1, <2>2
<1>. HIDE DEF P
<1>16. Nat \subseteq P
  BY <1>14, <1>15, NaturalsByInduction
<1>17. \A n \in 0 .. N : made[n] \in S
  BY <1>1, <1>16 DEF P
<1>18. made \in [0 .. N -> S]
  BY <1>10, <1>17
<1>. QED  BY <1>11, <1>12, <1>13, <1>18 DEF Makes, N, S, first

\* Whatever the order of the calls, each has an outcome in the end.
LEMMA ExecutionsTyped ==
  ASSUME NEW tools \in Seq(Tools), NEW order \in Bijection(DOMAIN tools, DOMAIN tools), DataOK,
         NEW x \in Executions(tools, order)
  PROVE  x.data \in Data /\ x.outcome \in [DOMAIN tools -> Done]
<1>. DEFINE N == Len(tools)
<1>1. N \in Nat /\ DOMAIN tools = 1 .. N
  OBVIOUS
<1>2. /\ order \in [DOMAIN tools -> DOMAIN tools]
      /\ \A t \in DOMAIN tools : \E s \in DOMAIN tools : order[s] = t
  BY DEF Bijection, Surjection
<1>3. PICK made : Makes(made, tools, order) /\ Executions(tools, order) = made[N]
  BY <1>2, ExecutionsAreMade
<1>. HIDE DEF N
<1>. DEFINE P == {n \in Nat : n <= N =>
                    \A y \in made[n] : /\ y \in Partly(tools)
                                       /\ \A k \in 1 .. n : y.outcome[order[k]] \in Done}
<1>4. 0 \in P
  BY <1>1, <1>3 DEF Makes, N
<1>5. ASSUME NEW n \in Nat, n \in P PROVE n + 1 \in P
  <2>. SUFFICES ASSUME n + 1 <= N, NEW y \in made[n + 1]
                PROVE  /\ y \in Partly(tools)
                       /\ \A k \in 1 .. n + 1 : y.outcome[order[k]] \in Done
    OBVIOUS
  <2>1. n + 1 \in 1 .. N /\ (n + 1) - 1 = n /\ n <= N /\ order[n + 1] \in DOMAIN tools
    BY <1>1, <1>2
  <2>2. PICK x0 \in made[n] : y \in After(tools, x0, order[n + 1])
    BY <1>3, <2>1 DEF Makes, N
  <2>3. x0 \in Partly(tools) /\ \A k \in 1 .. n : x0.outcome[order[k]] \in Done
    BY <1>5, <2>1
  <2>4. /\ y \in Partly(tools) /\ y.outcome[order[n + 1]] \in Done
        /\ \A k \in DOMAIN tools : k # order[n + 1] => y.outcome[k] = x0.outcome[k]
    BY <2>1, <2>2, <2>3, AfterTyped
  <2>5. ASSUME NEW k \in 1 .. n + 1 PROVE y.outcome[order[k]] \in Done
    <3>1. CASE order[k] = order[n + 1]
      BY <2>4, <3>1
    <3>2. CASE order[k] # order[n + 1]
      <4>1. k \in 1 .. n /\ k \in DOMAIN tools
        BY <1>1, <2>1, <3>2
      <4>2. order[k] \in DOMAIN tools
        BY <1>2, <4>1
      <4>. QED  BY <2>3, <2>4, <3>2, <4>1, <4>2
    <3>. QED  BY <3>1, <3>2
  <2>. QED  BY <2>4, <2>5
<1>. HIDE DEF P
<1>6. N \in P
  BY <1>1, <1>4, <1>5, NaturalsByInduction
<1>7. x \in Partly(tools) /\ \A k \in 1 .. N : x.outcome[order[k]] \in Done
  BY <1>1, <1>3, <1>6 DEF P
<1>8. x.data \in Data /\ x.outcome \in [DOMAIN tools -> Done \cup Tools]
  BY <1>7 DEF Partly
<1>9. \A t \in DOMAIN tools : x.outcome[t] \in Done
  BY <1>1, <1>2, <1>7
<1>. QED  BY <1>8, <1>9

LEMMA DoneFields ==
  ASSUME NEW o \in Done
  PROVE  o.ok \in BOOLEAN /\ o.shows \in Nat \cup {None} /\ o.data \in Data
BY DEF Done

LEMMA DataFields ==
  ASSUME NEW d \in Data
  PROVE  /\ d.version \in Nat /\ d.revision \in Nat /\ d.serialized \in Nat \cup {None}
         /\ d.unseen \in BOOLEAN /\ d.finals \in Nat
BY DEF Data

\* The results of a turn, in the order of its calls.
LEMMA ResultsOfTyped ==
  ASSUME NEW tools \in Seq(Tools), NEW x, x.outcome \in [DOMAIN tools -> Done],
         Reply \in Message
  PROVE  /\ ResultsOf(x) \in Seq(ToolMessage) /\ Len(ResultsOf(x)) = Len(tools)
         /\ \A k \in 1 .. Len(tools) :
              /\ ResultsOf(x)[k].id = <<Reply.id[1], k>> /\ ResultsOf(x)[k].role = "tool"
              /\ ResultsOf(x)[k].ok = x.outcome[k].ok
              /\ ResultsOf(x)[k].shows = x.outcome[k].shows
<1>. DEFINE N == Len(tools)
            Result(k) == ToolResult(<<Reply.id[1], k>>, x.outcome[k].ok, x.outcome[k].shows)
<1>1. N \in Nat /\ DOMAIN tools = 1 .. N /\ DOMAIN x.outcome = 1 .. N
  OBVIOUS
<1>2. \A k \in 1 .. N : Result(k) \in ToolMessage
  <2>. TAKE k \in 1 .. N
  <2>1. x.outcome[k] \in Done /\ Reply.id[1] \in Nat /\ k \in Nat \ {0}
    BY <1>1, MessageFields
  <2>2. x.outcome[k].ok \in BOOLEAN /\ x.outcome[k].shows \in Nat \cup {None}
    BY <2>1, DoneFields
  <2>. QED  BY <2>1, <2>2 DEF ToolResult, ToolMessage
<1>3. ResultsOf(x) = [k \in 1 .. N |-> Result(k)]
  BY <1>1 DEF ResultsOf
<1>. HIDE DEF N, Result
<1>4. [k \in 1 .. N |-> Result(k)] \in Seq(ToolMessage)
  BY <1>1, <1>2, IsASeq
<1>5. Len([k \in 1 .. N |-> Result(k)]) = N
  BY <1>1
<1>6. \A k \in 1 .. N : ResultsOf(x)[k] = Result(k)
  BY <1>3
<1>7. \A k \in 1 .. N :
        /\ ResultsOf(x)[k].id = <<Reply.id[1], k>> /\ ResultsOf(x)[k].role = "tool"
        /\ ResultsOf(x)[k].ok = x.outcome[k].ok
        /\ ResultsOf(x)[k].shows = x.outcome[k].shows
  <2>. TAKE k \in 1 .. N
  <2>1. PICK m : m = ResultsOf(x)[k]
    OBVIOUS
  <2>2. PICK call, ok, shows : /\ call = <<Reply.id[1], k>> /\ ok = x.outcome[k].ok
                               /\ shows = x.outcome[k].shows
    OBVIOUS
  <2>3. m = ToolResult(call, ok, shows)
    BY <1>6, <2>1, <2>2 DEF Result
  <2>4. m.id = call /\ m.role = "tool" /\ m.ok = ok /\ m.shows = shows
    BY <2>3 DEF ToolResult
  <2>. QED  BY <2>1, <2>2, <2>4
<1>. QED  BY <1>3, <1>4, <1>5, <1>7 DEF N

-----------------------------------------------------------------------------
(* The type invariant, with what it rests on.                              *)

LEMMA LastSerializationFacts ==
  ASSUME NEW ms, IsTranscript(ms)
  PROVE  /\ LastSerialization(ms) \in Nat \cup {None}
         /\ LastSerialization(ms) = None =>
              \A i \in 1 .. Len(ms) : ~(ms[i].role = "tool" /\ ms[i].shows # None)
         /\ LastSerialization(ms) # None =>
              \E i \in 1 .. Len(ms) :
                /\ ms[i].role = "tool" /\ ms[i].shows # None
                /\ LastSerialization(ms) = ms[i].shows
                /\ \A j \in i + 1 .. Len(ms) : ~(ms[j].role = "tool" /\ ms[j].shows # None)
<1>. DEFINE I == {i \in 1 .. Len(ms) : ms[i].role = "tool" /\ ms[i].shows # None}
            k == IF I # {} THEN Max(I) ELSE 0
<1>1. LastSerialization(ms) = IF k = 0 THEN None ELSE ms[k].shows
  BY DEF LastSerialization, LastWhere, SelectLastInSeq
<1>2. Len(ms) \in Nat /\ \A i \in 1 .. Len(ms) : ms[i] \in Message
  BY TranscriptFacts
<1>3. /\ k \in 0 .. Len(ms) /\ \A i \in I : i <= k
      /\ (k = 0 => I = {}) /\ (k # 0 => k \in I)
  <2>1. I \in SUBSET (1 .. Len(ms))
    OBVIOUS
  <2>2. PICK l : l = k
    OBVIOUS
  <2>. HIDE DEF I
  <2>. QED  BY <1>2, <2>1, <2>2, LastPlace
<1>. HIDE DEF k
<1>4. CASE k = 0
  BY <1>1, <1>3, <1>4
<1>5. CASE k # 0
  <2>1. /\ k \in 1 .. Len(ms) /\ ms[k].role = "tool" /\ ms[k].shows # None
        /\ LastSerialization(ms) = ms[k].shows
    BY <1>1, <1>3, <1>5
  <2>2. ms[k].shows \in Nat
    BY <1>2, <2>1, MessageFields
  <2>3. \A j \in k + 1 .. Len(ms) : j \notin I
    BY <1>2, <1>3, <2>1
  <2>4. \A j \in k + 1 .. Len(ms) : ~(ms[j].role = "tool" /\ ms[j].shows # None)
    BY <1>2, <2>1, <2>3
  <2>. QED  BY <2>1, <2>2, <2>4
<1>. QED  BY <1>4, <1>5

LEMMA AddUser ==
  ASSUME NEW ms, IsTranscript(ms), NEW kind \in Reminders \cup {"task"}
  PROVE  /\ User(Fresh(ms), kind) \in Message /\ User(Fresh(ms), kind).role = "user"
         /\ IsTranscript(Append(ms, User(Fresh(ms), kind)))
<1>1. User(Fresh(ms), kind) \in Message
  BY FreshExceeds, NewMessages
<1>2. User(Fresh(ms), kind).role = "user" /\ User(Fresh(ms), kind).id[1] = Fresh(ms)
  BY DEF User
<1>. QED  BY <1>1, <1>2, FreshExceeds, AppendTranscript

LEMMA AddAI ==
  ASSUME NEW ms, IsTranscript(ms), NEW tools \in Seq(Tools), NEW malformed \in BOOLEAN,
         NEW text \in SUBSET Markers, NEW m, m = AI(Fresh(ms), tools, malformed, text)
  PROVE  /\ m \in Message /\ m.role = "ai" /\ m.tools = tools /\ m.malformed = malformed
         /\ m.text = text /\ IsTranscript(Append(ms, m))
         /\ m.id[1] = Fresh(ms) /\ \A i \in 1 .. Len(ms) : ms[i].id[1] < m.id[1]
<1>1. m \in Message
  BY FreshExceeds, NewMessages
<1>2. /\ m.role = "ai" /\ m.tools = tools /\ m.malformed = malformed /\ m.text = text
      /\ m.id[1] = Fresh(ms)
  BY DEF AI
<1>. QED  BY <1>1, <1>2, FreshExceeds, AppendTranscript

\* While a reply is looked at or its tools run, it is the last message, and new.
ReplyIsLatest ==
  pc \in {"after_model", "tools"} =>
    /\ messages # <<>> /\ Reply.role = "ai"
    /\ \A i \in 1 .. Len(messages) - 1 : messages[i].id[1] < Reply.id[1]
\* Tools run in normal mode only, for a reply that asks for some in valid calls, and
\* no call is being counted then.
ToolsAreAllowed ==
  pc = "tools" => /\ mode = "normal" /\ Reply.tools # <<>> /\ ~Reply.malformed
                  /\ rejected = None
GuardInv == GuardTypeOK /\ ReplyIsLatest /\ ToolsAreAllowed

LEMMA GuardInvInit ==
  ASSUME GuardInit
  PROVE  GuardInv
<1>1. IsTranscript(messages)
  BY GuardAssumption DEF GuardInit
<1>2. pc = "before_model" /\ mode \in Modes /\ rounds = 0 /\ retries = 0
  BY DEF GuardInit
<1>3. rejected = None /\ pending = None /\ owed = None /\ recovered = None
  BY DEF GuardInit
<1>4. version = 0 /\ revision = 0 /\ unseen = FALSE /\ serialized \in {None, 0}
  BY DEF GuardInit
<1>5. serialized \in Nat \cup {None}
  BY <1>4
<1>6. ReplyIsLatest /\ ToolsAreAllowed
  BY <1>2 DEF ReplyIsLatest, ToolsAreAllowed
<1>7. rounds \in 0 .. MaxForbiddenRounds - 1 /\ retries \in 0 .. MaxRejectedRounds - 1
  BY <1>2 DEF MaxForbiddenRounds, MaxRejectedRounds
<1>8. GuardTypeOK
  BY <1>1, <1>2, <1>3, <1>4, <1>5, <1>7 DEF GuardTypeOK
<1>. QED  BY <1>6, <1>8 DEF GuardInv

LEMMA ReplyFacts ==
  ASSUME GuardInv, pc \in {"after_model", "tools"}
  PROVE  /\ IsTranscript(messages) /\ messages # <<>> /\ Reply \in Message /\ Reply.role = "ai"
         /\ Reply.tools \in Seq(Tools) /\ DOMAIN Reply.tools = 1 .. Len(Reply.tools)
         /\ IsTranscript(TakenBack) /\ messages = Append(TakenBack, Reply)
         /\ \A i \in 1 .. Len(TakenBack) : TakenBack[i].id[1] < Reply.id[1]
<1>1. /\ IsTranscript(messages) /\ messages # <<>> /\ Reply.role = "ai"
      /\ \A i \in 1 .. Len(messages) - 1 : messages[i].id[1] < Reply.id[1]
  BY DEF GuardInv, GuardTypeOK, ReplyIsLatest
<1>2. /\ IsTranscript(TakenBack) /\ Reply \in Message /\ messages = Append(TakenBack, Reply)
      /\ Len(TakenBack) = Len(messages) - 1
      /\ \A i \in 1 .. Len(messages) - 1 : TakenBack[i] = messages[i]
  BY <1>1, FrontTranscript DEF TakenBack, Reply
<1>3. Reply.tools \in Seq(Tools)
  BY <1>1, <1>2, MessageFields
<1>. QED  BY <1>1, <1>2, <1>3

LEMMA RepairReminder ==
  ASSUME NEW ms
  PROVE  Repair(ms).reminder \in Reminders \cup {None}
BY DEF Repair, Reminders

\* The steps that end a turn of the model, by what they do to the transcript.
LEMMA TypedTranscripts ==
  ASSUME GuardInv, pc = "after_model"
  PROVE  /\ \A kept : \A kind \in Reminders :
              Reprompt(kept, kind) /\ IsTranscript(kept) => IsTranscript(messages')
         /\ \A kind \in Reminders : RepromptRetry(kind) => IsTranscript(messages')
         /\ \A kept : Answer(kept) /\ IsTranscript(kept) => IsTranscript(messages')
<1>1. ASSUME NEW kept, NEW kind \in Reminders, Reprompt(kept, kind), IsTranscript(kept)
      PROVE  IsTranscript(messages')
  BY <1>1, AddUser DEF Reprompt
<1>2. ASSUME NEW kind \in Reminders, RepromptRetry(kind)
      PROVE  IsTranscript(messages')
  <2>1. IsTranscript(TakenBack)
    BY ReplyFacts
  <2>2. IsTranscript(Append(TakenBack, User(Fresh(TakenBack), kind)))
    BY <2>1, AddUser
  <2>3. messages' = TakenBack \/ messages' = Append(TakenBack, User(Fresh(TakenBack), kind))
    BY <1>2 DEF RepromptRetry
  <2>. QED  BY <2>1, <2>2, <2>3
<1>3. ASSUME NEW kept, Answer(kept), IsTranscript(kept)
      PROVE  IsTranscript(messages')
  <2>1. <<>> \in Seq(Tools)
    OBVIOUS
  <2>2. {"completed"} \in SUBSET Markers
    BY DEF Markers
  <2>3. PICK m : m = AI(Fresh(kept), <<>>, FALSE, {"completed"})
    OBVIOUS
  <2>4. IsTranscript(Append(kept, m))
    <3>1. PICK tools \in Seq(Tools) : tools = <<>>
      BY <2>1
    <3>2. PICK text \in SUBSET Markers : text = {"completed"}
      BY <2>2
    <3>3. PICK malformed \in BOOLEAN : malformed = FALSE
      OBVIOUS
    <3>4. m = AI(Fresh(kept), tools, malformed, text)
      BY <2>3, <3>1, <3>2, <3>3 DEF AI
    <3>. QED  BY <1>3, <3>4, AddAI
  <2>. QED  BY <1>3, <2>3, <2>4 DEF Answer
<1>. QED  BY <1>1, <1>2, <1>3

\* Every step keeps the invariant: before the model is called,
LEMMA GuardInvBefore ==
  ASSUME GuardInv, BeforeModel
  PROVE  GuardInv'
<1>. USE DEF GuardInv, GuardTypeOK, ReplyIsLatest, ToolsAreAllowed, Forget, ClearInactive,
             MaxForbiddenRounds, MaxRejectedRounds, trackVars, dataVars
<1>1. CASE BeforeModelStops
  BY <1>1 DEF BeforeModelStops
<1>2. CASE BeforeModelRepairs
  <2>1. Repair(messages).reminder \in Reminders \cup {None}
    BY RepairReminder
  <2>. QED  BY <1>2, <2>1 DEF BeforeModelRepairs
<1>3. CASE BeforeModelPasses
  BY <1>3 DEF BeforeModelPasses
<1>4. CASE BeforeModelFinalizes
  <2>1. "finalize" \in Reminders
    BY DEF Reminders
  <2>2. IsTranscript(messages')
    BY <1>4, <2>1, AddUser DEF BeforeModelFinalizes
  <2>. QED  BY <1>4, <2>2 DEF BeforeModelFinalizes
<1>. QED  BY <1>1, <1>2, <1>3, <1>4 DEF BeforeModel

\* as it answers,
LEMMA GuardInvCall ==
  ASSUME GuardInv, CallModel
  PROVE  /\ GuardInv'
         /\ messages' # <<>> /\ Front(messages') = messages
<1>1. IsTranscript(messages)
  BY DEF GuardInv, GuardTypeOK
<1>2. PICK tools \in Seq(Tools), malformed \in BOOLEAN, text \in SUBSET Markers :
        messages' = Append(messages, AI(Fresh(messages), tools, malformed, text))
  <2>1. CASE \E text \in Texts : messages' = Append(messages, AI(Fresh(messages), <<>>, FALSE, text))
    <3>1. <<>> \in Seq(Tools) /\ Texts \subseteq SUBSET Markers
      BY GuardAssumption
    <3>. QED  BY <2>1, <3>1
  <2>2. CASE \E tools \in Turns \cup {<<>>}, malformed \in BOOLEAN :
               messages' = Append(messages, AI(Fresh(messages), tools, malformed, {"plain"}))
    <3>1. Turns \cup {<<>>} \subseteq Seq(Tools)
      <4>1. <<>> \in Seq(Tools)
        OBVIOUS
      <4>. QED  BY <4>1, GuardAssumption
    <3>2. {"plain"} \in SUBSET Markers
      BY DEF Markers
    <3>. QED  BY <2>2, <3>1, <3>2
  <2>. QED  BY <2>1, <2>2 DEF CallModel
<1>3. PICK m : m = AI(Fresh(messages), tools, malformed, text)
  OBVIOUS
<1>4. /\ m \in Message /\ m.role = "ai" /\ IsTranscript(messages') /\ messages' = Append(messages, m)
      /\ \A i \in 1 .. Len(messages) : messages[i].id[1] < m.id[1]
  BY <1>1, <1>2, <1>3, AddAI
<1>5. /\ messages' # <<>> /\ Front(messages') = messages /\ Last(messages') = m
      /\ messages \in Seq(Message) /\ Len(messages) \in Nat
  BY <1>1, <1>4, FrontOfAppend, TranscriptFacts
<1>6. /\ Len(messages') = Len(messages) + 1
      /\ \A i \in 1 .. Len(messages) : messages'[i] = messages[i]
  BY <1>4, <1>5, AppendProperties
<1>7. ReplyIsLatest'
  BY <1>4, <1>5, <1>6 DEF ReplyIsLatest, Reply
<1>8. GuardTypeOK'
  BY <1>4 DEF GuardInv, GuardTypeOK, CallModel, trackVars, dataVars
<1>9. ToolsAreAllowed'
  BY DEF CallModel, ToolsAreAllowed
<1>. QED  BY <1>5, <1>7, <1>8, <1>9 DEF GuardInv

\* as the guard takes the answer,
LEMMA GuardInvAfter ==
  ASSUME GuardInv, AfterModel
  PROVE  GuardInv'
<1>. USE DEF MaxForbiddenRounds, MaxRejectedRounds, trackVars, dataVars
<1>1. /\ pc = "after_model" /\ IsTranscript(messages) /\ IsTranscript(TakenBack)
      /\ Reply.tools \in Seq(Tools)
      /\ {"finalize", "retry", "invalid", "recovery", "plan"} \subseteq Reminders
  <2>1. pc = "after_model"
    BY DEF AfterModel, RecoverFromForbiddenCall, RefuseForbiddenCall, BreakForbiddenCalls,
           InvalidToolCall, RefuseRetry, BreakRetries, AllowTools, AsksInNormal, EmptyText,
           FinalAnswer, ReuseSerialization, InsistOnAnswer, AnswerForPreamble, NudgeOn,
           LetEnd, WritesInNormal, Writes
  <2>. QED  BY <2>1, ReplyFacts DEF Reminders
<1>2. LastSerialization(messages) \in Nat \cup {None}
  BY <1>1, LastSerializationFacts
<1>3. ASSUME NEW kept, Answer(kept), IsTranscript(kept), UNCHANGED <<dataVars, request>>
      PROVE  GuardInv'
  <2>1. IsTranscript(messages')
    BY <1>1, <1>3, TypedTranscripts
  <2>2. /\ pc' = "end" /\ mode' = "stop_now" /\ rounds' = 0 /\ rejected' = None /\ retries' = 0
        /\ pending' = None /\ owed' = None /\ recovered' \in Nat \cup {None}
        /\ version' = version /\ revision' = revision /\ unseen' = unseen
        /\ serialized' = serialized
    BY <1>2, <1>3 DEF Answer, StopRun, Forget
  <2>. QED  BY <2>1, <2>2 DEF GuardInv, GuardTypeOK, ReplyIsLatest, ToolsAreAllowed, Modes
<1>4. ASSUME NEW kept, NEW kind \in Reminders, Reprompt(kept, kind), IsTranscript(kept)
      PROVE  IsTranscript(messages') /\ pc' = "model" /\ pending' = None /\ owed' \in Reminders
  <2>1. IsTranscript(messages')
    BY <1>1, <1>4, TypedTranscripts
  <2>. QED  BY <1>4, <2>1 DEF Reprompt
<1>5. ASSUME NEW kind \in Reminders, RepromptRetry(kind)
      PROVE  /\ IsTranscript(messages') /\ pc' = "model" /\ pending' \in Reminders \cup {None}
             /\ owed' \in Reminders
  BY <1>1, <1>5, TypedTranscripts DEF RepromptRetry
<1>6. CASE RecoverFromForbiddenCall
  BY <1>1, <1>3, <1>6 DEF RecoverFromForbiddenCall
<1>7. CASE RefuseForbiddenCall
  <2>1. /\ IsTranscript(messages') /\ pc' = "model" /\ pending' = None
        /\ owed' \in Reminders
    BY <1>1, <1>4, <1>7 DEF RefuseForbiddenCall
  <2>2. rounds' \in 0 .. 4
    BY <1>7 DEF RefuseForbiddenCall, GuardInv, GuardTypeOK
  <2>. QED  BY <1>7, <2>1, <2>2
            DEF RefuseForbiddenCall, Forget, GuardInv, GuardTypeOK, ReplyIsLatest, ToolsAreAllowed
<1>8. CASE BreakForbiddenCalls
  BY <1>1, <1>8 DEF BreakForbiddenCalls, StopRun, GuardInv, GuardTypeOK, ReplyIsLatest,
                    ToolsAreAllowed, Modes
<1>9. CASE InvalidToolCall
  <2>1. /\ IsTranscript(messages') /\ pc' = "model" /\ pending' \in Reminders \cup {None}
        /\ owed' \in Reminders
    BY <1>1, <1>5, <1>9 DEF InvalidToolCall
  <2>. QED  BY <1>9, <2>1
            DEF InvalidToolCall, Forget, GuardInv, GuardTypeOK, ReplyIsLatest, ToolsAreAllowed
<1>10. CASE RefuseRetry
  <2>1. /\ IsTranscript(messages') /\ pc' = "model" /\ pending' \in Reminders \cup {None}
        /\ owed' \in Reminders
    BY <1>1, <1>5, <1>10 DEF RefuseRetry
  <2>2. Reply.tools[1] \in Tools
    BY <1>1, <1>10 DEF RefuseRetry, Repeats
  <2>3. RetryRound \in 0 .. 2
    BY <1>10 DEF RefuseRetry, RetryRound, GuardInv, GuardTypeOK
  <2>. QED  BY <1>10, <2>1, <2>2, <2>3
            DEF RefuseRetry, GuardInv, GuardTypeOK, ReplyIsLatest, ToolsAreAllowed
<1>11. CASE BreakRetries
  BY <1>1, <1>11 DEF BreakRetries, StopRun, Forget, GuardInv, GuardTypeOK, ReplyIsLatest,
                     ToolsAreAllowed, Modes
<1>12. CASE AllowTools
  BY <1>12 DEF AllowTools, AsksInNormal, Forget, GuardInv, GuardTypeOK, ReplyIsLatest,
               ToolsAreAllowed, Reply
<1>13. CASE EmptyText
  BY <1>13 DEF EmptyText, Over, Forget, GuardInv, GuardTypeOK, ReplyIsLatest, ToolsAreAllowed
<1>14. CASE FinalAnswer
  BY <1>14 DEF FinalAnswer, StopRun, GuardInv, GuardTypeOK, ReplyIsLatest, ToolsAreAllowed, Modes
<1>15. CASE ReuseSerialization
  BY <1>1, <1>3, <1>15 DEF ReuseSerialization
<1>16. CASE InsistOnAnswer
  <2>1. IsTranscript(messages') /\ pc' = "model" /\ pending' = None /\ owed' \in Reminders
    BY <1>1, <1>4, <1>16 DEF InsistOnAnswer
  <2>. QED  BY <1>16, <2>1
            DEF InsistOnAnswer, Forget, GuardInv, GuardTypeOK, ReplyIsLatest, ToolsAreAllowed
<1>17. CASE AnswerForPreamble
  BY <1>1, <1>3, <1>17 DEF AnswerForPreamble
<1>18. CASE NudgeOn
  <2>1. Nudge \in Reminders
    BY <1>1, <1>18 DEF NudgeOn, Nudge
  <2>2. IsTranscript(messages') /\ pc' = "model" /\ pending' = None /\ owed' \in Reminders
    BY <1>1, <1>4, <1>18, <2>1 DEF NudgeOn
  <2>. QED  BY <1>18, <2>2
            DEF NudgeOn, Forget, GuardInv, GuardTypeOK, ReplyIsLatest, ToolsAreAllowed
<1>19. CASE LetEnd
  BY <1>19 DEF LetEnd, Over, Forget, GuardInv, GuardTypeOK, ReplyIsLatest, ToolsAreAllowed
<1>. QED  BY <1>6, <1>7, <1>8, <1>9, <1>10, <1>11, <1>12, <1>13, <1>14, <1>15, <1>16, <1>17,
             <1>18, <1>19 DEF AfterModel

\* and as its tools run.
LEMMA GuardInvTools ==
  ASSUME GuardInv, RunTools \/ TurnRefused \/ Interrupted
  PROVE  GuardInv'
<1>1. /\ pc = "tools" /\ IsTranscript(messages) /\ messages # <<>>
      /\ Reply \in Message /\ Reply.role = "ai" /\ Reply.tools \in Seq(Tools) /\ DataOK
      /\ Last(messages) = Reply
      /\ \A i \in 1 .. Len(messages) - 1 : messages[i].id[1] < Reply.id[1]
  <2>1. pc = "tools"
    BY DEF RunTools, TurnRefused, Interrupted
  <2>. QED  BY <2>1, ReplyFacts DEF GuardInv, GuardTypeOK, ReplyIsLatest, DataOK, Reply
<1>2. ASSUME NEW order \in Bijection(DOMAIN Reply.tools, DOMAIN Reply.tools),
             NEW x \in Executions(Reply.tools, order), Leaves(x.data)
      PROVE  DataOK'
  <2>1. x.data \in Data
    BY <1>1, <1>2, ExecutionsTyped
  <2>. QED  BY <1>2, <2>1, DataFields DEF Leaves, DataOK
<1>3. CASE RunTools
  <2>. PICK order \in Bijection(DOMAIN Reply.tools, DOMAIN Reply.tools) :
         \E x \in Executions(Reply.tools, order) :
           /\ messages' = messages \o ResultsOf(x) /\ Leaves(x.data)
           /\ mode' = IF x.data.finals = 1 THEN "finalize_only" ELSE mode
    BY <1>3 DEF RunTools
  <2>1. PICK x \in Executions(Reply.tools, order) :
          /\ messages' = messages \o ResultsOf(x) /\ Leaves(x.data)
          /\ mode' = IF x.data.finals = 1 THEN "finalize_only" ELSE mode
    OBVIOUS
  <2>2. x.outcome \in [DOMAIN Reply.tools -> Done]
    BY <1>1, <2>1, ExecutionsTyped
  <2>3. /\ ResultsOf(x) \in Seq(ToolMessage) /\ Len(ResultsOf(x)) = Len(Reply.tools)
        /\ \A k \in 1 .. Len(ResultsOf(x)) : ResultsOf(x)[k].id = <<Reply.id[1], k>>
    <3>1. PICK tools : tools = Reply.tools
      OBVIOUS
    <3>2. tools \in Seq(Tools) /\ x.outcome \in [DOMAIN tools -> Done] /\ Reply \in Message
      BY <1>1, <2>2, <3>1
    <3>3. /\ ResultsOf(x) \in Seq(ToolMessage) /\ Len(ResultsOf(x)) = Len(tools)
          /\ \A k \in 1 .. Len(tools) : ResultsOf(x)[k].id = <<Reply.id[1], k>>
      BY <3>2, ResultsOfTyped
    <3>. QED  BY <3>1, <3>3
  <2>4. IsTranscript(messages')
    BY <1>1, <2>1, <2>3, ResultsTranscript
  <2>5. DataOK' /\ mode' \in Modes
    <3>1. mode \in Modes
      BY DEF GuardInv, GuardTypeOK
    <3>2. mode' \in Modes
      BY <2>1, <3>1 DEF Modes
    <3>3. DataOK'
      BY <1>2, <2>1
    <3>. QED  BY <3>2, <3>3
  <2>6. /\ pc' = "before_model" /\ pending' = None
        /\ UNCHANGED <<rounds, rejected, retries, owed, recovered>>
    BY <1>3 DEF RunTools, trackVars
  <2>. QED  BY <2>4, <2>5, <2>6
            DEF GuardInv, GuardTypeOK, ReplyIsLatest, ToolsAreAllowed, trackVars, DataOK
<1>4. CASE TurnRefused \/ Interrupted
  <2>1. TakenUp /\ IsTranscript(messages')
    BY <1>1, <1>4, AddUser DEF TurnRefused, Interrupted, TakenUp
  <2>2. DataOK'
    <3>1. CASE UNCHANGED dataVars
      BY <1>1, <3>1 DEF DataOK, dataVars
    <3>2. CASE TurnRefused
      BY <1>2, <3>2 DEF TurnRefused
    <3>3. CASE \E x \in Executions(Reply.tools, [i \in DOMAIN Reply.tools |-> i]) : Leaves(x.data)
      <4>1. PICK order : order = [i \in DOMAIN Reply.tools |-> i]
        OBVIOUS
      <4>2. order \in Bijection(DOMAIN Reply.tools, DOMAIN Reply.tools)
        BY <4>1 DEF Bijection, Injection, Surjection, IsInjective
      <4>. QED  BY <1>2, <3>3, <4>1, <4>2
    <3>. QED  BY <1>4, <3>1, <3>2, <3>3 DEF Interrupted
  <2>. QED  BY <2>1, <2>2
            DEF TakenUp, GuardInv, GuardTypeOK, ReplyIsLatest, ToolsAreAllowed, trackVars, DataOK
<1>. QED  BY <1>3, <1>4

LEMMA GuardInvNext ==
  ASSUME GuardInv, [GuardNext]_guardVars
  PROVE  GuardInv'
<1>1. CASE GuardNext
  BY <1>1, GuardInvBefore, GuardInvCall, GuardInvAfter, GuardInvTools DEF GuardNext
<1>2. CASE UNCHANGED guardVars
  BY <1>2 DEF guardVars, dataVars, GuardInv, GuardTypeOK, ReplyIsLatest, ToolsAreAllowed, Reply
<1>. QED  BY <1>1, <1>2

\* The inductive invariant: types, the reply under way is the latest message, and tools
\* run only for a reply that the guard has let pass (before_model, after_model).
THEOREM GuardInvariant == GuardSpec => []GuardInv
<1>1. GuardInit => GuardInv
  BY GuardInvInit
<1>2. GuardInv /\ [GuardNext]_guardVars => GuardInv'
  BY GuardInvNext
<1>. QED  BY <1>1, <1>2, PTL DEF GuardSpec

\* The fields of the guard keep their types, ids stay unique in the transcript, and the
\* counters stay below the limits of the circuit breakers (after_model).
THEOREM GuardTypeCorrect == GuardSpec => []GuardTypeOK
<1>1. GuardInv => GuardTypeOK
  BY DEF GuardInv
<1>. QED  BY <1>1, GuardInvariant, PTL

-----------------------------------------------------------------------------
(* What the provider gets.                                                 *)

\* The request is the repaired transcript, and the transcript itself if it is in order.
LEMMA RepairFacts ==
  ASSUME NEW ms, IsTranscript(ms)
  PROVE  /\ IsTranscript(Repair(ms).messages) /\ Sound(Repair(ms).messages)
         /\ Sound(ms) => Repair(ms).messages = ms /\ Repair(ms).system = None
<1>. DEFINE clean == Repaired(ms)
            family == IF mode = "finalize_only" THEN "finalize" ELSE "transcript"
            m == User(Fresh(ms), family)
<1>1. IsTranscript(clean) /\ Sound(clean)
  BY RepairedSound
<1>2. /\ \/ Repair(ms).messages = clean
         \/ Repair(ms).messages = Append(clean, m)
      /\ clean = ms => Repair(ms).messages = clean /\ Repair(ms).system = None
  <2>. DEFINE wanted == /\ clean # ms
                         /\ ~EndsWithReminder(clean, family)
                         /\ ~HasRecentReminder(clean, family)
              defer == wanted /\ EndsWith(clean, "tool")
              sent   == IF wanted /\ ~defer THEN Append(clean, m) ELSE clean
              asked  == IF wanted THEN family ELSE None
              system == IF defer THEN family ELSE None
  <2>1. Repair(ms) = [messages |-> sent, reminder |-> asked, system |-> system]
    BY DEF Repair
  <2>. HIDE DEF sent, asked, system
  <2>2. Repair(ms).messages = sent /\ Repair(ms).system = system
    BY <2>1
  <2>. HIDE DEF m, family, clean
  <2>. QED  BY <2>2 DEF sent, system
<1>3. IsTranscript(Append(clean, m)) /\ Sound(Append(clean, m))
  <2>1. family \in Reminders \cup {"task"}
    BY DEF Reminders
  <2>. HIDE DEF clean, family
  <2>2. m \in Message /\ m.role = "user" /\ m.id[1] = Fresh(ms)
    BY <2>1, FreshExceeds, NewMessages DEF User
  <2>3. PICK p : Keeps(clean, p, ms)
    BY RepairedKeeps DEF clean
  <2>4. \A k \in 1 .. Len(clean) : clean[k].id[1] < m.id[1]
    <3>. TAKE k \in 1 .. Len(clean)
    <3>1. PICK i \in 1 .. Len(ms) : clean[k] = ms[i]
      BY <2>3 DEF Keeps
    <3>. QED  BY <2>2, <3>1, FreshExceeds
  <2>5. IsTranscript(Append(clean, m))
    BY <1>1, <2>2, <2>4, AppendTranscript
  <2>6. m.role # "tool" /\ CallsOf(m) = {} /\ clean \in Seq(Message)
    BY <1>1, <2>2, TranscriptFacts DEF CallsOf
  <2>. HIDE DEF m
  <2>7. Sound(Append(clean, m)) <=> Sound(clean)
    BY <2>2, <2>6, SoundAppend
  <2>. QED  BY <1>1, <2>7, <2>5
<1>4. Sound(ms) => clean = ms
  BY SoundIsRepaired
<1>. HIDE DEF clean, m
<1>. QED  BY <1>1, <1>2, <1>3, <1>4

\* When a reply is looked at, the request it answers is the transcript before it, if
\* that one is in order.
RequestIsSent ==
  /\ Sound(request.messages)
  /\ pc = "after_model" /\ Sound(TakenBack) => request.messages = TakenBack

LEMMA OtherSteps ==
  ASSUME GuardNext
  PROVE  \/ CallModel
         \/ pc' # "after_model" /\ request' = request
<1>. USE DEF dataVars, trackVars
<1>1. BeforeModel => pc' # "after_model" /\ request' = request
  BY DEF BeforeModel, BeforeModelStops, BeforeModelRepairs, BeforeModelPasses,
         BeforeModelFinalizes
<1>2. AfterModel => pc' # "after_model" /\ request' = request
  BY DEF AfterModel, RecoverFromForbiddenCall, RefuseForbiddenCall, BreakForbiddenCalls,
         InvalidToolCall, RefuseRetry, BreakRetries, AllowTools, EmptyText, FinalAnswer,
         ReuseSerialization, InsistOnAnswer, AnswerForPreamble, NudgeOn, LetEnd, Over, Answer,
         StopRun, Reprompt, RepromptRetry
<1>3. RunTools \/ TurnRefused \/ Interrupted => pc' # "after_model" /\ request' = request
  BY DEF RunTools, TurnRefused, Interrupted, TakenUp
<1>. QED  BY <1>1, <1>2, <1>3 DEF GuardNext

LEMMA CallSends ==
  ASSUME GuardInv, CallModel
  PROVE  RequestIsSent'
<1>1. IsTranscript(messages) /\ request'.messages = Repair(messages).messages
  BY DEF GuardInv, GuardTypeOK, CallModel
<1>2. TakenBack' = messages
  BY GuardInvCall DEF TakenBack
<1>. QED  BY <1>1, <1>2, RepairFacts DEF RequestIsSent

LEMMA RequestIsSentNext ==
  ASSUME GuardInv, RequestIsSent, [GuardNext]_guardVars
  PROVE  RequestIsSent'
<1>1. CASE GuardNext
  BY <1>1, OtherSteps, CallSends DEF RequestIsSent
<1>2. CASE UNCHANGED guardVars
  BY <1>2 DEF guardVars, RequestIsSent, TakenBack
<1>. QED  BY <1>1, <1>2

\* Whatever the transcript of a resumed run looks like, the provider is sent its repaired
\* form, or the transcript itself if that is in order (wrap_model_call).
THEOREM RequestsAreSound == GuardSpec => []RequestIsSent
<1>1. GuardInit => RequestIsSent
  BY DEF GuardInit, RequestIsSent, Sound
<1>2. GuardInv /\ RequestIsSent /\ [GuardNext]_guardVars => RequestIsSent'
  BY RequestIsSentNext
<1>. QED  BY <1>1, <1>2, GuardInvariant, PTL DEF GuardSpec

\* No reminder of the guard stands directly after a tool result.
Apart(ms) ==
  \A i \in 1 .. Len(ms) - 1 :
    ~(ms[i].role = "tool" /\ ms[i + 1].role = "user" /\ ms[i + 1].kind # "task")

LEMMA ApartAppend ==
  ASSUME NEW ms, IsTranscript(ms), Apart(ms), NEW m \in Message,
         m.role = "user" /\ m.kind # "task" => ~EndsWith(ms, "tool")
  PROVE  Apart(Append(ms, m))
<1>. DEFINE es == Append(ms, m)
<1>1. ms \in Seq(Message) /\ Len(ms) \in Nat
  BY TranscriptFacts
<1>2. /\ Len(es) = Len(ms) + 1 /\ es[Len(ms) + 1] = m
      /\ \A i \in 1 .. Len(ms) : es[i] = ms[i]
  BY <1>1, AppendProperties
<1>. HIDE DEF es
<1>. SUFFICES ASSUME NEW i \in 1 .. Len(es) - 1
              PROVE  ~(es[i].role = "tool" /\ es[i + 1].role = "user" /\ es[i + 1].kind # "task")
  BY DEF Apart, es
<1>3. CASE i = Len(ms)
  BY <1>1, <1>2, <1>3, EndsWithFacts
<1>4. CASE i # Len(ms)
  <2>1. i \in 1 .. Len(ms) - 1 /\ es[i] = ms[i] /\ es[i + 1] = ms[i + 1]
    BY <1>1, <1>2, <1>4
  <2>. QED  BY <2>1 DEF Apart
<1>. QED  BY <1>3, <1>4

LEMMA ApartFront ==
  ASSUME NEW ms, IsTranscript(ms), ms # <<>>, Apart(ms)
  PROVE  Apart(Front(ms))
<1>1. /\ Len(Front(ms)) = Len(ms) - 1 /\ Len(ms) - 1 \in Nat
      /\ \A i \in 1 .. Len(ms) - 1 : Front(ms)[i] = ms[i]
  BY FrontTranscript
<1>2. \A i \in 1 .. Len(Front(ms)) - 1 :
        /\ i \in 1 .. Len(ms) - 1 /\ Front(ms)[i] = ms[i] /\ Front(ms)[i + 1] = ms[i + 1]
  BY <1>1
<1>. QED  BY <1>2 DEF Apart

\* A reply is the new last message.
LEMMA CallWrites ==
  ASSUME GuardInv, CallModel
  PROVE  \E m \in Message :
           /\ m.role = "ai" /\ messages' = Append(messages, m)
           /\ \A i \in 1 .. Len(messages) : messages[i].id[1] < m.id[1]
<1>1. /\ messages' # <<>> /\ Front(messages') = messages
      /\ IsTranscript(messages') /\ Last(messages').role = "ai"
      /\ \A i \in 1 .. Len(messages') - 1 : messages'[i].id[1] < Last(messages').id[1]
  BY GuardInvCall DEF CallModel, GuardInv, GuardTypeOK, ReplyIsLatest, Reply
<1>2. PICK ms, m : ms = messages' /\ m = Last(messages')
  OBVIOUS
<1>3. /\ m \in Message /\ m.role = "ai" /\ ms = Append(Front(ms), m)
      /\ Len(Front(ms)) = Len(ms) - 1
      /\ \A i \in 1 .. Len(ms) - 1 : Front(ms)[i] = ms[i] /\ ms[i].id[1] < m.id[1]
  BY <1>1, <1>2, FrontTranscript
<1>. QED  BY <1>1, <1>2, <1>3

\* A message of the guard: it asks for nothing, and is a reminder only where no tool
\* result comes before.
GuardWrites(kept, m) ==
  /\ m \in Message /\ m.role # "tool" /\ CallsOf(m) = {}
  /\ m.role = "user" => ~EndsWith(kept, "tool")
  /\ \A i \in 1 .. Len(kept) : kept[i].id[1] < m.id[1]

LEMMA AnswerIsWritten ==
  ASSUME NEW kept, IsTranscript(kept)
  PROVE  GuardWrites(kept, AI(Fresh(kept), <<>>, FALSE, {"completed"}))
<1>1. PICK tools \in Seq(Tools) : tools = <<>>
  <2>1. <<>> \in Seq(Tools)
    OBVIOUS
  <2>. QED  BY <2>1
<1>2. PICK text \in SUBSET Markers : text = {"completed"}
  BY DEF Markers
<1>3. PICK malformed, m :
        malformed \in BOOLEAN /\ malformed = FALSE /\ m = AI(Fresh(kept), tools, malformed, text)
  OBVIOUS
<1>4. /\ m \in Message /\ m.role = "ai" /\ m.tools = tools
      /\ \A i \in 1 .. Len(kept) : kept[i].id[1] < m.id[1]
  BY <1>3, AddAI
<1>5. CallsOf(m) = {}
  BY <1>1, <1>4 DEF CallsOf
<1>. QED  BY <1>1, <1>2, <1>3, <1>4, <1>5 DEF GuardWrites

LEMMA AfterModelIs ==
  ASSUME AfterModel
  PROVE  pc = "after_model"
BY DEF AfterModel, RecoverFromForbiddenCall, RefuseForbiddenCall, BreakForbiddenCalls,
       InvalidToolCall, RefuseRetry, BreakRetries, AllowTools, AsksInNormal, EmptyText,
       FinalAnswer, ReuseSerialization, InsistOnAnswer, AnswerForPreamble, NudgeOn,
       LetEnd, WritesInNormal, Writes

\* What the end of a turn of the model makes of the transcript.
LEMMA TurnEnds ==
  ASSUME GuardInv, AfterModel
  PROVE  \E kept \in {messages, TakenBack} :
           \/ messages' = kept
           \/ \E m : GuardWrites(kept, m) /\ messages' = Append(kept, m)
<1>1. /\ pc = "after_model" /\ IsTranscript(messages) /\ IsTranscript(TakenBack)
      /\ ~EndsWith(messages, "tool")
      /\ {"finalize", "retry", "invalid", "recovery", "plan"} \subseteq Reminders
  <2>1. pc = "after_model"
    BY AfterModelIs
  <2>. QED  BY <2>1, ReplyFacts DEF Reminders, EndsWith, Reply
<1>2. ASSUME NEW kept, IsTranscript(kept), NEW kind \in Reminders, ~EndsWith(kept, "tool")
      PROVE  GuardWrites(kept, User(Fresh(kept), kind))
  <2>1. PICK m : m = User(Fresh(kept), kind)
    OBVIOUS
  <2>2. m \in Message /\ m.role = "user" /\ m.id[1] = Fresh(kept)
    BY <1>2, <2>1, FreshExceeds, NewMessages DEF User
  <2>. QED  BY <1>2, <2>1, <2>2, FreshExceeds DEF GuardWrites, CallsOf
<1>3. \A kept : IsTranscript(kept)
                 => GuardWrites(kept, AI(Fresh(kept), <<>>, FALSE, {"completed"}))
  BY AnswerIsWritten
<1>4. CASE RecoverFromForbiddenCall \/ ReuseSerialization \/ AnswerForPreamble
  BY <1>1, <1>3, <1>4
     DEF RecoverFromForbiddenCall, ReuseSerialization, AnswerForPreamble, Answer
<1>5. CASE RefuseForbiddenCall
  BY <1>1, <1>2, <1>5 DEF RefuseForbiddenCall, Reprompt, ToolResultBefore
<1>6. CASE BreakForbiddenCalls \/ BreakRetries
  BY <1>6 DEF BreakForbiddenCalls, BreakRetries
<1>7. CASE InvalidToolCall \/ RefuseRetry
  BY <1>1, <1>2, <1>7 DEF InvalidToolCall, RefuseRetry, RepromptRetry, ToolResultBefore
<1>8. CASE AllowTools \/ EmptyText \/ FinalAnswer \/ LetEnd
  BY <1>8 DEF AllowTools, EmptyText, FinalAnswer, LetEnd
<1>9. CASE InsistOnAnswer
  BY <1>1, <1>2, <1>9 DEF InsistOnAnswer, Reprompt
<1>10. CASE NudgeOn
  <2>1. Nudge \in Reminders
    BY <1>1, <1>10 DEF NudgeOn, Nudge
  <2>. QED  BY <1>1, <1>2, <1>10, <2>1 DEF NudgeOn, Reprompt
<1>. QED  BY <1>4, <1>5, <1>6, <1>7, <1>8, <1>9, <1>10 DEF AfterModel

\* What a turn of tools makes of it: the results rs of the execution x.
ToolsWrite(x, rs) ==
  /\ rs \in Seq(ToolMessage) /\ Len(rs) = Len(Reply.tools)
  /\ x.data \in Data /\ x.outcome \in [DOMAIN Reply.tools -> Done]
  /\ messages' = messages \o rs /\ Len(messages') = Len(messages) + Len(rs)
  /\ \A i \in 1 .. Len(messages) : messages'[i] = messages[i]
  /\ \A k \in 1 .. Len(rs) :
       /\ messages'[Len(messages) + k] = rs[k]
       /\ rs[k].role = "tool" /\ rs[k].ok = x.outcome[k].ok
       /\ rs[k].shows = x.outcome[k].shows
  /\ Leaves(x.data) /\ mode' = IF x.data.finals = 1 THEN "finalize_only" ELSE mode

LEMMA RunToolsWrites ==
  ASSUME GuardInv, RunTools
  PROVE  \E x, rs :
           /\ ToolsWrite(x, rs)
           /\ \E order \in Bijection(DOMAIN Reply.tools, DOMAIN Reply.tools) :
                x \in Executions(Reply.tools, order)
<1>1. /\ pc = "tools" /\ IsTranscript(messages) /\ messages # <<>>
      /\ Reply \in Message /\ Reply.role = "ai" /\ Reply.tools \in Seq(Tools) /\ DataOK
      /\ Last(messages) = Reply
      /\ \A i \in 1 .. Len(messages) - 1 : messages[i].id[1] < Reply.id[1]
  <2>1. pc = "tools"
    BY DEF RunTools
  <2>. QED  BY <2>1, ReplyFacts DEF GuardInv, GuardTypeOK, ReplyIsLatest, DataOK, Reply
<1>. PICK order \in Bijection(DOMAIN Reply.tools, DOMAIN Reply.tools) :
       \E x \in Executions(Reply.tools, order) :
         /\ messages' = messages \o ResultsOf(x) /\ Leaves(x.data)
         /\ mode' = IF x.data.finals = 1 THEN "finalize_only" ELSE mode
  BY DEF RunTools
<1>2. PICK x \in Executions(Reply.tools, order) :
        /\ messages' = messages \o ResultsOf(x) /\ Leaves(x.data)
        /\ mode' = IF x.data.finals = 1 THEN "finalize_only" ELSE mode
  OBVIOUS
<1>3. x.data \in Data /\ x.outcome \in [DOMAIN Reply.tools -> Done]
  BY <1>1, <1>2, ExecutionsTyped
<1>4. PICK rs : rs = ResultsOf(x)
  OBVIOUS
<1>5. /\ rs \in Seq(ToolMessage) /\ Len(rs) = Len(Reply.tools)
      /\ \A k \in 1 .. Len(rs) :
           /\ rs[k].id = <<Reply.id[1], k>> /\ rs[k].role = "tool"
           /\ rs[k].ok = x.outcome[k].ok /\ rs[k].shows = x.outcome[k].shows
  BY <1>1, <1>3, <1>4, ResultsOfTyped
<1>6. /\ Len(messages \o rs) = Len(messages) + Len(rs)
      /\ \A i \in 1 .. Len(messages) : (messages \o rs)[i] = messages[i]
      /\ \A k \in 1 .. Len(rs) : (messages \o rs)[Len(messages) + k] = rs[k]
  BY <1>1, <1>5, ResultsTranscript
<1>7. ToolsWrite(x, rs)
  BY <1>2, <1>3, <1>4, <1>5, <1>6 DEF ToolsWrite
<1>. QED  BY <1>2, <1>7

LEMMA ApartNext ==
  ASSUME GuardInv, Apart(messages), [GuardNext]_guardVars
  PROVE  Apart(messages')
<1>1. IsTranscript(messages)
  BY DEF GuardInv, GuardTypeOK
<1>2. CASE BeforeModel
  <2>1. \/ messages' = messages
        \/ /\ messages' = Append(messages, User(Fresh(messages), "finalize"))
           /\ ~EndsWith(messages, "tool")
    BY <1>2 DEF BeforeModel, BeforeModelStops, BeforeModelRepairs, BeforeModelPasses,
                BeforeModelFinalizes
  <2>2. "finalize" \in Reminders
    BY DEF Reminders
  <2>3. User(Fresh(messages), "finalize") \in Message
    BY <1>1, <2>2, AddUser
  <2>. QED  BY <1>1, <2>1, <2>3, ApartAppend
<1>3. CASE CallModel
  <2>1. PICK m \in Message : m.role = "ai" /\ messages' = Append(messages, m)
    BY <1>3, CallWrites
  <2>. QED  BY <1>1, <2>1, ApartAppend
<1>4. CASE AfterModel
  <2>1. PICK kept \in {messages, TakenBack} :
           \/ messages' = kept
           \/ \E m : GuardWrites(kept, m) /\ messages' = Append(kept, m)
    BY <1>4, TurnEnds
  <2>2. IsTranscript(kept) /\ Apart(kept)
    BY <1>1, <1>4, AfterModelIs, ReplyFacts, ApartFront DEF TakenBack
  <2>. QED  BY <2>1, <2>2, ApartAppend DEF GuardWrites
<1>5. CASE RunTools
  <2>1. PICK x, rs : ToolsWrite(x, rs)
    BY <1>5, RunToolsWrites
  <2>2. /\ Len(messages) \in Nat /\ Len(rs) \in Nat /\ messages # <<>>
        /\ messages[Len(messages)].role = "ai"
    BY <1>1, <1>5, <2>1, ReplyFacts, FrontTranscript DEF RunTools, ToolsWrite, Reply
  <2>. SUFFICES ASSUME NEW i \in 1 .. Len(messages') - 1,
                       messages'[i].role = "tool" /\ messages'[i + 1].role = "user"
                             /\ messages'[i + 1].kind # "task"
                PROVE  FALSE
    BY DEF Apart
  <2>3. CASE i + 1 \in 1 .. Len(messages)
    <3>1. i \in 1 .. Len(messages) - 1
      BY <2>2, <2>3
    <3>. QED  BY <2>1, <2>2, <2>3, <3>1 DEF Apart, ToolsWrite
  <2>4. CASE i + 1 \notin 1 .. Len(messages)
    <3>1. (i + 1) - Len(messages) \in 1 .. Len(rs)
          /\ Len(messages) + ((i + 1) - Len(messages)) = i + 1
      BY <2>1, <2>2, <2>4 DEF ToolsWrite
    <3>2. PICK k \in 1 .. Len(rs) : Len(messages) + k = i + 1
      BY <3>1
    <3>. QED  BY <2>1, <3>2 DEF ToolsWrite
  <2>. QED  BY <2>3, <2>4
<1>6. CASE TurnRefused \/ Interrupted
  <2>1. PICK m : m = User(Fresh(messages), "task")
    OBVIOUS
  <2>2. m \in Message /\ m.kind = "task"
    BY <1>1, <2>1, AddUser DEF User
  <2>. QED  BY <1>1, <1>6, <2>1, <2>2, ApartAppend DEF TurnRefused, Interrupted, TakenUp
<1>7. CASE UNCHANGED guardVars
  BY <1>7 DEF guardVars
<1>. QED  BY <1>2, <1>3, <1>4, <1>5, <1>6, <1>7 DEF GuardNext

\* Whatever the transcript went through, the provider gets calls paired with their
\* results; and if the transcripts that runs start from have no reminder directly after
\* a tool result (which a run of the guard never writes), no such pair is sent as long
\* as the transcript is in order (wrap_model_call).
THEOREM ProviderIsSafe ==
  ASSUME \A ms \in Histories : Apart(ms)
  PROVE  GuardSpec => []ProviderSafe
<1>1. GuardInit => Apart(messages)
  BY DEF GuardInit
<1>2. GuardInv /\ Apart(messages) /\ [GuardNext]_guardVars => Apart(messages)'
  BY ApartNext
<1>3. GuardInv /\ Apart(messages) /\ RequestIsSent => ProviderSafe
  <2>. SUFFICES ASSUME GuardInv, Apart(messages), RequestIsSent,
                       pc = "after_model", Sound(TakenBack)
                PROVE  NoReminderAfterTool
    BY DEF ProviderSafe, RequestIsSent
  <2>1. request.messages = TakenBack
    BY DEF RequestIsSent
  <2>2. Apart(TakenBack)
    BY ReplyFacts, ApartFront DEF TakenBack
  <2>. QED  BY <2>1, <2>2 DEF NoReminderAfterTool, Apart
<1>. QED  BY <1>1, <1>2, <1>3, GuardInvariant, RequestsAreSound, PTL DEF GuardSpec

-----------------------------------------------------------------------------
(* The reminders that a call of the model carries.                         *)

\* A reminder of this kind stands after the last message of the model.
Reminded(ms, kind) ==
  \E i \in LatestAI(ms) + 1 .. Len(ms) : ms[i].role = "user" /\ ms[i].kind = kind

LEMMA RemindedByAppend ==
  ASSUME NEW ms, IsTranscript(ms), NEW kind \in Reminders
  PROVE  Reminded(Append(ms, User(Fresh(ms), kind)), kind)
<1>1. PICK m : m = User(Fresh(ms), kind)
  OBVIOUS
<1>2. m \in Message /\ m.role = "user" /\ m.kind = kind
  BY <1>1, AddUser DEF User
<1>3. ms \in Seq(Message) /\ Len(ms) \in Nat
  BY TranscriptFacts
<1>4. PICK es : es = Append(ms, m)
  OBVIOUS
<1>5. Len(es) = Len(ms) + 1 /\ es[Len(ms) + 1] = m
  BY <1>2, <1>3, <1>4, AppendProperties
<1>6. LatestAI(es) \in 0 .. Len(ms)
  <2>1. /\ LatestAI(es) \in 0 .. Len(ms) + 1
        /\ LatestAI(es) # 0 => es[LatestAI(es)].role = "ai"
    BY <1>3, <1>5, LatestAIFacts
  <2>. QED  BY <1>2, <1>3, <1>5, <2>1
<1>7. Len(ms) + 1 \in LatestAI(es) + 1 .. Len(es)
  BY <1>3, <1>5, <1>6
<1>8. Reminded(es, kind)
  BY <1>2, <1>5, <1>7 DEF Reminded
<1>. QED  BY <1>1, <1>4, <1>8

\* When the last message is the model's, the recent ones stand after the one before.
LEMMA RecentIsBefore ==
  ASSUME NEW ms, IsTranscript(ms), ms # <<>>, Last(ms).role = "ai", NEW kind,
         HasRecentReminder(ms, kind)
  PROVE  Reminded(Front(ms), kind)
<1>1. /\ Len(ms) \in Nat /\ Len(Front(ms)) = Len(ms) - 1 /\ Len(ms) - 1 \in Nat
      /\ \A i \in 1 .. Len(ms) - 1 : Front(ms)[i] = ms[i]
      /\ ms[Len(ms)].role = "ai"
  BY FrontTranscript, TranscriptFacts
<1>2. LatestAI(ms) = Len(ms)
  BY <1>1, LatestAIFacts
<1>3. Front(ms) = SubSeq(ms, 1, LatestAI(ms) - 1)
  BY <1>2 DEF Front
<1>4. Recent(ms) = {ms[i] : i \in LatestAI(Front(ms)) + 1 .. Len(ms) - 1}
  BY <1>1, <1>2, <1>3 DEF Recent
<1>5. LatestAI(Front(ms)) \in 0 .. Len(ms) - 1
  BY <1>1, LatestAIFacts
<1>6. PICK i \in LatestAI(Front(ms)) + 1 .. Len(ms) - 1 : ms[i].role = "user" /\ ms[i].kind = kind
  BY <1>4 DEF HasRecentReminder
<1>7. Front(ms)[i] = ms[i] /\ i \in LatestAI(Front(ms)) + 1 .. Len(Front(ms))
  BY <1>1, <1>5, <1>6
<1>. QED  BY <1>6, <1>7 DEF Reminded

\* A reminder that is owed is pending, or follows from the mode, or is written.
OwedIsKept ==
  /\ pc = "model" /\ owed # None =>
       \/ pending = owed
       \/ mode = "finalize_only" /\ owed = "finalize" /\ EndsWith(messages, "tool")
       \/ Reminded(messages, owed)
  /\ GuidanceDelivered

LEMMA OwedByReprompt ==
  ASSUME NEW kept, IsTranscript(kept), NEW kind \in Reminders, Reprompt(kept, kind)
  PROVE  OwedIsKept'
<1>1. pc' = "model" /\ Reminded(messages', owed')
  BY RemindedByAppend DEF Reprompt
<1>. QED  BY <1>1 DEF OwedIsKept, GuidanceDelivered

LEMMA OwedByRetry ==
  ASSUME GuardInv, pc = "after_model", NEW kind \in Reminders, RepromptRetry(kind)
  PROVE  OwedIsKept'
<1>1. /\ IsTranscript(messages) /\ messages # <<>> /\ Last(messages).role = "ai"
      /\ IsTranscript(TakenBack)
  BY ReplyFacts DEF Reply
<1>2. pc' = "model" /\ owed' = kind
  BY DEF RepromptRetry
<1>3. CASE HasRecentReminder(messages, kind)
  <2>1. messages' = TakenBack /\ Reminded(TakenBack, kind)
    BY <1>1, <1>3, RecentIsBefore DEF RepromptRetry, TakenBack
  <2>. QED  BY <1>2, <2>1 DEF OwedIsKept, GuidanceDelivered
<1>4. CASE ~HasRecentReminder(messages, kind) /\ ToolResultBefore
  <2>1. pending' = kind
    BY <1>4 DEF RepromptRetry
  <2>. QED  BY <1>2, <2>1 DEF OwedIsKept, GuidanceDelivered
<1>5. CASE ~HasRecentReminder(messages, kind) /\ ~ToolResultBefore
  <2>1. Reminded(messages', kind)
    BY <1>1, <1>5, RemindedByAppend DEF RepromptRetry
  <2>. QED  BY <1>2, <2>1 DEF OwedIsKept, GuidanceDelivered
<1>. QED  BY <1>3, <1>4, <1>5

LEMMA OwedByCall ==
  ASSUME GuardInv, OwedIsKept, CallModel
  PROVE  OwedIsKept'
<1>1. /\ pc = "model" /\ pc' = "after_model" /\ owed' = owed /\ TakenBack' = messages
      /\ IsTranscript(messages)
      /\ request' = [messages |-> Repair(messages).messages,
                     system   |-> SystemReminders(Repair(messages))]
  BY GuardInvCall DEF CallModel, TakenBack, GuardInv, GuardTypeOK
<1>. SUFFICES ASSUME owed # None, Sound(messages)
              PROVE  owed \in request'.system \/ Reminded(request'.messages, owed)
  BY <1>1 DEF OwedIsKept, GuidanceDelivered, Reminded
<1>2. Repair(messages).messages = messages /\ Repair(messages).system = None
  BY <1>1, RepairFacts
<1>3. /\ request'.messages = messages
      /\ request'.system =
           {None, IF mode = "finalize_only" /\ EndsWith(messages, "tool") THEN "finalize" ELSE None,
            pending} \ {None}
  BY <1>1, <1>2 DEF SystemReminders
<1>. QED  BY <1>1, <1>3 DEF OwedIsKept

LEMMA OwedNext ==
  ASSUME GuardInv, OwedIsKept, [GuardNext]_guardVars
  PROVE  OwedIsKept'
<1>1. CASE BeforeModel
  <2>1. (owed' = None /\ pc' # "after_model") \/ pc' = "end"
    BY <1>1 DEF BeforeModel, BeforeModelStops, BeforeModelRepairs, BeforeModelPasses,
                BeforeModelFinalizes
  <2>. QED  BY <2>1 DEF OwedIsKept, GuidanceDelivered
<1>2. CASE CallModel
  BY <1>2, OwedByCall
<1>3. CASE AfterModel
  <2>1. /\ pc = "after_model" /\ IsTranscript(messages) /\ IsTranscript(TakenBack)
        /\ {"finalize", "retry", "invalid", "recovery", "plan"} \subseteq Reminders
    BY <1>3, AfterModelIs, ReplyFacts DEF Reminders
  <2>2. CASE RefuseForbiddenCall
    <3>1. CASE ToolResultBefore
      <4>1. /\ messages' = TakenBack /\ owed' = "finalize" /\ pc' = "model"
            /\ mode' = "finalize_only"
        BY <2>2, <3>1 DEF RefuseForbiddenCall
      <4>2. EndsWith(messages', "tool")
        BY <3>1, <4>1 DEF ToolResultBefore
      <4>. QED  BY <4>1, <4>2 DEF OwedIsKept, GuidanceDelivered
    <3>2. CASE ~ToolResultBefore
      BY <2>1, <2>2, <3>2, OwedByReprompt DEF RefuseForbiddenCall
    <3>. QED  BY <3>1, <3>2
  <2>3. CASE InvalidToolCall \/ RefuseRetry
    BY <2>1, <2>3, OwedByRetry DEF InvalidToolCall, RefuseRetry
  <2>4. CASE InsistOnAnswer
    BY <2>1, <2>4, OwedByReprompt DEF InsistOnAnswer
  <2>5. CASE NudgeOn
    <3>1. Nudge \in Reminders
      BY <2>1, <2>5 DEF NudgeOn, Nudge
    <3>. QED  BY <2>1, <2>5, <3>1, OwedByReprompt DEF NudgeOn
  <2>6. CASE \/ RecoverFromForbiddenCall \/ BreakForbiddenCalls \/ BreakRetries \/ AllowTools
             \/ EmptyText \/ FinalAnswer \/ ReuseSerialization \/ AnswerForPreamble \/ LetEnd
    <3>1. pc' \in {"end", "tools"}
      BY <2>6 DEF RecoverFromForbiddenCall, BreakForbiddenCalls, BreakRetries, AllowTools,
                  EmptyText, FinalAnswer, ReuseSerialization, AnswerForPreamble, LetEnd, Answer,
                  Over, StopRun
    <3>. QED  BY <3>1 DEF OwedIsKept, GuidanceDelivered
  <2>. QED  BY <1>3, <2>2, <2>3, <2>4, <2>5, <2>6 DEF AfterModel
<1>4. CASE RunTools \/ TurnRefused \/ Interrupted
  <2>1. pc' = "before_model"
    BY <1>4 DEF RunTools, TurnRefused, Interrupted, TakenUp
  <2>. QED  BY <2>1 DEF OwedIsKept, GuidanceDelivered
<1>5. CASE UNCHANGED guardVars
  BY <1>5 DEF guardVars, OwedIsKept, GuidanceDelivered, Reminded, TakenBack
<1>. QED  BY <1>1, <1>2, <1>3, <1>4, <1>5 DEF GuardNext

\* Whatever reminder the guard called the model again for, the call carries it, written
\* after the last message of the model or in the system prompt (after_model,
\* wrap_model_call).
THEOREM GuidanceIsDelivered == GuardSpec => []GuidanceDelivered
<1>1. GuardInit => OwedIsKept
  BY DEF GuardInit, OwedIsKept, GuidanceDelivered
<1>2. GuardInv /\ OwedIsKept /\ [GuardNext]_guardVars => OwedIsKept'
  BY OwedNext
<1>3. OwedIsKept => GuidanceDelivered
  BY DEF OwedIsKept
<1>. QED  BY <1>1, <1>2, <1>3, GuardInvariant, PTL DEF GuardSpec

-----------------------------------------------------------------------------
(* The call that is being counted.                                         *)

\* Messages that are no results, and new, leave the latest result the latest.
LEMMA FailedInAppend ==
  ASSUME NEW ms, IsTranscript(ms), NEW m \in Message, m.role # "tool",
         m.role = "ai" => \A i \in 1 .. Len(ms) : ms[i].id[1] < m.id[1]
  PROVE  FailedIn(Append(ms, m)) = FailedIn(ms)
<1>. DEFINE es == Append(ms, m)
            I(s) == {i \in 1 .. Len(s) : s[i].role = "tool"}
            last(s) == IF I(s) # {} THEN Max(I(s)) ELSE 0
            asked(s) == {i \in DOMAIN s : last(s) # 0 /\ s[last(s)].id \in CallsOf(s[i])}
<1>1. /\ ms \in Seq(Message) /\ Len(ms) \in Nat /\ DOMAIN ms = 1 .. Len(ms)
      /\ \A i \in 1 .. Len(ms) : ms[i] \in Message
  BY TranscriptFacts
<1>2. /\ Len(es) = Len(ms) + 1 /\ es[Len(ms) + 1] = m /\ DOMAIN es = 1 .. Len(ms) + 1
      /\ \A i \in 1 .. Len(ms) : es[i] = ms[i]
  BY <1>1, AppendProperties
<1>3. \A s : FailedIn(s) = IF last(s) = 0 \/ asked(s) = {} THEN None
                           ELSE IF s[last(s)].ok THEN None
                           ELSE LET i == CHOOSE j \in asked(s) : TRUE
                                IN s[i].tools[s[last(s)].id[2]]
  BY DEF FailedIn, LastWhere, SelectLastInSeq
<1>. HIDE DEF es
<1>4. I(es) = I(ms)
  <2>1. \A i \in 1 .. Len(ms) + 1 : es[i].role = "tool" => i \in 1 .. Len(ms)
    BY <1>1, <1>2
  <2>2. \A i \in 1 .. Len(ms) : i \in 1 .. Len(ms) + 1
    BY <1>1
  <2>. QED  BY <1>2, <2>1, <2>2
<1>5. last(es) = last(ms)
  BY <1>4
<1>6. last(ms) \in 0 .. Len(ms)
  <2>1. I(ms) \in SUBSET (1 .. Len(ms))
    OBVIOUS
  <2>2. PICK N, J, k :
          /\ N \in Nat /\ J \in SUBSET (1 .. Len(ms))
          /\ N = Len(ms) /\ J = I(ms) /\ k = last(ms)
    BY <1>1, <2>1
  <2>3. k = IF J # {} THEN Max(J) ELSE 0
    BY <2>2
  <2>. HIDE DEF I, last
  <2>4. k \in 0 .. N
    BY <2>2, <2>3, LastPlace
  <2>. QED  BY <2>2, <2>4
<1>. HIDE DEF last
<1>7. asked(es) = asked(ms)
  <2>. SUFFICES ASSUME last(ms) # 0
                PROVE  asked(es) = asked(ms)
    BY <1>5
  <2>1. last(ms) \in 1 .. Len(ms) /\ es[last(ms)] = ms[last(ms)]
    BY <1>2, <1>6
  <2>2. es[last(ms)].id \notin CallsOf(m)
    <3>. SUFFICES ASSUME ms[last(ms)].id \in CallsOf(m) PROVE FALSE
      BY <2>1
    <3>1. m.role = "ai" /\ ms[last(ms)].id[1] = m.id[1]
      BY CallsBearNumber
    <3>2. ms[last(ms)].id[1] < m.id[1]
      BY <2>1, <3>1
    <3>3. m.id[1] \in Nat
      BY MessageFields
    <3>. QED  BY <3>1, <3>2, <3>3
  <2>3. \A i \in 1 .. Len(ms) + 1 : i \in 1 .. Len(ms) \/ i = Len(ms) + 1
    BY <1>1
  <2>4. \A i \in 1 .. Len(ms) : i \in 1 .. Len(ms) + 1
    BY <1>1
  <2>5. \A i \in 1 .. Len(ms) + 1 :
          (i \in 1 .. Len(ms) /\ ms[last(ms)].id \in CallsOf(ms[i]))
            <=> es[last(es)].id \in CallsOf(es[i])
    BY <1>2, <1>5, <2>1, <2>2, <2>3
  <2>. QED  BY <1>1, <1>2, <1>5, <2>4, <2>5
<1>8. asked(ms) \subseteq 1 .. Len(ms)
  BY <1>1
<1>. HIDE DEF asked
<1>9. CASE last(ms) = 0 \/ asked(ms) = {}
  BY <1>3, <1>5, <1>7, <1>9 DEF es
<1>10. CASE last(ms) # 0 /\ asked(ms) # {}
  <2>1. PICK i : i = CHOOSE j \in asked(ms) : TRUE
    OBVIOUS
  <2>2. i \in asked(ms)
    BY <1>10, <2>1
  <2>3. es[i] = ms[i] /\ es[last(ms)] = ms[last(ms)]
    BY <1>2, <1>6, <1>8, <1>10, <2>2
  <2>4. FailedIn(ms) = IF ms[last(ms)].ok THEN None ELSE ms[i].tools[ms[last(ms)].id[2]]
    BY <1>3, <1>10, <2>1
  <2>5. FailedIn(es) = IF es[last(ms)].ok THEN None ELSE es[i].tools[es[last(ms)].id[2]]
    BY <1>3, <1>5, <1>7, <1>10, <2>1
  <2>. QED  BY <2>3, <2>4, <2>5 DEF es
<1>. QED  BY <1>9, <1>10

\* Taking back a reply does not change what failed last.
LEMMA FailedInTakenBack ==
  ASSUME GuardInv, pc = "after_model"
  PROVE  FailedIn(TakenBack) = FailedIn(messages)
BY ReplyFacts, FailedInAppend

LEMMA RetriesNext ==
  ASSUME GuardInv, RetriesAreOfTheFailedCall, [GuardNext]_guardVars
  PROVE  RetriesAreOfTheFailedCall'
<1>. USE DEF RetriesAreOfTheFailedCall, FailedTool
<1>1. IsTranscript(messages)
  BY DEF GuardInv, GuardTypeOK
<1>2. ASSUME Forget PROVE RetriesAreOfTheFailedCall'
  BY <1>2 DEF Forget
<1>3. ASSUME UNCHANGED trackVars, FailedIn(messages') = FailedIn(messages)
      PROVE  RetriesAreOfTheFailedCall'
  BY <1>3 DEF trackVars
<1>4. CASE BeforeModel
  <2>1. Forget \/ UNCHANGED trackVars
    BY <1>4 DEF BeforeModel, BeforeModelStops, BeforeModelRepairs, BeforeModelPasses,
                BeforeModelFinalizes, ClearInactive, Forget
  <2>2. \/ messages' = messages
        \/ messages' = Append(messages, User(Fresh(messages), "finalize"))
    BY <1>4 DEF BeforeModel, BeforeModelStops, BeforeModelRepairs, BeforeModelPasses,
                BeforeModelFinalizes
  <2>3. FailedIn(messages') = FailedIn(messages)
    <3>1. "finalize" \in Reminders
      BY DEF Reminders
    <3>2. PICK m : m = User(Fresh(messages), "finalize")
      OBVIOUS
    <3>3. m \in Message /\ m.role # "tool" /\ m.role # "ai"
      BY <1>1, <3>1, <3>2, AddUser
    <3>4. FailedIn(Append(messages, m)) = FailedIn(messages)
      BY <1>1, <3>3, FailedInAppend
    <3>. QED  BY <2>2, <3>2, <3>4
  <2>. QED  BY <1>2, <1>3, <2>1, <2>3
<1>5. CASE CallModel
  <2>1. FailedIn(messages') = FailedIn(messages)
    <3>1. PICK m \in Message :
            /\ m.role = "ai" /\ messages' = Append(messages, m)
            /\ \A i \in 1 .. Len(messages) : messages[i].id[1] < m.id[1]
      BY <1>5, CallWrites
    <3>2. m.role # "tool"
      BY <3>1
    <3>. QED  BY <1>1, <3>1, <3>2, FailedInAppend
  <2>. QED  BY <1>3, <1>5, <2>1 DEF CallModel
<1>6. CASE AfterModel
  <2>1. /\ pc = "after_model" /\ IsTranscript(TakenBack)
        /\ FailedIn(TakenBack) = FailedIn(messages)
    BY <1>6, AfterModelIs, ReplyFacts, FailedInTakenBack
  <2>2. FailedIn(messages') = FailedIn(messages)
    <3>1. PICK kept \in {messages, TakenBack} :
             \/ messages' = kept
             \/ \E m : GuardWrites(kept, m) /\ messages' = Append(kept, m)
      BY <1>6, TurnEnds
    <3>2. IsTranscript(kept) /\ FailedIn(kept) = FailedIn(messages)
      BY <1>1, <2>1
    <3>. QED  BY <3>1, <3>2, FailedInAppend DEF GuardWrites
  <2>3. CASE RefuseRetry
    <3>1. /\ rejected' = Reply.tools[1] /\ rejected' = FailedIn(messages)
          /\ retries' = RetryRound /\ rejected' \in Tools
      BY <2>1, <2>3, ReplyFacts DEF RefuseRetry, Repeats
    <3>2. RetryRound # 0
      BY DEF RetryRound, GuardInv, GuardTypeOK
    <3>. QED  BY <2>2, <3>1, <3>2, GuardAssumption
  <2>4. CASE ~RefuseRetry
    <3>1. Forget \/ UNCHANGED trackVars
      BY <1>6, <2>4
         DEF AfterModel, RecoverFromForbiddenCall, RefuseForbiddenCall, BreakForbiddenCalls,
             InvalidToolCall, BreakRetries, AllowTools, EmptyText, FinalAnswer,
             ReuseSerialization, InsistOnAnswer, AnswerForPreamble, NudgeOn, LetEnd, Over,
             Answer
    <3>. QED  BY <1>2, <1>3, <2>2, <3>1
  <2>. QED  BY <2>3, <2>4
<1>7. CASE RunTools \/ TurnRefused \/ Interrupted
  <2>1. rejected = None /\ UNCHANGED trackVars
    BY <1>7 DEF RunTools, TurnRefused, Interrupted, TakenUp, GuardInv, ToolsAreAllowed
  <2>. QED  BY <2>1 DEF trackVars
<1>8. CASE UNCHANGED guardVars
  BY <1>8 DEF guardVars
<1>. QED  BY <1>4, <1>5, <1>6, <1>7, <1>8 DEF GuardNext

\* The call that is being counted is the one whose result stands last in the transcript,
\* and it failed, whatever the guard did in between (after_model).
THEOREM RetriesAreCountedRight == GuardSpec => []RetriesAreOfTheFailedCall
<1>1. GuardInit => RetriesAreOfTheFailedCall
  BY DEF GuardInit, RetriesAreOfTheFailedCall
<1>2. GuardInv /\ RetriesAreOfTheFailedCall /\ [GuardNext]_guardVars
        => RetriesAreOfTheFailedCall'
  BY RetriesNext
<1>. QED  BY <1>1, <1>2, GuardInvariant, PTL DEF GuardSpec

-----------------------------------------------------------------------------
(* The answers that the guard writes.                                      *)

IsShown(m) == m.role = "tool" /\ m.shows # None

\* The last serialization is that of the last message that shows one.
LEMMA LastShown ==
  ASSUME NEW ms, IsTranscript(ms), NEW i \in 1 .. Len(ms), IsShown(ms[i]),
         \A j \in i + 1 .. Len(ms) : ~IsShown(ms[j])
  PROVE  LastSerialization(ms) = ms[i].shows
<1>1. Len(ms) \in Nat
  BY TranscriptFacts
<1>2. LastSerialization(ms) # None
  BY LastSerializationFacts DEF IsShown
<1>3. PICK k \in 1 .. Len(ms) :
        /\ IsShown(ms[k]) /\ LastSerialization(ms) = ms[k].shows
        /\ \A j \in k + 1 .. Len(ms) : ~IsShown(ms[j])
  BY <1>2, LastSerializationFacts DEF IsShown
<1>4. ~(i < k) /\ ~(k < i)
  BY <1>1, <1>3
<1>. QED  BY <1>1, <1>3, <1>4

LEMMA NoneShown ==
  ASSUME NEW ms, IsTranscript(ms), \A i \in 1 .. Len(ms) : ~IsShown(ms[i])
  PROVE  LastSerialization(ms) = None
BY LastSerializationFacts DEF IsShown

LEMMA SerializationAppend ==
  ASSUME NEW ms, IsTranscript(ms), NEW m \in Message, IsTranscript(Append(ms, m))
  PROVE  LastSerialization(Append(ms, m)) = IF IsShown(m) THEN m.shows ELSE LastSerialization(ms)
<1>. DEFINE es == Append(ms, m)
<1>1. /\ Len(ms) \in Nat /\ Len(es) = Len(ms) + 1 /\ es[Len(ms) + 1] = m
      /\ \A i \in 1 .. Len(ms) : es[i] = ms[i]
  BY TranscriptFacts, AppendProperties
<1>. SUFFICES LastSerialization(es) = IF IsShown(m) THEN m.shows ELSE LastSerialization(ms)
  OBVIOUS
<1>. HIDE DEF es
<1>2. IsTranscript(es)
  BY DEF es
<1>3. CASE IsShown(m)
  <2>1. \A j \in (Len(ms) + 1) + 1 .. Len(es) : ~IsShown(es[j])
    BY <1>1
  <2>2. PICK i \in 1 .. Len(es) : i = Len(ms) + 1
    BY <1>1
  <2>. QED  BY <1>1, <1>2, <1>3, <2>1, <2>2, LastShown
<1>4. CASE ~IsShown(m) /\ LastSerialization(ms) = None
  <2>1. \A i \in 1 .. Len(es) : ~IsShown(es[i])
    <3>. TAKE i \in 1 .. Len(es)
    <3>1. CASE i = Len(ms) + 1
      BY <1>1, <1>4, <3>1
    <3>2. CASE i # Len(ms) + 1
      <4>1. i \in 1 .. Len(ms) /\ es[i] = ms[i]
        BY <1>1, <3>2
      <4>. QED  BY <1>4, <4>1, LastSerializationFacts DEF IsShown
    <3>. QED  BY <3>1, <3>2
  <2>. QED  BY <1>2, <1>4, <2>1, NoneShown
<1>5. CASE ~IsShown(m) /\ LastSerialization(ms) # None
  <2>1. PICK k \in 1 .. Len(ms) :
          /\ IsShown(ms[k]) /\ LastSerialization(ms) = ms[k].shows
          /\ \A j \in k + 1 .. Len(ms) : ~IsShown(ms[j])
    BY <1>5, LastSerializationFacts DEF IsShown
  <2>2. \A j \in k + 1 .. Len(es) : ~IsShown(es[j])
    <3>. TAKE j \in k + 1 .. Len(es)
    <3>1. CASE j = Len(ms) + 1
      BY <1>1, <1>5, <3>1
    <3>2. CASE j # Len(ms) + 1
      <4>1. j \in k + 1 .. Len(ms) /\ es[j] = ms[j]
        BY <1>1, <3>2
      <4>. QED  BY <2>1, <4>1
    <3>. QED  BY <3>1, <3>2
  <2>3. k \in 1 .. Len(es) /\ es[k] = ms[k]
    BY <1>1
  <2>. QED  BY <1>2, <1>5, <2>1, <2>2, <2>3, LastShown
<1>. QED  BY <1>3, <1>4, <1>5

\* Calls were made one at a time and none lost its result.
InOrder(ms) ==
  /\ Sound(ms)
  /\ \A i \in DOMAIN ms : ms[i].role = "ai" => Len(ms[i].tools) <= 1

LEMMA InOrderBefore ==
  ASSUME NEW ms \in Seq(Message), NEW es \in Seq(Message), Extends(es, ms), InOrder(es)
  PROVE  InOrder(ms)
<1>1. \A i \in DOMAIN ms : i \in DOMAIN es /\ es[i] = ms[i]
  BY DEF Extends
<1>. QED  BY <1>1, SoundBefore DEF InOrder

LEMMA InOrderAppend ==
  ASSUME NEW ms, IsTranscript(ms), NEW m \in Message, m.role # "tool", InOrder(Append(ms, m))
  PROVE  InOrder(ms)
BY TranscriptFacts, AppendExtends, InOrderBefore

\* A request without results leaves a transcript that is not in order.
LEMMA UnansweredIsUnsound ==
  ASSUME NEW ms, IsTranscript(ms), ms # <<>>, Last(ms).role = "ai", Last(ms).tools # <<>>
  PROVE  ~Sound(ms)
<1>. DEFINE n == Len(ms)
<1>1. /\ n \in Nat /\ n # 0 /\ DOMAIN ms = 1 .. n /\ ms[n] = Last(ms)
      /\ Last(ms) \in Message
  BY FrontTranscript, TranscriptFacts
<1>2. NextMessage(ms, n) = n + 1
  BY <1>1, NextMessageFacts
<1>3. CallsOf(ms[n]) # {}
  <2>1. Last(ms).tools \in Seq(Tools)
    BY <1>1, MessageFields
  <2>2. 1 \in DOMAIN Last(ms).tools
    BY <2>1
  <2>. QED  BY <1>1, <2>2 DEF CallsOf
<1>4. n + 1 .. (n + 1) - 1 = {}
  BY <1>1
<1>. HIDE DEF n
<1>5. Unresolved(ms, n)
  BY <1>2, <1>3, <1>4 DEF Unresolved
<1>6. ~Kept(ms, n)
  BY <1>1, <1>5 DEF Kept
<1>. QED  BY <1>1, <1>6 DEF Sound

\* A turn of a single call has one of the outcomes of that call.
LEMMA OneCall ==
  ASSUME NEW tools \in Seq(Tools), Len(tools) = 1, DataOK,
         NEW order \in Bijection(DOMAIN tools, DOMAIN tools), NEW x \in Executions(tools, order)
  PROVE  \E o \in Outcomes(tools[1], Start(tools).data) :
           x.data = o.data /\ x.outcome[1] = o
<1>1. DOMAIN tools = {1}
  OBVIOUS
<1>2. order \in [DOMAIN tools -> DOMAIN tools] /\ order[1] = 1
  BY <1>1 DEF Bijection, Surjection
<1>3. PICK made : Makes(made, tools, order) /\ Executions(tools, order) = made[1]
  BY <1>2, ExecutionsAreMade
<1>4. made[0] = {Start(tools)} /\ made[1] = UNION {After(tools, y, order[1]) : y \in made[0]}
  BY <1>3 DEF Makes
<1>5. x \in After(tools, Start(tools), 1)
  BY <1>2, <1>3, <1>4
<1>6. PICK o \in Outcomes(tools[1], Start(tools).data) :
        x = [data |-> o.data, outcome |-> [Start(tools).outcome EXCEPT ![1] = o]]
  BY <1>5 DEF After
<1>7. Start(tools).outcome = tools
  BY DEF Start
<1>8. x.data = o.data /\ x.outcome = [tools EXCEPT ![1] = o]
  BY <1>6, <1>7
<1>9. x.outcome[1] = o
  BY <1>1, <1>8
<1>. QED  BY <1>8, <1>9

\* The transcript before the turn of the model that is being dealt with, if one is,
Base == IF pc \in {"after_model", "tools"} THEN TakenBack ELSE messages

\* and what it shows of the dataset.
Current(ms) ==
  /\ serialized \in {None, revision}
  /\ serialized # None /\ ~unseen => LastSerialization(ms) \in {None, version}
  /\ mode = "finalize_only" => serialized = revision
  /\ EndsWith(ms, "tool") /\ IsShown(Last(ms)) => Last(ms).shows = version

ShownIsCurrent ==
  IF pc = "end" THEN AnswerIsCurrent
  ELSE recovered = None /\ (InOrder(Base) => Current(Base))

LEMMA ShownInit ==
  ASSUME GuardInit
  PROVE  ShownIsCurrent
<1>1. /\ pc = "before_model" /\ Base = messages /\ recovered = None /\ IsTranscript(messages)
      /\ version = 0 /\ revision = 0 /\ serialized \in {None, 0} /\ (mode = "finalize_only" => serialized = 0)
      /\ LastSerialization(messages) \in {None, 0}
  BY GuardAssumption DEF GuardInit, Base
<1>2. ASSUME EndsWith(messages, "tool"), IsShown(Last(messages))
      PROVE  Last(messages).shows = 0
  <2>1. PICK n \in 1 .. Len(messages) : n = Len(messages) /\ Last(messages) = messages[n]
    BY <1>1, <1>2, TranscriptFacts DEF EndsWith, Last
  <2>2. LastSerialization(messages) = Last(messages).shows
    <3>1. \A j \in n + 1 .. Len(messages) : ~IsShown(messages[j])
      BY <2>1
    <3>. QED  BY <1>1, <1>2, <2>1, <3>1, LastShown
  <2>3. Last(messages).shows # None
    BY <1>2 DEF IsShown
  <2>. QED  BY <1>1, <2>2, <2>3
<1>. QED  BY <1>1, <1>2 DEF ShownIsCurrent, Current

\* Messages that show nothing, written while the dataset stands, leave it current.
LEMMA CurrentAppend ==
  ASSUME NEW ms, IsTranscript(ms), NEW m \in Message, m.role # "tool",
         IsTranscript(Append(ms, m)), InOrder(ms) => Current(ms), InOrder(Append(ms, m))
  PROVE  Current(Append(ms, m))
<1>1. Current(ms)
  BY InOrderAppend
<1>2. LastSerialization(Append(ms, m)) = LastSerialization(ms)
  BY SerializationAppend DEF IsShown
<1>3. Last(Append(ms, m)) = m
  BY TranscriptFacts, FrontOfAppend
<1>. QED  BY <1>1, <1>2, <1>3 DEF Current, EndsWith

LEMMA ShownBefore ==
  ASSUME GuardInv, ShownIsCurrent, BeforeModel
  PROVE  ShownIsCurrent'
<1>1. /\ pc = "before_model" /\ IsTranscript(messages) /\ recovered = None /\ recovered' = None
      /\ InOrder(messages) => Current(messages)
      /\ UNCHANGED <<mode, dataVars>>
  BY DEF BeforeModel, BeforeModelStops, BeforeModelRepairs, BeforeModelPasses,
         BeforeModelFinalizes, GuardInv, GuardTypeOK, ShownIsCurrent, Base
<1>2. CASE BeforeModelStops
  BY <1>1, <1>2 DEF BeforeModelStops, ShownIsCurrent, AnswerIsCurrent
<1>3. CASE ~BeforeModelStops
  <2>1. /\ pc' = "model"
        /\ \/ messages' = messages
           \/ messages' = Append(messages, User(Fresh(messages), "finalize"))
    BY <1>3 DEF BeforeModel, BeforeModelRepairs, BeforeModelPasses, BeforeModelFinalizes
  <2>2. ASSUME InOrder(messages')
        PROVE  Current(messages')
    <3>1. "finalize" \in Reminders
      BY DEF Reminders
    <3>2. PICK m : m = User(Fresh(messages), "finalize")
      OBVIOUS
    <3>3. m \in Message /\ m.role # "tool" /\ IsTranscript(Append(messages, m))
      BY <1>1, <3>1, <3>2, AddUser
    <3>4. InOrder(Append(messages, m)) => Current(Append(messages, m))
      BY <1>1, <3>3, CurrentAppend
    <3>. QED  BY <1>1, <2>1, <2>2, <3>2, <3>4
  <2>3. Current(messages') => Current(messages)'
    BY <1>1 DEF Current, dataVars
  <2>. QED  BY <1>1, <2>1, <2>2, <2>3 DEF ShownIsCurrent, Base, InOrder
<1>. QED  BY <1>2, <1>3

LEMMA ShownCall ==
  ASSUME GuardInv, ShownIsCurrent, CallModel
  PROVE  ShownIsCurrent'
<1>1. /\ pc = "model" /\ pc' = "after_model" /\ recovered' = recovered
      /\ UNCHANGED <<mode, dataVars>>
  BY DEF CallModel
<1>2. Base' = messages /\ Base = messages
  BY <1>1, GuardInvCall DEF Base, TakenBack
<1>3. Current(messages) => Current(Base)'
  BY <1>1, <1>2 DEF Current, dataVars
<1>4. InOrder(Base)' => InOrder(messages)
  BY <1>2 DEF InOrder
<1>. QED  BY <1>1, <1>2, <1>3, <1>4 DEF ShownIsCurrent

LEMMA ShownAfter ==
  ASSUME GuardInv, ShownIsCurrent, AfterModel
  PROVE  ShownIsCurrent'
<1>1. /\ pc = "after_model" /\ IsTranscript(messages) /\ IsTranscript(TakenBack)
      /\ messages = Append(TakenBack, Reply) /\ Reply \in Message /\ Reply.role = "ai"
      /\ recovered = None /\ (InOrder(TakenBack) => Current(TakenBack))
      /\ GuardInv'
  BY AfterModelIs, ReplyFacts, GuardInvAfter DEF ShownIsCurrent, Base
<1>2. LastSerialization(messages) = LastSerialization(TakenBack)
  BY <1>1, SerializationAppend DEF IsShown
<1>3. /\ InOrder(messages) => InOrder(TakenBack)
      /\ \A kept \in {messages, TakenBack} : InOrder(kept) => Current(kept)
  BY <1>1, InOrderAppend, CurrentAppend
<1>4. ASSUME NEW kept \in {messages, TakenBack}, Answer(kept), UNCHANGED dataVars,
             InOrder(TakenBack) /\ ~unseen /\ LastSerialization(messages) # None
               => LastSerialization(messages) = version
      PROVE  ShownIsCurrent'
  <2>1. PICK m : m = AI(Fresh(kept), <<>>, FALSE, {"completed"})
    OBVIOUS
  <2>2. /\ pc' = "end" /\ messages' = Append(kept, m) /\ recovered' = LastSerialization(messages)
        /\ version' = version /\ unseen' = unseen
    BY <1>4, <2>1 DEF Answer, StopRun, dataVars
  <2>3. m \in Message /\ m.role = "ai"
    BY <1>1, <2>1, AnswerIsWritten DEF GuardWrites, AI
  <2>4. InOrder(messages') => InOrder(TakenBack)
    BY <1>1, <1>3, <2>2, <2>3, InOrderAppend
  <2>5. AnswerIsCurrent'
    BY <1>4, <2>2, <2>4 DEF AnswerIsCurrent, InOrder
  <2>. QED  BY <2>2, <2>5 DEF ShownIsCurrent
<1>5. CASE RecoverFromForbiddenCall \/ ReuseSerialization
  <2>1. /\ mode = "finalize_only" /\ UNCHANGED dataVars
        /\ Answer(TakenBack) \/ Answer(messages)
    BY <1>5 DEF RecoverFromForbiddenCall, ReuseSerialization
  <2>2. ASSUME InOrder(TakenBack), ~unseen, LastSerialization(messages) # None
        PROVE  LastSerialization(messages) = version
    <3>1. serialized = revision /\ revision # None
      BY <1>1, <2>1, <2>2, GuardAssumption DEF Current, GuardInv, GuardTypeOK
    <3>. QED  BY <1>1, <1>2, <2>2, <3>1 DEF Current
  <2>. QED  BY <1>4, <2>1, <2>2
<1>6. CASE AnswerForPreamble
  <2>1. /\ UNCHANGED dataVars /\ Answer(messages)
        /\ EndsWith(TakenBack, "tool") /\ IsShown(Last(TakenBack))
    BY <1>6 DEF AnswerForPreamble, AfterSerialization, ToolResultBefore, IsShown, EndsWith
  <2>2. ASSUME InOrder(TakenBack)
        PROVE  LastSerialization(messages) = version
    <3>1. Last(TakenBack).shows = version
      BY <1>1, <2>1, <2>2 DEF Current
    <3>2. PICK n \in 1 .. Len(TakenBack) : n = Len(TakenBack) /\ Last(TakenBack) = TakenBack[n]
      BY <1>1, <2>1, TranscriptFacts DEF EndsWith, Last
    <3>3. \A j \in n + 1 .. Len(TakenBack) : ~IsShown(TakenBack[j])
      BY <3>2
    <3>4. LastSerialization(TakenBack) = TakenBack[n].shows
      BY <1>1, <2>1, <3>2, <3>3, LastShown
    <3>. QED  BY <1>2, <3>1, <3>2, <3>4
  <2>. QED  BY <1>4, <2>1, <2>2
<1>7. CASE ~(RecoverFromForbiddenCall \/ ReuseSerialization \/ AnswerForPreamble)
  <2>1. /\ recovered' = None /\ UNCHANGED dataVars
        /\ pc' \in {"end", "tools", "model"} /\ (pc' # "end" => mode' = mode)
        /\ (pc' = "tools" => messages' = messages)
    BY <1>1, <1>7
       DEF AfterModel, RefuseForbiddenCall, BreakForbiddenCalls, InvalidToolCall, RefuseRetry,
           BreakRetries, AllowTools, EmptyText, FinalAnswer, InsistOnAnswer, NudgeOn, LetEnd,
           Over, StopRun, Reprompt, RepromptRetry
  <2>2. CASE pc' = "end"
    BY <2>1, <2>2 DEF ShownIsCurrent, AnswerIsCurrent
  <2>3. CASE pc' = "tools"
    <3>1. Base' = TakenBack
      BY <2>1, <2>3 DEF Base, TakenBack
    <3>2. InOrder(Base)' => InOrder(TakenBack)
      BY <3>1 DEF InOrder
    <3>3. Current(TakenBack) => Current(Base)'
      BY <2>1, <2>3, <3>1 DEF Current, dataVars
    <3>. QED  BY <1>1, <2>1, <2>3, <3>2, <3>3 DEF ShownIsCurrent
  <2>4. CASE pc' = "model"
    <3>1. PICK kept \in {messages, TakenBack} :
             \/ messages' = kept
             \/ \E m : GuardWrites(kept, m) /\ messages' = Append(kept, m)
      BY TurnEnds
    <3>2. InOrder(messages') => Current(messages')
      <4>1. IsTranscript(kept) /\ (InOrder(kept) => Current(kept)) /\ IsTranscript(messages')
        BY <1>1, <1>3 DEF GuardInv, GuardTypeOK
      <4>2. ASSUME NEW m, GuardWrites(kept, m), messages' = Append(kept, m), InOrder(messages')
            PROVE  Current(messages')
        <5>1. m \in Message /\ m.role # "tool" /\ IsTranscript(Append(kept, m))
              /\ InOrder(Append(kept, m))
          BY <4>1, <4>2 DEF GuardWrites
        <5>2. Current(Append(kept, m))
          BY <4>1, <5>1, CurrentAppend
        <5>. QED  BY <4>2, <5>2
      <4>. QED  BY <3>1, <4>1, <4>2
    <3>3. Base' = messages'
      BY <2>4 DEF Base
    <3>4. InOrder(Base)' => InOrder(messages')
      BY <3>3 DEF InOrder
    <3>5. Current(messages') => Current(Base)'
      BY <2>1, <2>4, <3>3 DEF Current, dataVars
    <3>. QED  BY <2>1, <2>4, <3>2, <3>4, <3>5 DEF ShownIsCurrent
  <2>. QED  BY <2>1, <2>2, <2>3, <2>4
<1>. QED  BY <1>5, <1>6, <1>7

LEMMA TurnExtends ==
  ASSUME NEW ms, IsTranscript(ms), ms # <<>>, Last(ms).role = "ai",
         NEW es \in Seq(Message), Len(ms) <= Len(es),
         \A i \in 1 .. Len(ms) : es[i] = ms[i]
  PROVE  Extends(es, Front(ms)) /\ Len(ms) \in DOMAIN es /\ es[Len(ms)] = Last(ms)
<1>1. /\ Len(ms) \in Nat /\ Len(Front(ms)) = Len(ms) - 1 /\ Len(ms) - 1 \in Nat
      /\ \A i \in 1 .. Len(ms) - 1 : Front(ms)[i] = ms[i]
      /\ Last(ms) = ms[Len(ms)]
  BY FrontTranscript, TranscriptFacts
<1>2. Len(es) \in Nat /\ DOMAIN es = 1 .. Len(es)
  OBVIOUS
<1>3. Len(ms) \in 1 .. Len(ms) /\ Len(ms) \in 1 .. Len(es)
  BY <1>1, <1>2
<1>4. es[Len(ms)] = Last(ms)
  BY <1>1, <1>3
<1>5. \A i \in 1 .. Len(ms) - 1 : es[i] = Front(ms)[i]
  <2>1. \A i \in 1 .. Len(ms) - 1 : i \in 1 .. Len(ms)
    BY <1>1
  <2>. QED  BY <1>1, <2>1
<1>6. Len(Front(ms)) + 1 = Len(ms) /\ Len(Front(ms)) < Len(es)
  BY <1>1, <1>2
<1>. QED  BY <1>1, <1>2, <1>3, <1>4, <1>5, <1>6 DEF Extends

LEMMA ShownTools ==
  ASSUME GuardInv, ShownIsCurrent, RunTools
  PROVE  ShownIsCurrent'
<1>1. /\ pc = "tools" /\ mode = "normal" /\ IsTranscript(messages) /\ messages # <<>>
      /\ Reply \in Message /\ Reply.role = "ai" /\ Reply.tools \in Seq(Tools)
      /\ Reply.tools # <<>> /\ IsTranscript(TakenBack) /\ messages = Append(TakenBack, Reply)
      /\ recovered = None /\ (InOrder(TakenBack) => Current(TakenBack)) /\ DataOK
  BY ReplyFacts DEF RunTools, GuardInv, GuardTypeOK, ToolsAreAllowed, ShownIsCurrent, Base,
                    DataOK
<1>2. pc' = "before_model" /\ recovered' = None /\ IsTranscript(messages')
  BY <1>1, GuardInvTools DEF RunTools, GuardInv, GuardTypeOK
<1>. SUFFICES ASSUME InOrder(messages')
              PROVE  Current(messages)'
  BY <1>2 DEF ShownIsCurrent, Base, InOrder
<1>3. PICK x, rs :
        /\ ToolsWrite(x, rs)
        /\ \E order \in Bijection(DOMAIN Reply.tools, DOMAIN Reply.tools) :
             x \in Executions(Reply.tools, order)
  BY RunToolsWrites
<1>4. /\ Len(messages) \in Nat /\ Len(messages) = Len(TakenBack) + 1
      /\ messages[Len(messages)] = Reply
      /\ \A i \in 1 .. Len(TakenBack) : messages[i] = TakenBack[i]
      /\ TakenBack \in Seq(Message) /\ messages' \in Seq(Message)
      /\ Len(Reply.tools) \in Nat /\ Len(Reply.tools) # 0
  BY <1>1, <1>2, TranscriptFacts, AppendProperties
<1>5. /\ Extends(messages', TakenBack) /\ Len(messages) \in DOMAIN messages'
      /\ messages'[Len(messages)] = Reply
  <2>1. PICK es, k : es = messages' /\ k = Len(rs)
    OBVIOUS
  <2>2. /\ es \in Seq(Message) /\ k \in Nat /\ Len(es) = Len(messages) + k
        /\ \A i \in 1 .. Len(messages) : es[i] = messages[i]
    BY <1>3, <1>4, <2>1 DEF ToolsWrite
  <2>3. Len(messages) <= Len(es)
    BY <1>4, <2>2
  <2>. QED  BY <1>1, <2>1, <2>2, <2>3, TurnExtends DEF TakenBack, Reply
<1>6. Current(TakenBack) /\ Len(Reply.tools) = 1
  <2>1. InOrder(TakenBack)
    BY <1>4, <1>5, InOrderBefore
  <2>2. Len(Reply.tools) <= 1
    BY <1>1, <1>5 DEF InOrder
  <2>3. PICK tools, k : tools = Reply.tools /\ k = Len(tools) /\ k # 0 /\ k \in Nat
    BY <1>4
  <2>4. k <= 1
    BY <2>2, <2>3
  <2>5. k = 1
    <3>1. k \in Nat /\ k # 0
      BY <2>3
    <3>. QED  BY <2>4, <3>1
  <2>. QED  BY <1>1, <2>1, <2>3, <2>5
<1>7. PICK o \in Outcomes(Reply.tools[1], Start(Reply.tools).data) :
        x.data = o.data /\ x.outcome[1] = o
  BY <1>1, <1>3, <1>6, OneCall
<1>8. PICK r : /\ r = rs[1] /\ r.role = "tool" /\ r.shows = o.shows
               /\ r \in Message /\ messages' = Append(messages, r)
  <2>1. /\ rs \in Seq(ToolMessage) /\ Len(rs) = 1 /\ rs[1].role = "tool"
        /\ rs[1].shows = x.outcome[1].shows
    BY <1>3, <1>6 DEF ToolsWrite
  <2>2. rs[1] \in Message
    <3>1. PICK n \in 1 .. Len(rs) : n = 1
      BY <2>1
    <3>2. rs[n] \in ToolMessage
      BY <2>1, ElementOfSeq
    <3>. QED  BY <3>1, <3>2 DEF Message
  <2>3. /\ messages \in Seq(Message) /\ Len(Append(messages, rs[1])) = Len(messages')
        /\ \A i \in 1 .. Len(messages') : messages'[i] = Append(messages, rs[1])[i]
    <3>1. /\ messages \in Seq(Message) /\ Len(messages') = Len(messages) + 1
          /\ \A i \in 1 .. Len(messages) : messages'[i] = messages[i]
          /\ messages'[Len(messages) + 1] = rs[1]
      BY <1>1, <1>3, <1>6, TranscriptFacts DEF ToolsWrite
    <3>2. /\ Len(Append(messages, rs[1])) = Len(messages) + 1
          /\ Append(messages, rs[1])[Len(messages) + 1] = rs[1]
          /\ \A i \in 1 .. Len(messages) : Append(messages, rs[1])[i] = messages[i]
      BY <3>1, <2>2, AppendProperties
    <3>3. \A i \in 1 .. Len(messages) + 1 : i \in 1 .. Len(messages) \/ i = Len(messages) + 1
      BY <1>4
    <3>. QED  BY <3>1, <3>2, <3>3
  <2>4. messages' = Append(messages, rs[1])
    BY <1>4, <2>2, <2>3, SeqEqual, AppendProperties
  <2>. QED  BY <1>7, <2>1, <2>2, <2>4
<1>9. /\ Last(messages') = r
      /\ LastSerialization(messages') = IF IsShown(r) THEN r.shows
                                        ELSE LastSerialization(TakenBack)
  <2>1. LastSerialization(messages) = LastSerialization(TakenBack)
    BY <1>1, SerializationAppend DEF IsShown
  <2>. QED  BY <1>1, <1>2, <1>8, <2>1, SerializationAppend, FrontOfAppend, TranscriptFacts
<1>10. /\ Leaves(o.data) /\ (IsShown(r) <=> o.shows # None)
       /\ mode' = IF o.data.finals = 1 THEN "finalize_only" ELSE "normal"
  BY <1>1, <1>3, <1>7, <1>8 DEF ToolsWrite, IsShown
<1>11. /\ version \in Nat /\ revision \in Nat /\ serialized \in {None, revision}
       /\ serialized # None /\ ~unseen => LastSerialization(TakenBack) \in {None, version}
  BY <1>1, <1>6 DEF Current, DataOK
<1>. DEFINE d == Start(Reply.tools).data
<1>12. /\ d.version = version /\ d.revision = revision /\ d.serialized = serialized
       /\ d.unseen = unseen /\ d.finals = 0 /\ d \in Data
  BY <1>1 DEF Start, Data, DataOK
<1>. HIDE DEF d
<1>13. CASE Reply.tools[1] = "serialize_dataset" /\ serialized = revision
  <2>1. o = Outcome(FALSE, None, [d EXCEPT !.finals = @ + 1])
    BY <1>7, <1>12, <1>13 DEF Outcomes, d
  <2>2. o.shows = None /\ o.data = [d EXCEPT !.finals = @ + 1]
    BY <2>1 DEF Outcome
  <2>3. UNCHANGED dataVars
    BY <1>10, <1>12, <2>2 DEF Leaves, Data, dataVars
  <2>. QED  BY <1>9, <1>10, <1>11, <1>13, <2>2, <2>3 DEF Current, dataVars
<1>14. CASE Reply.tools[1] = "serialize_dataset" /\ serialized # revision
  <2>1. o = Outcome(TRUE, version, [d EXCEPT !.serialized = d.revision, !.unseen = FALSE])
    BY <1>7, <1>12, <1>14 DEF Outcomes, d
  <2>2. o.shows = version /\ o.data = [d EXCEPT !.serialized = d.revision, !.unseen = FALSE]
    BY <2>1 DEF Outcome
  <2>3. /\ version' = version /\ revision' = revision /\ serialized' = revision
        /\ mode' = "normal"
    BY <1>10, <1>12, <2>2 DEF Leaves, Data
  <2>4. IsShown(r) /\ r.shows = version
    BY <1>8, <1>10, <1>11, <2>2, GuardAssumption
  <2>. QED  BY <1>9, <2>3, <2>4 DEF Current
<1>15. CASE Reply.tools[1] # "serialize_dataset"
  <2>1. o.shows = None /\ (\/ o.data = d
                           \/ o.data = [d EXCEPT !.version = @ + 1, !.unseen = TRUE]
                           \/ o.data = [d EXCEPT !.version = @ + 1, !.revision = @ + 1,
                                                 !.serialized = None])
    <3>1. \/ o = Outcome(FALSE, None, d)
          \/ o = Outcome(TRUE, None, d)
          \/ o = Outcome(FALSE, None, [d EXCEPT !.version = @ + 1, !.unseen = TRUE])
          \/ o = Outcome(TRUE, None, [d EXCEPT !.version = @ + 1, !.revision = @ + 1,
                                               !.serialized = None])
      BY <1>7, <1>15 DEF Outcomes, d
    <3>. QED  BY <3>1 DEF Outcome
  <2>2. mode' = "normal"
    <3>1. d.finals = 0 /\ d \in Data
      BY <1>12
    <3>2. o.data.finals = 0
      <4>1. [d EXCEPT !.version = @ + 1, !.unseen = TRUE].finals = 0
        BY <3>1 DEF Data
      <4>2. [d EXCEPT !.version = @ + 1, !.revision = @ + 1, !.serialized = None].finals = 0
        BY <3>1 DEF Data
      <4>. QED  BY <2>1, <3>1, <4>1, <4>2
    <3>. QED  BY <1>10, <3>2
  <2>3. CASE o.data = d
    <3>1. UNCHANGED dataVars
      BY <1>10, <1>12, <2>3 DEF Leaves, dataVars
    <3>. QED  BY <1>9, <1>10, <1>11, <2>1, <2>2, <3>1 DEF Current, dataVars
  <2>4. CASE o.data = [d EXCEPT !.version = @ + 1, !.unseen = TRUE]
    <3>1. unseen' = TRUE /\ serialized' = serialized /\ revision' = revision
      BY <1>10, <1>12, <2>4 DEF Leaves, Data
    <3>. QED  BY <1>9, <1>10, <1>11, <2>1, <2>2, <3>1 DEF Current
  <2>5. CASE o.data = [d EXCEPT !.version = @ + 1, !.revision = @ + 1, !.serialized = None]
    <3>1. serialized' = None
      BY <1>10, <1>12, <2>5 DEF Leaves, Data
    <3>. QED  BY <1>9, <1>10, <2>1, <2>2, <3>1 DEF Current
  <2>. QED  BY <2>1, <2>3, <2>4, <2>5
<1>. QED  BY <1>13, <1>14, <1>15

\* A turn without answers is one of which nothing is claimed.
LEMMA ShownInterrupted ==
  ASSUME GuardInv, ShownIsCurrent, TurnRefused \/ Interrupted
  PROVE  ShownIsCurrent'
<1>1. /\ pc = "tools" /\ IsTranscript(messages) /\ messages # <<>> /\ Last(messages).role = "ai"
      /\ Last(messages).tools # <<>> /\ recovered = None
  BY ReplyFacts DEF TurnRefused, Interrupted, GuardInv, GuardTypeOK, ToolsAreAllowed, ShownIsCurrent, Reply
<1>2. PICK m : m = User(Fresh(messages), "task")
  OBVIOUS
<1>3. m \in Message /\ m.role # "tool" /\ messages' = Append(messages, m)
  BY <1>1, <1>2, AddUser DEF TurnRefused, Interrupted, TakenUp
<1>4. ~InOrder(messages)
  BY <1>1, UnansweredIsUnsound DEF InOrder
<1>5. ~InOrder(messages')
  BY <1>1, <1>3, <1>4, InOrderAppend
<1>6. pc' = "before_model" /\ recovered' = None
  BY <1>1 DEF TurnRefused, Interrupted, TakenUp
<1>. QED  BY <1>5, <1>6 DEF ShownIsCurrent, Base, InOrder

LEMMA ShownNext ==
  ASSUME GuardInv, ShownIsCurrent, [GuardNext]_guardVars
  PROVE  ShownIsCurrent'
<1>1. CASE UNCHANGED guardVars
  BY <1>1 DEF guardVars, dataVars, ShownIsCurrent, AnswerIsCurrent, Base, TakenBack, InOrder, Current
<1>. QED  BY <1>1, ShownBefore, ShownCall, ShownAfter, ShownTools, ShownInterrupted DEF GuardNext

\* An answer that the guard writes in place of the model shows the dataset as it is, if
\* calls were made one at a time, none lost its result, and none failed after it had
\* changed the dataset since it was last serialized (after_model).
THEOREM AnswersAreCurrent == GuardSpec => []AnswerIsCurrent
<1>1. GuardInit => ShownIsCurrent
  BY ShownInit
<1>2. GuardInv /\ ShownIsCurrent /\ [GuardNext]_guardVars => ShownIsCurrent'
  BY ShownNext
<1>3. ShownIsCurrent => AnswerIsCurrent
  BY DEF ShownIsCurrent, AnswerIsCurrent
<1>. QED  BY <1>1, <1>2, <1>3, GuardInvariant, PTL DEF GuardSpec
-----------------------------------------------------------------------------
(* A stubborn model does not keep the run going.                           *)

\* The turns that the guard takes back before it ends the run.
RefusalsLeft ==
  IF mode = "finalize_only" THEN MaxForbiddenRounds - rounds ELSE MaxRejectedRounds - retries

\* A bound on the steps that are left to a run whose model is stubborn.
StubbornSteps ==
  CASE pc = "tools"        -> 2 * MaxForbiddenRounds + 3
    [] pc = "before_model" -> 2 * MaxForbiddenRounds + 2
    [] pc = "model"        -> 2 * RefusalsLeft + 1
    [] pc = "after_model"  -> 2 * RefusalsLeft
    [] pc = "end"          -> 0
MostSteps == 2 * MaxForbiddenRounds + 3

LEMMA RefusalsBounded ==
  ASSUME GuardTypeOK
  PROVE  /\ RefusalsLeft \in 1 .. MaxForbiddenRounds
         /\ StubbornSteps \in 0 .. MostSteps
<1>1. RefusalsLeft \in 1 .. MaxForbiddenRounds
  BY DEF GuardTypeOK, RefusalsLeft, MaxForbiddenRounds, MaxRejectedRounds
<1>2. PICK n \in 1 .. 5 : n = RefusalsLeft
  BY <1>1 DEF MaxForbiddenRounds
<1>3. StubbornSteps \in 0 .. 13
  BY <1>2 DEF GuardTypeOK, StubbornSteps, MaxForbiddenRounds
<1>. QED  BY <1>1, <1>3 DEF MostSteps, MaxForbiddenRounds

LEMMA RefusalsBoundedNext ==
  ASSUME GuardTypeOK'
  PROVE  RefusalsLeft' \in 1 .. MaxForbiddenRounds
<1>1. rounds' \in 0 .. 4 /\ retries' \in 0 .. 2
  BY DEF GuardTypeOK, MaxForbiddenRounds, MaxRejectedRounds
<1>2. PICK n \in 0 .. 4, k \in 0 .. 2 : n = rounds' /\ k = retries'
  BY <1>1
<1>3. RefusalsLeft' = 5 - n \/ RefusalsLeft' = 3 - k
  BY <1>2 DEF RefusalsLeft, MaxForbiddenRounds, MaxRejectedRounds
<1>4. 5 - n \in 1 .. 5 /\ 3 - k \in 1 .. 5
  <2>1. /\ n \in Int /\ 0 <= n /\ n <= 4
        /\ k \in Int /\ 0 <= k /\ k <= 2
    OBVIOUS
  <2>2. 1 <= 5 - n /\ 5 - n <= 5 /\ 5 - n \in Int
    BY <2>1
  <2>3. 1 <= 3 - k /\ 3 - k <= 5 /\ 3 - k \in Int
    BY <2>1
  <2>. QED  BY <2>2, <2>3
<1>. QED  BY <1>3, <1>4 DEF MaxForbiddenRounds

\* A turn taken back is one that is not taken back again.
LEMMA RefusalCounts ==
  ASSUME GuardInv, RetriesAreOfTheFailedCall, pc = "after_model",
         GuardTypeOK', RefuseForbiddenCall \/ RefuseRetry
  PROVE  StubbornSteps' < StubbornSteps
<1>1. RefusalsLeft' = RefusalsLeft - 1
  <2>1. CASE RefuseForbiddenCall
    BY <2>1 DEF RefuseForbiddenCall, RefusalsLeft, GuardInv, GuardTypeOK, MaxForbiddenRounds
  <2>2. CASE RefuseRetry
    <3>1. Reply.tools[1] \in Tools /\ Reply.tools[1] = FailedTool
      BY <2>2, ReplyFacts DEF RefuseRetry, Repeats
    <3>2. RetryRound = retries + 1
      <4>1. CASE rejected = None
        BY <3>1, <4>1, GuardAssumption DEF RetriesAreOfTheFailedCall, RetryRound
      <4>2. CASE rejected # None
        BY <3>1, <4>2 DEF RetriesAreOfTheFailedCall, RetryRound
      <4>. QED  BY <4>1, <4>2
    <3>3. mode = "normal" /\ mode' = mode /\ retries' = retries + 1
      BY <2>2, <3>2 DEF RefuseRetry, AsksInNormal
    <3>. QED  BY <3>3 DEF RefusalsLeft, GuardInv, GuardTypeOK, MaxRejectedRounds
  <2>. QED  BY <2>1, <2>2
<1>2. pc' = "model"
  BY DEF RefuseForbiddenCall, RefuseRetry, Reprompt, RepromptRetry
<1>3. PICK n \in 1 .. 5, m \in 1 .. 5 : n = RefusalsLeft /\ m = RefusalsLeft' /\ m = n - 1
  <2>1. RefusalsLeft \in 1 .. 5
    BY RefusalsBounded DEF GuardInv, MaxForbiddenRounds
  <2>2. RefusalsLeft' \in 1 .. 5
    BY RefusalsBoundedNext DEF MaxForbiddenRounds
  <2>. QED  BY <1>1, <2>1, <2>2
<1>4. StubbornSteps = 2 * n
  BY <1>3 DEF StubbornSteps
<1>5. StubbornSteps' = 2 * m + 1
  BY <1>2, <1>3 DEF StubbornSteps
<1>. QED  BY <1>3, <1>4, <1>5

\* A stubborn turn is taken back or ends the run.
LEMMA StubbornTurns ==
  ASSUME GuardInv, Stubborn, AfterModel
  PROVE  RefuseForbiddenCall \/ RefuseRetry \/ pc' = "end"
<1>1. pc = "after_model" /\ Reply \in Message /\ Reply.role = "ai" /\ Reply.tools \in Seq(Tools)
  BY AfterModelIs, ReplyFacts
<1>2. CASE mode = "finalize_only" /\ AsksForTools(Reply)
  BY <1>2 DEF AfterModel, RecoverFromForbiddenCall, Answer, BreakForbiddenCalls, StopRun,
     InvalidToolCall, RefuseRetry, BreakRetries, AllowTools, AsksInNormal, EmptyText, FinalAnswer,
     ReuseSerialization, InsistOnAnswer, AnswerForPreamble, NudgeOn, LetEnd, WritesInNormal, Writes
<1>3. CASE mode = "normal" /\ ~Reply.malformed /\ Repeats
  <2>1. Reply.tools # <<>>
    BY <1>3 DEF Repeats
  <2>2. AsksForTools(Reply)
    BY <2>1 DEF AsksForTools
  <2>. QED  BY <1>3, <2>2 DEF AfterModel, RecoverFromForbiddenCall, RefuseForbiddenCall,
     BreakForbiddenCalls, StopRun, InvalidToolCall, BreakRetries, AllowTools,
     EmptyText, FinalAnswer, ReuseSerialization, InsistOnAnswer, AnswerForPreamble, NudgeOn,
     LetEnd, WritesInNormal, Writes
<1>. QED  BY <1>1, <1>2, <1>3 DEF Stubborn

LEMMA StubbornStepsFall ==
  ASSUME GuardInv, RetriesAreOfTheFailedCall, GuardInv', Stubborn, GuardNext
  PROVE  StubbornSteps' < StubbornSteps
<1>1. GuardTypeOK /\ GuardTypeOK'
  BY DEF GuardInv
<1>2. PICK n \in 1 .. 5, m \in 1 .. 5 : n = RefusalsLeft /\ m = RefusalsLeft'
  BY <1>1, RefusalsBounded, RefusalsBoundedNext DEF MaxForbiddenRounds
<1>3. CASE BeforeModel
  <2>1. pc = "before_model" /\ pc' \in {"model", "end"}
    BY <1>3 DEF BeforeModel, BeforeModelStops, BeforeModelRepairs, BeforeModelPasses,
                BeforeModelFinalizes
  <2>2. StubbornSteps = 12
    BY <2>1 DEF StubbornSteps, MaxForbiddenRounds
  <2>3. StubbornSteps' \in {2 * m + 1, 0}
    BY <1>2, <2>1 DEF StubbornSteps
  <2>. QED  BY <2>2, <2>3
<1>4. CASE CallModel
  <2>1. /\ pc = "model" /\ pc' = "after_model" /\ UNCHANGED <<mode, rounds, retries>>
    BY <1>4 DEF CallModel, trackVars
  <2>2. m = n
    BY <1>2, <2>1 DEF RefusalsLeft
  <2>3. StubbornSteps = 2 * n + 1
    BY <1>2, <2>1 DEF StubbornSteps
  <2>4. StubbornSteps' = 2 * m
    BY <1>2, <2>1 DEF StubbornSteps
  <2>. QED  BY <2>2, <2>3, <2>4
<1>5. CASE AfterModel
  <2>1. pc = "after_model"
    BY <1>5, AfterModelIs
  <2>2. CASE pc' = "end"
    <3>1. StubbornSteps' = 0
      BY <2>2 DEF StubbornSteps
    <3>2. StubbornSteps = 2 * n
      BY <1>2, <2>1 DEF StubbornSteps
    <3>. QED  BY <3>1, <3>2
  <2>. QED  BY <1>1, <1>5, <2>1, <2>2, StubbornTurns, RefusalCounts
<1>6. CASE RunTools \/ TurnRefused \/ Interrupted
  <2>1. pc = "tools" /\ pc' = "before_model"
    BY <1>6 DEF RunTools, TurnRefused, Interrupted, TakenUp
  <2>. QED  BY <2>1 DEF StubbornSteps, MaxForbiddenRounds
<1>. QED  BY <1>3, <1>4, <1>5, <1>6 DEF GuardNext

\* While the model does nothing but ask for tools that are forbidden, or repeat the call
\* that just failed, every step brings the run nearer to its end, and thirteen of them
\* end it: the circuit breakers of after_model count what they must.
THEOREM StubbornRunsRunOut ==
  GuardSpec => /\ [](StubbornSteps \in 0 .. MostSteps)
               /\ [][Stubborn => StubbornSteps' < StubbornSteps]_guardVars
<1>1. GuardInv => StubbornSteps \in 0 .. MostSteps
  BY RefusalsBounded DEF GuardInv
<1>2. GuardInv /\ RetriesAreOfTheFailedCall /\ GuardInv' /\ [GuardNext]_guardVars
        => [Stubborn => StubbornSteps' < StubbornSteps]_guardVars
  BY StubbornStepsFall
<1>. QED  BY <1>1, <1>2, GuardInvariant, RetriesAreCountedRight, PTL DEF GuardSpec
=============================================================================
