----------------------- MODULE ConversationTurnsProofs -----------------------
(***************************************************************************)
(* TurnsSafe, ApprovedOnce and ConversationKept of ConversationTurns, for  *)
(* any number of conversations, processes, clients, turns and approvals,   *)
(* and for every trigger and number of recent messages.                    *)
(***************************************************************************)
EXTENDS ConversationTurnsProperties, SequenceTheorems, WellFoundedInduction, TLAPS

-----------------------------------------------------------------------------
(* Sequences of messages *)

LEMMA LeastIndex ==
    ASSUME NEW S \in SUBSET Nat, S # {}
    PROVE  \E n \in S : \A m \in S : n <= m
<1> DEFINE R == OpToRel(<, Nat)
<1>1. \A x, y \in Nat : <<x, y>> \in R <=> x < y
    BY DEF OpToRel
<1>2. IsWellFoundedOn(R, Nat)
    BY NatLessThanWellFounded
<1> HIDE DEF R
<1>3. PICK x \in S : \A y \in S : ~(<<y, x>> \in R)
    BY <1>2, WFMin
<1>4. x \in Nat /\ \A y \in S : y \in Nat /\ ~(y < x)
    BY <1>1, <1>3
<1> QED BY <1>4

LEMMA LastIndex ==
    ASSUME NEW N \in Nat, NEW S \in SUBSET (1..N), S # {}
    PROVE  \E n \in S : \A m \in S : m <= n
<1> DEFINE Mirror == {k \in 0..N : N - k \in S}
<1>1. PICK e \in S : TRUE
    OBVIOUS
<1>2. N - e \in Mirror /\ Mirror \in SUBSET Nat
    BY <1>1
<1>3. PICK k \in Mirror : \A j \in Mirror : k <= j
    BY <1>2, LeastIndex
<1>4. N - k \in S
    OBVIOUS
<1>5. ASSUME NEW m \in S PROVE m <= N - k
  <2>1. m \in 1..N /\ k \in 0..N
    OBVIOUS
  <2>2. N - (N - m) = m /\ N - m \in 0..N
    BY <2>1
  <2>3. N - m \in Mirror
    BY <2>2
  <2>4. k <= N - m
    BY <1>3, <2>3
  <2> QED BY <2>1, <2>4
<1> QED BY <1>4, <1>5

\* The position a turn's message is found at holds such a message.
LEMMA Position ==
    ASSUME NEW s \in Conversations, NEW role, NEW t, Positions(s, role, t) # {}
    PROVE  /\ PositionOf(s, role, t) \in DOMAIN s.messages
           /\ Says(s.messages[PositionOf(s, role, t)], role, t)
<1> DEFINE P == Positions(s, role, t)
           last == CHOOSE k \in P : \A j \in P : j <= k
           Same == {k \in DOMAIN s.messages : s.messages[k] = s.messages[last]}
<1>1. s.messages \in Seq(Messages)
    BY DEF Conversations
<1>2. P \in SUBSET (1..Len(s.messages)) /\ Len(s.messages) \in Nat
    BY <1>1 DEF Positions
<1>3. \E k \in P : \A j \in P : j <= k
    BY <1>2, LastIndex
<1>4. last \in P
    BY <1>3
<1> HIDE DEF last
<1>5. last \in DOMAIN s.messages /\ Says(s.messages[last], role, t)
    BY <1>4 DEF Positions
<1>6. Same \in SUBSET Nat /\ Same # {}
    BY <1>1, <1>5
<1>7. PICK k \in Same : \A j \in Same : k <= j
    BY <1>6, LeastIndex
<1>8. k \in DOMAIN s.messages /\ k \in 1..Len(s.messages) /\ s.messages[k] = s.messages[last]
    BY <1>1, <1>7
<1>9. ASSUME NEW j \in 1..(k - 1) PROVE s.messages[j] # s.messages[last]
  <2>1. j \in DOMAIN s.messages /\ j < k
    BY <1>1, <1>8
  <2>2. j \in Nat /\ k \in Nat
    BY <1>8
  <2> QED BY <1>7, <2>1, <2>2
<1> DEFINE q == CHOOSE i \in DOMAIN s.messages :
                   /\ s.messages[i] = s.messages[last]
                   /\ \A j \in 1..(i - 1) : s.messages[j] # s.messages[last]
<1>10. q \in DOMAIN s.messages /\ s.messages[q] = s.messages[last]
    BY <1>8, <1>9
<1>11. PositionOf(s, role, t) = q
    BY DEF PositionOf, last
<1> HIDE DEF q
<1> QED BY <1>5, <1>10, <1>11 DEF Says

-----------------------------------------------------------------------------
(* What the operations make of a conversation *)

\* A reply made without an endpoint is only ever the last message.
Tidy(s) == \A k \in 1..(Len(s.messages) - 1) : Prompted(s.messages[k])

\* Such a reply is all that a turn leaves out of the messages.
LEMMA Context ==
    ASSUME NEW s \in Conversations, Tidy(s)
    PROVE  LET L == Len(s.messages) IN
           \E l \in {L, L - 1} :
              /\ l \in Nat
              /\ PromptContext(s) = SubSeq(s.messages, 1, l)
              /\ l # L => ~Prompted(s.messages[L])
              /\ l # 0 => Prompted(s.messages[l])
<1> DEFINE M == s.messages
           L == Len(M)
           F(f) == [k \in 0..L |->
                      IF k = 0 THEN << >>
                      ELSE IF Prompted(M[k]) THEN Append(f[k - 1], M[k])
                      ELSE f[k - 1]]
           kept == CHOOSE f : f = F(f)
           l == IF L = 0 \/ Prompted(M[L]) THEN L ELSE L - 1
           g == [k \in 0..L |-> SubSeq(M, 1, IF k = L THEN l ELSE k)]
<1>1. M \in Seq(Messages) /\ L \in Nat
    BY DEF Conversations
<1>2. l \in {L, L - 1} /\ l \in Nat /\ l <= L
    BY <1>1
<1>3. \A k \in 1..L : Append(SubSeq(M, 1, k - 1), M[k]) = SubSeq(M, 1, k)
  <2> SUFFICES ASSUME NEW k \in 1..L PROVE Append(SubSeq(M, 1, k - 1), M[k]) = SubSeq(M, 1, k)
    OBVIOUS
  <2>1. k \in Nat /\ k - 1 \in 0..L /\ M[k] \in Messages
    BY <1>1
  <2> HIDE DEF M, L
  <2>2. SubSeq(M, 1, k - 1) \in Seq(Messages) /\ SubSeq(M, 1, k) \in Seq(Messages)
    BY <1>1, <2>1, SubSeqProperties DEF L
  <2> QED BY <1>1, <2>1, <2>2 DEF L
<1>4. g = F(g)
  <2> SUFFICES ASSUME NEW k \in 0..L PROVE g[k] = F(g)[k]
    OBVIOUS
  <2>1. CASE k = 0
    <3>1. l = 0 \/ L # 0
      OBVIOUS
    <3>2. 0 \in 0..L /\ g[0] = SubSeq(M, 1, 0)
      BY <1>1, <3>1
    <3>3. SubSeq(M, 1, 0) = << >>
      BY SubSeqEmpty
    <3> QED BY <2>1, <3>2, <3>3
  <2>2. CASE k # 0
    <3>1. k \in 1..L /\ k - 1 \in 0..L /\ k - 1 # L
      BY <1>1, <2>2
    <3>2. g[k - 1] = SubSeq(M, 1, k - 1)
      BY <3>1
    <3>3. CASE Prompted(M[k])
      <4>1. g[k] = SubSeq(M, 1, k)
        BY <3>1, <3>3
      <4> QED BY <1>3, <2>2, <3>1, <3>2, <3>3, <4>1
    <3>4. CASE ~Prompted(M[k])
      <4>1. k = L
        BY <1>1, <3>1, <3>4 DEF Tidy
      <4>2. g[k] = SubSeq(M, 1, k - 1)
        BY <3>1, <3>4, <4>1
      <4> QED BY <2>2, <3>1, <3>2, <3>4, <4>2
    <3> QED BY <3>3, <3>4
  <2> QED BY <2>1, <2>2
<1> HIDE DEF g, F
<1>5. kept = F(kept)
    BY <1>4
<1> HIDE DEF kept
<1> USE DEF F
<1>6. \A k \in 0..L : kept[k] = g[k]
  <2> DEFINE Off == {k \in 0..L : kept[k] # g[k]}
  <2> SUFFICES ASSUME Off # {} PROVE FALSE
    OBVIOUS
  <2> HIDE DEF L, g, F
  <2>0. Off \in SUBSET Nat
    BY <1>1
  <2>1. PICK k \in Off : \A j \in Off : k <= j
    BY <2>0, LeastIndex
  <2>2. k \in 0..L /\ kept[k] # g[k] /\ kept[k] = F(kept)[k] /\ g[k] = F(g)[k]
    BY <1>4, <1>5
  <2>3. k # 0
    BY <2>2 DEF F
  <2>4. k - 1 \in 0..L /\ ~(k <= k - 1)
    BY <1>1, <2>2, <2>3
  <2>5. kept[k - 1] = g[k - 1]
    BY <2>1, <2>4
  <2> QED BY <2>2, <2>3, <2>5 DEF F
<1>7. PromptContext(s) = kept[L]
    BY DEF PromptContext, kept
<1>8. g[L] = SubSeq(M, 1, l)
    BY <1>1 DEF g
<1>9. PromptContext(s) = SubSeq(M, 1, l)
    BY <1>1, <1>6, <1>7, <1>8
<1>10. l # L => ~Prompted(M[L])
    OBVIOUS
<1>11. l # 0 => Prompted(M[l])
  <2>1. CASE L = 0 \/ Prompted(M[L])
    BY <2>1
  <2>2. CASE L # 0 /\ ~Prompted(M[L])
    <3>1. l = L - 1
      BY <2>2, Zenon
    <3>2. L \in Nat /\ l \in Nat
      BY <1>1, <1>2
    <3> HIDE DEF l, L
    <3>3. l # 0 => l \in 1..(L - 1)
      BY <3>1, <3>2
    <3> QED BY <3>3 DEF Tidy, L
  <2> QED BY <2>1, <2>2
<1> QED BY <1>2, <1>9, <1>10, <1>11

LEMMA BeganFacts ==
    ASSUME NEW s \in Conversations, NEW t \in Turns, NEW i \in Inputs
    PROVE  /\ Began(s, t, i) \in Conversations
           /\ Began(s, t, i).messages = s.messages
           /\ Began(s, t, i).start = s.start
           /\ Began(s, t, i).pending = s.pending \cup {[turn |-> t, input |-> i]}
BY DEF Began, Conversations, Markers

LEMMA FinishedFacts ==
    ASSUME NEW s \in Conversations, NEW t \in Turns
    PROVE  /\ Finished(s, t) \in Conversations
           /\ Finished(s, t).messages = s.messages
           /\ Finished(s, t).start = s.start
           /\ Finished(s, t).pending = {m \in s.pending : m.turn # t}
BY DEF Finished, Conversations, Markers

LEMMA LoadType ==
    ASSUME conv \in [Names -> Conversations \cup {Absent}], NEW n \in Names
    PROVE  Load(n) \in Conversations
<1>1. Empty \in Conversations
    BY DEF Empty, Conversations
<1> QED BY <1>1 DEF Load

\* The state after a turn: the messages but a last reply made without an endpoint,
\* the turn's message and its reply.
TurnAppended(s, after, t, i, answer, l) ==
    /\ l \in Nat /\ (l = Len(s.messages) \/ l + 1 = Len(s.messages))
    /\ l + 1 = Len(s.messages) => ~Prompted(s.messages[l + 1])
    /\ l # 0 => Prompted(s.messages[l])
    /\ after.messages \in Seq(Messages)
    /\ Len(after.messages) = l + 2
    /\ \A k \in 1..l : after.messages[k] = s.messages[k]
    /\ after.messages[l + 1] = [role |-> "user", turn |-> t, input |-> i,
                                answer |-> LocalAnswer]
    /\ after.messages[l + 2] = [role |-> "assistant", turn |-> t, input |-> i,
                                answer |-> answer]

LEMMA AnsweredFacts ==
    ASSUME NEW s \in Conversations, Tidy(s), NEW t \in Turns, NEW i \in Inputs,
           NEW answer \in Nat
    PROVE  /\ Answered(s, t, i, answer) \in Conversations
           /\ Answered(s, t, i, answer).start = s.start
           /\ Answered(s, t, i, answer).pending = s.pending
           /\ \E l : TurnAppended(s, Answered(s, t, i, answer), t, i, answer, l)
<1> DEFINE L == Len(s.messages)
           M == s.messages
           u == [role |-> "user", turn |-> t, input |-> i, answer |-> LocalAnswer]
           a == [role |-> "assistant", turn |-> t, input |-> i, answer |-> answer]
           C == PromptContext(s)
           K == C \o <<u, a>>
<1>1. PICK l \in {L, L - 1} :
          /\ l \in Nat
          /\ C = SubSeq(M, 1, l)
          /\ l # L => ~Prompted(M[L])
          /\ l # 0 => Prompted(M[l])
    BY Context
<1>2. M \in Seq(Messages) /\ L \in Nat
    BY DEF Conversations
<1>3. u \in Messages /\ a \in Messages
    BY DEF Messages, LocalAnswer
<1> HIDE DEF u, a, C
<1>4. l <= L /\ \A k \in 1..l : M[k] \in Messages
    BY <1>1, <1>2
<1>5. C \in Seq(Messages) /\ Len(C) = l /\ \A k \in 1..l : C[k] = M[k]
    BY <1>1, <1>2, <1>4, SubSeqProperties
<1>6. /\ K \in Seq(Messages) /\ Len(K) = l + 2
      /\ \A k \in 1..l : K[k] = M[k]
      /\ K[l + 1] = u /\ K[l + 2] = a
    BY <1>1, <1>3, <1>5
<1>7. Answered(s, t, i, answer) = [s EXCEPT !.messages = K]
    BY DEF Answered, K, u, a, C
<1> HIDE DEF K
<1>8. /\ Answered(s, t, i, answer) \in Conversations
      /\ Answered(s, t, i, answer).messages = K
      /\ Answered(s, t, i, answer).start = s.start
      /\ Answered(s, t, i, answer).pending = s.pending
    BY <1>6, <1>7 DEF Conversations
<1>9. (l = L \/ l + 1 = L) /\ (l + 1 = L => ~Prompted(M[l + 1]))
    BY <1>1, <1>2
<1>10. TurnAppended(s, Answered(s, t, i, answer), t, i, answer, l)
    BY <1>1, <1>6, <1>8, <1>9 DEF u, a, TurnAppended
<1> QED BY <1>8, <1>10

\* A compression drops messages from the front and keeps the indexes of the others.
LEMMA CompressedFacts ==
    ASSUME NEW s \in Conversations
    PROVE  LET after == Compressed(s)  L == Len(s.messages) IN
           /\ after \in Conversations /\ after.pending = s.pending
           /\ \E d \in 0..L :
                 /\ after.start = s.start + d
                 /\ Len(after.messages) = L - d
                 /\ \A k \in 1..(L - d) : after.messages[k] = s.messages[k + d]
<1> DEFINE L == Len(s.messages)
           M == s.messages
           kept == IF Recent < L THEN Recent ELSE L
           d == L - kept
           K == SubSeq(M, d + 1, L)
<1>1. M \in Seq(Messages) /\ L \in Nat /\ s.start \in Nat
    BY DEF Conversations
<1>2. kept \in Nat /\ kept <= L
    BY <1>1, SettingsAssumption
<1>3. d \in 0..L /\ L - d = kept /\ L - kept + 1 = d + 1
    BY <1>1, <1>2
<1>4. CASE ~LongerThan(s, Trigger)
  <2>1. Compressed(s) = s
    BY <1>4 DEF Compressed
  <2> QED BY <1>1, <2>1
<1>5. CASE LongerThan(s, Trigger)
  <2>1. Compressed(s) = [s EXCEPT !.messages = SubSeq(M, L - kept + 1, L),
                                  !.start = (s.start + L) - kept]
    BY <1>5 DEF Compressed, NextIndex
  <2> HIDE DEF kept
  <2>2. (s.start + L) - kept = s.start + d /\ s.start + d \in Nat
    BY <1>1, <1>2
  <2>3. L - kept + 1 = d + 1 /\ d \in Int /\ L \in Int /\ d + 1 \in Int /\ d <= L /\ 0 <= d
    BY <1>1, <1>3
  <2> HIDE DEF d
  <2>4. \A k \in (d + 1)..L : M[k] \in Messages
    BY <1>1, <1>3
  <2>5. Compressed(s) = [s EXCEPT !.messages = K, !.start = s.start + d]
    BY <2>1, <2>2, <2>3
  <2> HIDE DEF L, M
  <2>6. /\ K \in Seq(Messages)
        /\ Len(K) = IF d + 1 <= L THEN L - (d + 1) + 1 ELSE 0
        /\ \A k \in 1..(L - (d + 1) + 1) : K[k] = M[d + 1 + k - 1]
    BY <2>3, <2>4, SubSeqProperties
  <2> HIDE DEF K
  <2>7. Len(K) = L - d /\ \A k \in 1..(L - d) : K[k] = M[k + d]
    BY <2>3, <2>6
  <2>8. /\ Compressed(s) \in Conversations /\ Compressed(s).pending = s.pending
        /\ Compressed(s).messages = K /\ Compressed(s).start = s.start + d
    BY <2>2, <2>5, <2>6 DEF Conversations
  <2> QED BY <1>3, <2>7, <2>8 DEF L, M
<1> QED BY <1>4, <1>5

Replied(s, t) ==
    \E k \in DOMAIN s.messages :
       Says(s.messages[k], "assistant", t) /\ s.messages[k].answer # LocalAnswer

\* The indexes of a conversation go on from a state to a later one: a message keeps its
\* index, but that of a reply made without an endpoint may be a user's message later.
Succeeds(s, later) ==
    /\ later.start >= s.start /\ NextIndex(later) >= NextIndex(s)
    /\ \A i \in Nat :
          HasIndex(s, i) /\ HasIndex(later, i) =>
             \/ At(later, i) = At(s, i)
             \/ ~Prompted(At(s, i)) /\ At(later, i).role = "user"

LEMMA SameMessagesSucceed ==
    ASSUME NEW s \in Conversations, NEW later, later.messages = s.messages,
           later.start = s.start
    PROVE  Succeeds(s, later) /\ (Tidy(s) => Tidy(later))
<1>1. s.start \in Nat /\ Len(s.messages) \in Nat
    BY DEF Conversations
<1>2. NextIndex(later) = NextIndex(s) /\ NextIndex(s) \in Nat
    BY <1>1 DEF NextIndex
<1>3. \A i \in Nat : At(later, i) = At(s, i)
    BY DEF At
<1> QED BY <1>1, <1>2, <1>3 DEF Succeeds, Tidy

LEMMA CompressedSucceeds ==
    ASSUME NEW s \in Conversations
    PROVE  Succeeds(s, Compressed(s)) /\ (Tidy(s) => Tidy(Compressed(s)))
<1> DEFINE after == Compressed(s)
           L == Len(s.messages)
<1>1. PICK d \in 0..L :
          /\ after.start = s.start + d /\ Len(after.messages) = L - d
          /\ \A k \in 1..(L - d) : after.messages[k] = s.messages[k + d]
    BY CompressedFacts
<1>2. s.start \in Nat /\ L \in Nat
    BY DEF Conversations
<1> HIDE DEF after, L
<1>3. NextIndex(after) = NextIndex(s) /\ NextIndex(s) = s.start + L /\ after.start >= s.start
    BY <1>1, <1>2 DEF NextIndex, L
<1>4. ASSUME NEW i \in Nat, HasIndex(s, i), HasIndex(after, i)
      PROVE  At(after, i) = At(s, i)
  <2>1. i >= s.start + d /\ i < s.start + L
    BY <1>1, <1>3, <1>4 DEF HasIndex
  <2> DEFINE k == i - (s.start + d) + 1
  <2>2. k \in 1..(L - d) /\ k + d = i - s.start + 1
    BY <1>1, <1>2, <2>1
  <2>3. after.messages[k] = s.messages[k + d]
    BY <1>1, <2>2
  <2> HIDE DEF k
  <2> QED BY <1>1, <2>2, <2>3 DEF At, k
<1>5. ASSUME Tidy(s) PROVE Tidy(after)
  <2> SUFFICES ASSUME NEW k \in 1..(Len(after.messages) - 1) PROVE Prompted(after.messages[k])
    BY DEF Tidy
  <2>1. k \in 1..(L - d) /\ k + d \in 1..(L - 1)
    BY <1>1, <1>2
  <2> QED BY <1>1, <1>5, <2>1 DEF Tidy, L
<1>6. NextIndex(after) >= NextIndex(s)
    BY <1>2, <1>3
<1> QED BY <1>3, <1>4, <1>5, <1>6 DEF Succeeds, after

LEMMA AnsweredSucceeds ==
    ASSUME NEW s \in Conversations, Tidy(s), NEW t \in Turns, NEW i \in Inputs,
           NEW answer \in Nat
    PROVE  LET after == Answered(s, t, i, answer)  next == NextIndex(after) IN
           /\ Succeeds(s, after) /\ Tidy(after)
           /\ next \in Nat /\ next > NextIndex(s) /\ next - 2 \in Nat
           /\ HasIndex(after, next - 2) /\ HasIndex(after, next - 1)
           /\ At(after, next - 2).role = "user" /\ At(after, next - 2).input = i
           /\ At(after, next - 1).role = "assistant" /\ At(after, next - 1).answer = answer
<1> DEFINE after == Answered(s, t, i, answer)
           L == Len(s.messages)
           M == s.messages
           K == after.messages
           u == [role |-> "user", turn |-> t, input |-> i, answer |-> LocalAnswer]
           a == [role |-> "assistant", turn |-> t, input |-> i, answer |-> answer]
<1>1. PICK l : TurnAppended(s, after, t, i, answer, l)
    BY AnsweredFacts
<1>2. s.start \in Nat /\ L \in Nat /\ after.start = s.start
    BY AnsweredFacts DEF Conversations
<1>a. /\ l \in Nat /\ (l = L \/ l + 1 = L)
      /\ l + 1 = L => ~Prompted(M[l + 1])
      /\ l # 0 => Prompted(M[l])
      /\ Len(K) = l + 2
      /\ \A k \in 1..l : K[k] = M[k]
      /\ K[l + 1] = u /\ K[l + 2] = a
    BY <1>1 DEF TurnAppended
<1>3. u.role = "user" /\ u.input = i /\ a.role = "assistant" /\ a.answer = answer /\ Prompted(u)
    BY DEF Prompted
<1> HIDE DEF after, u, a
<1>4. /\ NextIndex(after) = s.start + (l + 2) /\ NextIndex(after) \in Nat
      /\ NextIndex(s) = s.start + L
    BY <1>a, <1>2 DEF NextIndex
<1> HIDE DEF L, M, K
<1>5. ASSUME NEW i1 \in Nat, HasIndex(s, i1)
      PROVE  \/ At(after, i1) = At(s, i1)
             \/ ~Prompted(At(s, i1)) /\ At(after, i1).role = "user"
  <2> DEFINE k == i1 - s.start + 1
  <2>1. k \in 1..L
    BY <1>2, <1>4, <1>5 DEF HasIndex
  <2>2. At(after, i1) = K[k] /\ At(s, i1) = M[k]
    BY <1>2 DEF At, K, M
  <2> HIDE DEF k
  <2>3. CASE k \in 1..l
    BY <1>a, <2>2, <2>3
  <2>4. CASE k \notin 1..l
    <3>1. l + 1 = L /\ k = l + 1
      BY <1>a, <1>2, <2>1, <2>4
    <3> QED BY <1>a, <1>3, <2>2, <3>1
  <2> QED BY <2>3, <2>4
<1>6. Succeeds(s, after)
    BY <1>a, <1>2, <1>4, <1>5 DEF Succeeds
<1>7. ASSUME NEW k \in 1..(Len(K) - 1) PROVE Prompted(K[k])
  <2>1. CASE k = l + 1
    BY <1>a, <1>3, <2>1
  <2>2. CASE k # l + 1
    <3>1. k \in 1..l /\ K[k] = M[k]
      BY <1>a, <2>2
    <3>2. CASE k = l
      BY <1>a, <3>1, <3>2
    <3>3. CASE k # l
      <4>1. k \in 1..(L - 1)
        BY <1>a, <1>2, <3>1, <3>3
      <4> QED BY <3>1, <4>1 DEF Tidy, L, M
    <3> QED BY <3>2, <3>3
  <2> QED BY <2>1, <2>2
<1>8. Tidy(after)
    BY <1>7 DEF Tidy, K
<1> DEFINE next == NextIndex(after)
<1>9. /\ next \in Nat /\ next > NextIndex(s) /\ next - 2 \in Nat
      /\ HasIndex(after, next - 2) /\ HasIndex(after, next - 1)
    BY <1>a, <1>2, <1>4, SMTT(30) DEF HasIndex
<1>10. /\ (next - 2) - after.start + 1 = l + 1
       /\ (next - 1) - after.start + 1 = l + 2
    BY <1>a, <1>2, <1>4
<1>11. At(after, next - 2) = u /\ At(after, next - 1) = a
    BY <1>a, <1>10 DEF At, K
<1> QED BY <1>3, <1>6, <1>8, <1>9, <1>11 DEF after

\* What is stored, heard and replied to by a model, turn by turn.
LEMMA AnsweredTurns ==
    ASSUME NEW s \in Conversations, Tidy(s), NEW t \in Turns, NEW i \in Inputs,
           NEW answer \in Nat
    PROVE  LET after == Answered(s, t, i, answer) IN
           /\ Stored(after, t) /\ Heard(after, t)
           /\ answer # LocalAnswer => Replied(after, t)
           /\ \A u \in Turns : /\ Stored(after, u) => u = t \/ Stored(s, u)
                               /\ Heard(s, u) => Heard(after, u)
                               /\ Replied(s, u) => Replied(after, u)
<1> DEFINE after == Answered(s, t, i, answer)
           L == Len(s.messages)
           M == s.messages
           K == after.messages
           um == [role |-> "user", turn |-> t, input |-> i, answer |-> LocalAnswer]
           am == [role |-> "assistant", turn |-> t, input |-> i, answer |-> answer]
<1>0. PICK l : TurnAppended(s, after, t, i, answer, l)
    BY AnsweredFacts
<1>1. /\ l \in Nat /\ (l = L \/ l + 1 = L)
      /\ l + 1 = L => ~Prompted(M[l + 1])
      /\ Len(K) = l + 2 /\ K \in Seq(Messages)
      /\ \A k \in 1..l : K[k] = M[k]
      /\ K[l + 1] = um /\ K[l + 2] = am
    BY <1>0 DEF TurnAppended
<1>2. M \in Seq(Messages) /\ L \in Nat
    BY DEF Conversations
<1>3. /\ um.role = "user" /\ um.turn = t
      /\ am.role = "assistant" /\ am.turn = t /\ am.answer = answer
    OBVIOUS
<1>4. DOMAIN M = 1..L /\ DOMAIN K = 1..(l + 2)
    BY <1>1, <1>2
<1> HIDE DEF after, um, am, L, M, K
<1>5. Says(K[l + 1], "user", t) /\ Says(K[l + 2], "assistant", t) /\ K[l + 2].answer = answer
    BY <1>1, <1>3 DEF Says
<1>6. l + 1 \in 1..(l + 2) /\ l + 2 \in 1..(l + 2)
    BY <1>1
<1>7. Heard(after, t) /\ Stored(after, t) /\ (answer # LocalAnswer => Replied(after, t))
    BY <1>4, <1>5, <1>6 DEF Heard, Stored, Replied, K
<1>8. ASSUME NEW u \in Turns, Stored(after, u), u # t PROVE Stored(s, u)
  <2>1. PICK k \in 1..(l + 2) : Says(K[k], "assistant", u)
    BY <1>4, <1>8 DEF Stored, K
  <2>2. k # l + 1 /\ k # l + 2
    BY <1>1, <1>3, <1>8, <2>1 DEF Says
  <2>3. k \in 1..l /\ k \in 1..L
    BY <1>1, <1>2, <2>1, <2>2
  <2> QED BY <1>1, <1>4, <2>1, <2>3 DEF Stored, M
<1>9. ASSUME NEW k \in 1..L, Prompted(M[k]) PROVE k \in 1..(l + 2) /\ K[k] = M[k]
  <2>1. k \in 1..l
    BY <1>1, <1>2, <1>9
  <2> QED BY <1>1, <2>1
<1>10. ASSUME NEW u \in Turns, Heard(s, u) PROVE Heard(after, u)
  <2>1. PICK k \in 1..L : Says(M[k], "user", u)
    BY <1>4, <1>10 DEF Heard, M
  <2>2. Prompted(M[k])
    BY <2>1 DEF Says, Prompted
  <2> QED BY <1>4, <1>9, <2>1, <2>2 DEF Heard, K
<1>11. ASSUME NEW u \in Turns, Replied(s, u) PROVE Replied(after, u)
  <2>1. PICK k \in 1..L : Says(M[k], "assistant", u) /\ M[k].answer # LocalAnswer
    BY <1>4, <1>11 DEF Replied, M
  <2>2. Prompted(M[k])
    BY <2>1 DEF Prompted
  <2> QED BY <1>4, <1>9, <2>1, <2>2 DEF Replied, K
<1> QED BY <1>7, <1>8, <1>10, <1>11 DEF after

-----------------------------------------------------------------------------
(* What holds in every state: types, and what the locks keep apart *)

ClientStates == {"idle", "waiting", "asked", "answered", "failed", "gaveup"}
Asking == [state : ClientStates, name : Names, chat : Chats, answer : Inputs]
Jobs == [kind : {"chat", "compress"}, name : Names, chat : Chats]
Observations == [input : Inputs, answer : Nat]

DaemonTypes ==
    /\ tasks \in [Names \X Turns -> Chats \cup {Absent}]
    /\ compressing \subseteq Names
    /\ continuation \in [Names \X Turns -> 0..MaxCalls]
    /\ client \in [Clients -> Asking]

StoreTypes ==
    /\ conv \in [Names -> Conversations \cup {Absent}]
    /\ lock \in [Names -> Procs \cup {Nobody}]
    /\ DOMAIN observed \subseteq Names \X Nat \X Nat
    /\ \A id \in DOMAIN observed : observed[id] \in Observations
    /\ effects \in [Names \X Turns -> [Calls -> Nat]]

ProcTypes ==
    /\ pc \in [Procs -> Steps]
    /\ job \in [Procs -> Jobs]
    /\ \A n \in Names : job[n].name = n
    /\ original \in [Procs -> Conversations \cup {Absent}]
    /\ reply \in [Procs -> Nat]
    /\ span \in [Procs -> Nat \X Nat]

CountTypes ==
    answers \in Nat /\ submissions \in Nat /\ managed \in Nat /\ crashes \in Nat

\* Only the last reply of a conversation is made without an endpoint.
Tidied == \A n \in Names : Tidy(Load(n))

\* Whoever sends or carries out a resolution does so for a lane with an endpoint.
Resolved ==
    /\ \A c \in Clients : client[c].chat.call # 0 => client[c].name \in Configured
    /\ \A n \in Names, t \in Turns :
          tasks[<<n, t>>] # Absent /\ tasks[<<n, t>>].call # 0 => n \in Configured
    /\ \A p \in Procs : /\ job[p].chat.call # 0 => p \in Names /\ p \in Configured
                        /\ pc[p] = "resumed" => p \in Configured

\* Who runs an agent runs a turn that is not complete.
Runs(p) ==
    pc[p] \in Running =>
       /\ job[p].kind = "chat"
       /\ ~(/\ Stored(Load(job[p].name), job[p].chat.turn)
            /\ Heard(Load(job[p].name), job[p].chat.turn))

TurnsInv ==
    /\ DaemonTypes /\ StoreTypes /\ ProcTypes /\ CountTypes
    /\ Tidied /\ Resolved
    /\ UpdatesSerialized /\ \A p \in Procs : Runs(p)

\* The lock of a conversation has one holder.
LEMMA Alone ==
    ASSUME UpdatesSerialized, NEW p \in Procs, NEW q \in Procs, q # p,
           pc[p] \in Locked \/ lock[job[p].name] = Nobody, pc[q] \in Locked
    PROVE  job[q].name # job[p].name
BY ProcsAssumption DEF UpdatesSerialized

\* A step of one process in the update of its conversation.
LEMMA StepSerialized ==
    ASSUME UpdatesSerialized, \A r \in Procs : Runs(r), NEW p \in Procs,
           pc[p] \in Locked \/ lock[job[p].name] = Nobody,
           \A q \in Procs : q # p => /\ pc'[q] = pc[q] /\ job'[q] = job[q]
                                     /\ original'[q] = original[q],
           \A q \in Procs : job[q].name # job[p].name =>
              /\ lock'[job[q].name] = lock[job[q].name]
              /\ conv'[job[q].name] = conv[job[q].name],
           pc'[p] \in Locked =>
              job'[p].name = job[p].name /\ lock'[job[p].name] = p,
           pc'[p] \in Running => conv'[job[p].name] = original'[p],
           Runs(p)'
    PROVE  UpdatesSerialized' /\ \A r \in Procs : Runs(r)'
<1>1. Running \subseteq Locked
    BY DEF Running, Locked
<1>2. ASSUME NEW q \in Procs, q # p, pc'[q] \in Locked
      PROVE  /\ pc[q] = pc'[q] /\ job'[q] = job[q] /\ original'[q] = original[q]
             /\ lock'[job[q].name] = q /\ conv'[job[q].name] = conv[job[q].name]
  <2>1. pc[q] \in Locked /\ pc[q] = pc'[q]
    BY <1>2
  <2>2. job[q].name # job[p].name
    BY <1>2, <2>1, Alone
  <2> QED BY <1>2, <2>1, <2>2 DEF UpdatesSerialized
<1>3. UpdatesSerialized'
  <2> SUFFICES ASSUME NEW q \in Procs
               PROVE  /\ pc'[q] \in Locked => lock'[job'[q].name] = q
                      /\ pc'[q] \in Running => conv'[job'[q].name] = original'[q]
    BY DEF UpdatesSerialized
  <2>1. CASE q = p
    BY <1>1, <2>1
  <2>2. CASE q # p
    BY <1>1, <1>2, <2>2 DEF UpdatesSerialized
  <2> QED BY <2>1, <2>2
<1>4. ASSUME NEW q \in Procs PROVE Runs(q)'
  <2>1. CASE q = p
    BY <2>1
  <2>2. CASE q # p /\ pc'[q] \in Running
    <3>1. /\ pc[q] = pc'[q] /\ job'[q] = job[q]
          /\ conv'[job[q].name] = conv[job[q].name]
      BY <1>1, <1>2, <2>2
    <3>2. Runs(q)
      OBVIOUS
    <3>3. Load(job[q].name)' = Load(job[q].name)
      BY <3>1 DEF Load
    <3> QED BY <2>2, <3>1, <3>2, <3>3 DEF Runs, Stored, Heard
  <2>3. CASE pc'[q] \notin Running
    BY <2>3 DEF Runs
  <2> QED BY <2>1, <2>2, <2>3
<1> QED BY <1>3, <1>4

\* A step that leaves alone every process that has a lock, and its conversation.
LEMMA OthersSerialized ==
    ASSUME UpdatesSerialized, \A r \in Procs : Runs(r),
           \A q \in Procs : pc'[q] \in Locked =>
              /\ pc'[q] = pc[q] /\ job'[q] = job[q] /\ original'[q] = original[q]
              /\ lock[job[q].name] = q =>
                    /\ lock'[job[q].name] = q
                    /\ conv'[job[q].name] = conv[job[q].name]
    PROVE  UpdatesSerialized' /\ \A r \in Procs : Runs(r)'
<1>1. Running \subseteq Locked
    BY DEF Running, Locked
<1>2. UpdatesSerialized'
    BY <1>1 DEF UpdatesSerialized
<1>3. ASSUME NEW q \in Procs, pc'[q] \in Running PROVE Runs(q)'
  <2>1. /\ pc[q] = pc'[q] /\ job'[q] = job[q]
        /\ conv'[job[q].name] = conv[job[q].name]
    BY <1>1, <1>3 DEF UpdatesSerialized
  <2>2. Load(job[q].name)' = Load(job[q].name)
    BY <2>1 DEF Load
  <2> QED BY <1>3, <2>1, <2>2 DEF Runs, Stored, Heard
<1> QED BY <1>2, <1>3 DEF Runs

\* Whoever waited for a task is told, and the task is gone.
LEMMA ToldTypes ==
    ASSUME DaemonTypes, ProcTypes, Resolved, NEW p \in Procs,
           NEW state \in ClientStates, NEW call \in 0..MaxCalls, NEW answer \in Inputs,
           state = "asked" /\ call # 0 => p \in Names /\ p \in Configured,
           Told(p, state, call, answer)
    PROVE  /\ tasks' \in [Names \X Turns -> Chats \cup {Absent}]
           /\ client' \in [Clients -> Asking]
           /\ \A c \in Clients : client'[c].chat.call # 0 => client'[c].name \in Configured
           /\ \A n \in Names, t \in Turns :
                 tasks'[<<n, t>>] # Absent /\ tasks'[<<n, t>>].call # 0 => n \in Configured
<1>1. CASE p \in Locals
    BY <1>1 DEF Told, DaemonTypes, Resolved
<1>2. CASE p \notin Locals
  <2> DEFINE n == job[p].name
             t == job[p].chat.turn
             New(c) == IF client[c].state = "waiting" /\ WaitsFor(c, n, job[p].chat)
                       THEN [client[c] EXCEPT !.state = state, !.answer = answer,
                                !.chat.call = IF state = "asked" THEN call ELSE @]
                       ELSE client[c]
  <2>1. p \in Names /\ n = p /\ n \in Names /\ t \in Turns
    BY <1>2 DEF Procs, ProcTypes, Jobs, Chats
  <2>2. client' = [c \in Clients |-> New(c)] /\ tasks' = [tasks EXCEPT ![<<n, t>>] = Absent]
    BY <1>2, Zenon DEF Told
  <2>3. ASSUME NEW c \in Clients
        PROVE  New(c) \in Asking /\ (New(c).chat.call # 0 => New(c).name \in Configured)
    <3>1. client[c] \in Asking /\ client[c].chat \in Chats
      BY DEF DaemonTypes, Asking
    <3>2. client[c].chat.call # 0 => client[c].name \in Configured
      BY DEF Resolved
    <3>3. CASE client[c].state = "waiting" /\ WaitsFor(c, n, job[p].chat)
      <4> DEFINE new == [client[c].chat EXCEPT
                            !.call = IF state = "asked" THEN call ELSE @]
      <4>1. new \in Chats /\ new.call = IF state = "asked" THEN call ELSE client[c].chat.call
        BY <3>1 DEF Chats
      <4>2. New(c) = [client[c] EXCEPT !.state = state, !.answer = answer, !.chat = new]
        BY <3>1, <3>3 DEF Asking
      <4> HIDE DEF New, new
      <4>3. New(c) \in Asking /\ New(c).chat = new /\ New(c).name = client[c].name
        BY <3>1, <4>1, <4>2 DEF Asking
      <4>4. client[c].name = p
        BY <2>1, <3>3 DEF WaitsFor
      <4> QED BY <3>2, <4>1, <4>3, <4>4
    <3>4. CASE ~(client[c].state = "waiting" /\ WaitsFor(c, n, job[p].chat))
      <4>1. New(c) = client[c]
        BY <3>4, Zenon
      <4> QED BY <3>1, <3>2, <4>1
    <3> QED BY <3>3, <3>4
  <2> HIDE DEF New
  <2>4. tasks' \in [Names \X Turns -> Chats \cup {Absent}]
    BY <2>1, <2>2 DEF DaemonTypes
  <2>5. ASSUME NEW m \in Names, NEW u \in Turns, tasks'[<<m, u>>] # Absent
        PROVE  tasks'[<<m, u>>] = tasks[<<m, u>>]
    BY <2>1, <2>2, <2>5 DEF DaemonTypes
  <2> QED BY <2>2, <2>3, <2>4, <2>5 DEF Resolved
<1> QED BY <1>1, <1>2

LEMMA JobFacts ==
    ASSUME TurnsInv, NEW p \in Procs
    PROVE  /\ job[p] \in Jobs /\ job[p].name \in Names /\ job[p].chat \in Chats
           /\ job[p].chat.turn \in Turns /\ job[p].chat.input \in Inputs
           /\ job[p].chat.call \in 0..MaxCalls
           /\ p \in Names => job[p].name = p
           /\ p \in Names \/ p \in Locals
           /\ Load(job[p].name) \in Conversations /\ Tidy(Load(job[p].name))
<1>1. /\ job[p] \in Jobs /\ job[p].name \in Names /\ job[p].chat \in Chats
      /\ p \in Names => job[p].name = p
    BY DEF TurnsInv, ProcTypes, Jobs
<1>2. Load(job[p].name) \in Conversations /\ Tidy(Load(job[p].name))
    BY <1>1, LoadType DEF TurnsInv, StoreTypes, Tidied
<1> QED BY <1>1, <1>2 DEF Chats, Procs

\* The update of a process ends without a write.
LEMMA EndKeeps ==
    ASSUME TurnsInv, NEW p \in Procs, pc[p] \in Locked,
           NEW state \in {"asked", "failed"}, NEW call \in 0..MaxCalls,
           state = "asked" /\ call # 0 => p \in Names /\ p \in Configured,
           lock' = Unlocked(job[p].name),
           Told(p, state, call, job[p].chat.input), Goto(p, "idle"),
           continuation' \in [Names \X Turns -> 0..MaxCalls],
           UNCHANGED <<conv, observed, compressing, effects, job, original, reply, span,
                       bounds, answers>>
    PROVE  TurnsInv'
<1>1. /\ tasks' \in [Names \X Turns -> Chats \cup {Absent}]
      /\ client' \in [Clients -> Asking]
      /\ \A c \in Clients : client'[c].chat.call # 0 => client'[c].name \in Configured
      /\ \A n \in Names, t \in Turns :
            tasks'[<<n, t>>] # Absent /\ tasks'[<<n, t>>].call # 0 => n \in Configured
  <2>1. state \in ClientStates /\ job[p].chat.input \in Inputs
    BY JobFacts DEF ClientStates
  <2> QED BY <2>1, ToldTypes DEF TurnsInv
<1>2. job[p].name \in Names
    BY JobFacts
<1>3. pc' = [pc EXCEPT ![p] = "idle"] /\ pc' \in [Procs -> Steps] /\ pc'[p] = "idle"
    BY DEF Goto, TurnsInv, ProcTypes, Steps
<1>4. lock' = [lock EXCEPT ![job[p].name] = Nobody]
    BY DEF Unlocked
<1>5. DaemonTypes'
    BY <1>1 DEF DaemonTypes, TurnsInv
<1>6. StoreTypes' /\ CountTypes'
    BY <1>2, <1>4 DEF StoreTypes, CountTypes, TurnsInv, bounds
<1>7. ProcTypes'
    BY <1>3 DEF ProcTypes, TurnsInv
<1>8. Tidied'
    BY DEF Tidied, Tidy, Load, TurnsInv
<1>9. Resolved'
    BY <1>1, <1>3 DEF Resolved, TurnsInv
<1>10. UpdatesSerialized' /\ \A r \in Procs : Runs(r)'
  <2>1. Runs(p)'
    BY <1>3 DEF Runs, Running
  <2>2. pc'[p] \notin Locked /\ pc'[p] \notin Running
    BY <1>3 DEF Locked, Running
  <2>3. \A q \in Procs : q # p => pc'[q] = pc[q] /\ job'[q] = job[q] /\ original'[q] = original[q]
    BY <1>3 DEF TurnsInv, ProcTypes
  <2>4. \A q \in Procs : job[q].name # job[p].name =>
           /\ lock'[job[q].name] = lock[job[q].name]
           /\ conv'[job[q].name] = conv[job[q].name]
    BY <1>4, JobFacts DEF TurnsInv, StoreTypes
  <2> QED BY <2>1, <2>2, <2>3, <2>4, StepSerialized DEF TurnsInv
<1> QED BY <1>5, <1>6, <1>7, <1>8, <1>9, <1>10 DEF TurnsInv

LEMMA RunFailsKeeps ==
    ASSUME TurnsInv, NEW p \in Procs, pc[p] \in Locked, RunFails(p)
    PROVE  TurnsInv'
<1>1. /\ lock' = Unlocked(job[p].name) /\ Goto(p, "idle")
      /\ Told(p, "failed", 0, job[p].chat.input)
      /\ UNCHANGED <<conv, observed, compressing, effects, job, original, reply, span,
                     bounds, answers>>
      /\ continuation' = continuation
    BY DEF RunFails, Fails
<1>2. continuation' \in [Names \X Turns -> 0..MaxCalls]
    BY <1>1 DEF TurnsInv, DaemonTypes
<1>3. 0 \in 0..MaxCalls
    BY BoundsAssumption
<1> QED BY <1>1, <1>2, <1>3, EndKeeps

LEMMA SuspendsKeeps ==
    ASSUME TurnsInv, NEW p \in Procs, pc[p] \in Locked, p \in Names, p \in Configured,
           NEW k \in 1..MaxCalls, Suspends(p, k)
    PROVE  TurnsInv'
<1>1. /\ lock' = Unlocked(job[p].name) /\ Goto(p, "idle")
      /\ Told(p, "asked", k, job[p].chat.input)
      /\ UNCHANGED <<conv, observed, compressing, effects, job, original, reply, span,
                     bounds, answers>>
      /\ continuation' = [continuation EXCEPT ![<<job[p].name, job[p].chat.turn>>] = k]
    BY DEF Suspends
<1>2. k \in 0..MaxCalls
    BY BoundsAssumption
<1>3. continuation' \in [Names \X Turns -> 0..MaxCalls]
    BY <1>1, <1>2 DEF TurnsInv, DaemonTypes
<1> QED BY <1>1, <1>2, <1>3, EndKeeps

\* A job goes on from another of its calls, or from the one it had.
LEMMA Renumbered ==
    ASSUME TurnsInv, NEW p \in Procs, NEW k \in 0..MaxCalls,
           job' = job \/ (p \in Names \cap Configured /\ job' = [job EXCEPT ![p].chat.call = k])
    PROVE  /\ job' \in [Procs -> Jobs]
           /\ \A q \in Procs :
                 /\ job'[q].name = job[q].name /\ job'[q].kind = job[q].kind
                 /\ job'[q].chat.turn = job[q].chat.turn
                 /\ job'[q].chat.call # 0 => q \in Names /\ q \in Configured
<1>1. /\ job \in [Procs -> Jobs]
      /\ \A q \in Procs : job[q].chat.call # 0 => q \in Names /\ q \in Configured
    BY DEF TurnsInv, ProcTypes, Resolved
<1>2. CASE job' = job
    BY <1>1, <1>2
<1>3. CASE p \in Names \cap Configured /\ job' = [job EXCEPT ![p].chat.call = k]
  <2> DEFINE renumbered == [job[p] EXCEPT !.chat.call = k]
  <2>1. /\ renumbered \in Jobs /\ renumbered.name = job[p].name
        /\ renumbered.kind = job[p].kind /\ renumbered.chat.turn = job[p].chat.turn
    BY <1>1 DEF Jobs, Chats
  <2>2. job' = [job EXCEPT ![p] = renumbered]
    BY <1>3
  <2> HIDE DEF renumbered
  <2> QED BY <1>1, <1>3, <2>1, <2>2
<1> QED BY <1>2, <1>3

\* A process goes on in its update without writing the conversation.
LEMMA StepKeeps ==
    ASSUME TurnsInv, NEW p \in Procs, NEW step \in {"resumed", "commit"}, NEW k \in 0..MaxCalls,
           job' = job \/ (p \in Names \cap Configured /\ job' = [job EXCEPT ![p].chat.call = k]),
           pc[p] \in Running, step = "resumed" => p \in Configured, Goto(p, step),
           reply' \in [Procs -> Nat], answers' \in Nat,
           continuation' \in [Names \X Turns -> 0..MaxCalls],
           effects' \in [Names \X Turns -> [Calls -> Nat]],
           UNCHANGED <<conv, lock, observed, tasks, compressing, client, original, span, bounds>>
    PROVE  TurnsInv'
<1>0. /\ job' \in [Procs -> Jobs]
      /\ \A q \in Procs :
            /\ job'[q].name = job[q].name /\ job'[q].kind = job[q].kind
            /\ job'[q].chat.turn = job[q].chat.turn
            /\ job'[q].chat.call # 0 => q \in Names /\ q \in Configured
    BY Renumbered
<1>1. /\ pc' = [pc EXCEPT ![p] = step] /\ pc' \in [Procs -> Steps] /\ pc'[p] = step
      /\ \A q \in Procs : q # p => pc'[q] = pc[q]
    BY DEF Goto, TurnsInv, ProcTypes, Steps
<1>2. DaemonTypes' /\ StoreTypes' /\ CountTypes'
    BY DEF DaemonTypes, StoreTypes, CountTypes, TurnsInv, bounds
<1>3. ProcTypes'
    BY <1>0, <1>1, ProcsAssumption DEF ProcTypes, TurnsInv, Procs
<1>4. Tidied'
    BY DEF Tidied, Tidy, Load, TurnsInv
<1>5. Resolved'
    BY <1>0, <1>1 DEF Resolved, TurnsInv
<1>6. UpdatesSerialized'
    BY <1>0, <1>1 DEF UpdatesSerialized, TurnsInv, Locked, Running
<1>7. ASSUME NEW r \in Procs PROVE Runs(r)'
  <2>1. Runs(r)
    BY DEF TurnsInv
  <2>2. pc'[r] \in Running => pc[r] \in Running
    BY <1>1
  <2> QED BY <1>0, <2>1, <2>2 DEF Runs, Stored, Heard, Load
<1> QED BY <1>2, <1>3, <1>4, <1>5, <1>6, <1>7 DEF TurnsInv

LEMMA RepliesKeeps ==
    ASSUME TurnsInv, NEW p \in Procs, pc[p] \in Running, NEW answer \in Nat,
           Replies(p, answer)
    PROVE  TurnsInv'
<1>1. reply' \in [Procs -> Nat] /\ answers' \in Nat
    BY DEF Replies, TurnsInv, ProcTypes, CountTypes
<1>2. /\ Goto(p, "commit")
      /\ UNCHANGED <<conv, lock, observed, tasks, compressing, client, job, original,
                     span, bounds>>
      /\ continuation' \in [Names \X Turns -> 0..MaxCalls]
      /\ effects' \in [Names \X Turns -> [Calls -> Nat]]
    BY DEF Replies, daemonVars, TurnsInv, DaemonTypes, StoreTypes
<1>3. 0 \in 0..MaxCalls
    BY BoundsAssumption
<1> QED BY <1>1, <1>2, <1>3, StepKeeps

LEMMA RunFreshKeeps ==
    ASSUME TurnsInv, NEW p \in Procs, RunFresh(p)
    PROVE  TurnsInv'
<1>1. pc[p] \in Running /\ pc[p] \in Locked /\ p \in Configured
    BY DEF RunFresh, Running, Locked
<1>2. ASSUME NEW answer \in {answers + 1, FailureAnswer}, Replies(p, answer) PROVE TurnsInv'
  <2>1. answer \in Nat
    BY DEF TurnsInv, CountTypes, FailureAnswer
  <2> QED BY <1>1, <1>2, <2>1, RepliesKeeps
<1>3. ASSUME p \in Names, MaxCalls > 0, Suspends(p, 1) PROVE TurnsInv'
  <2>1. 1 \in 1..MaxCalls
    BY <1>3, BoundsAssumption
  <2> QED BY <1>1, <1>3, <2>1, SuspendsKeeps
<1> QED BY <1>1, <1>2, <1>3, RunFailsKeeps DEF RunFresh

LEMMA RespondUnconfiguredKeeps ==
    ASSUME TurnsInv, NEW p \in Procs, RespondUnconfigured(p)
    PROVE  TurnsInv'
<1>1. pc[p] \in Running /\ LocalAnswer \in Nat /\ Replies(p, LocalAnswer)
    BY DEF RespondUnconfigured, Running, LocalAnswer
<1> QED BY <1>1, RepliesKeeps

LEMMA ContinuationLostKeeps ==
    ASSUME TurnsInv, NEW p \in Procs, ContinuationLost(p)
    PROVE  TurnsInv'
BY RunFailsKeeps DEF ContinuationLost, Locked

LEMMA AskAgainKeeps ==
    ASSUME TurnsInv, NEW p \in Procs, AskAgain(p)
    PROVE  TurnsInv'
<1>1. pc[p] \in Locked /\ p \in Configured /\ Suspends(p, ContinuationOf(p)) /\ ContinuationOf(p) # 0
    BY DEF AskAgain, Locked
<1>2. p \in Names /\ ContinuationOf(p) = continuation[<<job[p].name, job[p].chat.turn>>]
    BY <1>1, JobFacts DEF ContinuationOf
<1>3. ContinuationOf(p) \in 1..MaxCalls
  <2>1. continuation[<<job[p].name, job[p].chat.turn>>] \in 0..MaxCalls
    BY JobFacts DEF TurnsInv, DaemonTypes
  <2> HIDE DEF ContinuationOf
  <2> QED BY <1>1, <1>2, <2>1, BoundsAssumption
<1> QED BY <1>1, <1>2, <1>3, SuspendsKeeps

LEMMA ExecutedTypes ==
    ASSUME TurnsInv, NEW n \in Names, NEW t \in Turns, NEW k \in Nat,
           effects' = [effects EXCEPT ![<<n, t>>][k] = @ + 1]
    PROVE  effects' \in [Names \X Turns -> [Calls -> Nat]]
<1>1. effects \in [Names \X Turns -> [Calls -> Nat]]
    BY DEF TurnsInv, StoreTypes
<1>2. effects[<<n, t>>] \in [Calls -> Nat]
    BY <1>1
<1>3. ASSUME NEW g \in [Calls -> Nat] PROVE [g EXCEPT ![k] = @ + 1] \in [Calls -> Nat]
  <2>1. \A c \in Calls : [g EXCEPT ![k] = @ + 1][c] \in Nat
    OBVIOUS
  <2> QED BY <2>1
<1>4. [effects[<<n, t>>] EXCEPT ![k] = @ + 1] \in [Calls -> Nat]
    BY <1>2, <1>3
<1> QED BY <1>1, <1>4

LEMMA ResumeKeeps ==
    ASSUME TurnsInv, NEW p \in Procs, NEW approved \in BOOLEAN, Resume(p, approved)
    PROVE  TurnsInv'
<1> DEFINE n == job[p].name  t == job[p].chat.turn  k == ContinuationOf(p)
<1>1. n \in Names /\ t \in Turns /\ k \in 0..MaxCalls /\ k \in Nat
    BY JobFacts, BoundsAssumption DEF ContinuationOf, TurnsInv, DaemonTypes
<1>2. /\ pc[p] \in Running /\ p \in Configured /\ Goto(p, "resumed")
      /\ continuation' = [continuation EXCEPT ![<<n, t>>] = 0]
      /\ effects' = [effects EXCEPT ![<<n, t>>][k] = @ + 1] \/ effects' = effects
      /\ job' = [job EXCEPT ![p].chat.call = k] /\ p \in Names \cap Configured
      /\ UNCHANGED <<conv, lock, observed, tasks, compressing, client, original,
                     reply, span, bounds, answers>>
    BY DEF Resume, Running, Taken, ContinuationOf, Procs
<1>3. continuation' \in [Names \X Turns -> 0..MaxCalls]
    BY <1>1, <1>2, BoundsAssumption DEF TurnsInv, DaemonTypes
<1>4. effects' \in [Names \X Turns -> [Calls -> Nat]]
    BY <1>1, <1>2, ExecutedTypes DEF TurnsInv, StoreTypes
<1>5. reply' \in [Procs -> Nat] /\ answers' \in Nat
    BY <1>2 DEF TurnsInv, ProcTypes, CountTypes
<1> HIDE DEF n, t, k
<1> QED BY <1>1, <1>2, <1>3, <1>4, <1>5, StepKeeps

LEMMA ApproveInTerminalKeeps ==
    ASSUME TurnsInv, NEW p \in Procs, ApproveInTerminal(p)
    PROVE  TurnsInv'
<1>0. 0 \in 0..MaxCalls
    BY BoundsAssumption
<1>1. /\ pc[p] \in Running /\ p \in Configured /\ Goto(p, "resumed")
      /\ effects' = [effects EXCEPT ![<<job[p].name, job[p].chat.turn>>][1] = @ + 1]
      /\ UNCHANGED <<conv, lock, observed, tasks, compressing, client, job, original,
                     reply, span, bounds, answers, continuation>>
    BY DEF ApproveInTerminal, Running, daemonVars
<1>2. effects' \in [Names \X Turns -> [Calls -> Nat]]
    BY <1>1, JobFacts, ExecutedTypes
<1>3. /\ reply' \in [Procs -> Nat] /\ answers' \in Nat
      /\ continuation' \in [Names \X Turns -> 0..MaxCalls]
    BY <1>1 DEF TurnsInv, ProcTypes, CountTypes, DaemonTypes
<1> QED BY <1>0, <1>1, <1>2, <1>3, StepKeeps

LEMMA AfterResumeKeeps ==
    ASSUME TurnsInv, NEW p \in Procs, AfterResume(p)
    PROVE  TurnsInv'
<1>1. pc[p] \in Running /\ pc[p] \in Locked /\ p \in Configured
    BY DEF AfterResume, Running, Locked, TurnsInv, Resolved
<1>2. CASE Replies(p, answers + 1)
  <2>1. answers + 1 \in Nat
    BY DEF TurnsInv, CountTypes
  <2> QED BY <1>1, <1>2, <2>1, RepliesKeeps
<1>3. CASE Replies(p, FailureAnswer)
  <2>1. FailureAnswer \in Nat
    BY DEF FailureAnswer
  <2> QED BY <1>1, <1>3, <2>1, RepliesKeeps
<1>4. CASE p \in Names /\ job[p].chat.call < MaxCalls /\ Suspends(p, job[p].chat.call + 1)
  <2>1. job[p].chat.call + 1 \in 1..MaxCalls
    BY <1>4, JobFacts, BoundsAssumption
  <2> QED BY <1>1, <1>4, <2>1, SuspendsKeeps
<1>5. CASE RunFails(p)
    BY <1>1, <1>5, RunFailsKeeps
<1> QED BY <1>2, <1>3, <1>4, <1>5 DEF AfterResume

\* A conversation is written by the process that has its lock, which then gives it up.
LEMMA WriteKeeps ==
    ASSUME TurnsInv, NEW p \in Procs, pc[p] \in Locked,
           NEW after \in Conversations, Tidy(after),
           conv' = [conv EXCEPT ![job[p].name] = after],
           lock' = Unlocked(job[p].name), NEW step \in {"publish", "idle"}, Goto(p, step),
           compressing' \subseteq Names, reply' \in [Procs -> Nat],
           span' \in [Procs -> Nat \X Nat],
           UNCHANGED <<observed, tasks, continuation, effects, client, job, original, bounds,
                       answers>>
    PROVE  TurnsInv'
<1>1. job[p].name \in Names /\ Absent \notin Conversations
    BY JobFacts, AbsentAssumption
<1>2. /\ pc' = [pc EXCEPT ![p] = step] /\ pc' \in [Procs -> Steps] /\ pc'[p] = step
      /\ \A q \in Procs : q # p => pc'[q] = pc[q]
    BY DEF Goto, TurnsInv, ProcTypes, Steps
<1>3. lock' = [lock EXCEPT ![job[p].name] = Nobody]
    BY DEF Unlocked
<1>4. DaemonTypes' /\ CountTypes' /\ ProcTypes'
    BY <1>2 DEF DaemonTypes, CountTypes, ProcTypes, TurnsInv, bounds
<1>5. StoreTypes'
    BY <1>1, <1>3 DEF StoreTypes, TurnsInv
<1>6. \A m \in Names : conv'[m] = IF m = job[p].name THEN after ELSE conv[m]
    BY <1>1 DEF TurnsInv, StoreTypes
<1>7. ASSUME NEW m \in Names PROVE Tidy(Load(m))'
  <2>1. CASE m = job[p].name
    <3>1. Load(m)' = after
      BY <1>1, <1>6, <2>1 DEF Load
    <3> QED BY <3>1 DEF Tidy
  <2>2. CASE m # job[p].name
    <3>1. Load(m)' = Load(m)
      BY <1>6, <2>2 DEF Load
    <3>2. Tidy(Load(m))
      BY DEF TurnsInv, Tidied
    <3> QED BY <3>1, <3>2 DEF Tidy
  <2> QED BY <2>1, <2>2
<1>8. Tidied'
    BY <1>7 DEF Tidied
<1>9. Resolved'
    BY <1>2 DEF Resolved, TurnsInv
<1>10. UpdatesSerialized' /\ \A r \in Procs : Runs(r)'
  <2>1. pc'[p] \notin Locked /\ pc'[p] \notin Running /\ Runs(p)'
    BY <1>2 DEF Locked, Running, Runs
  <2>2. \A q \in Procs : job[q].name # job[p].name =>
           /\ lock'[job[q].name] = lock[job[q].name]
           /\ conv'[job[q].name] = conv[job[q].name]
    BY <1>3, <1>6, JobFacts DEF TurnsInv, StoreTypes
  <2> QED BY <1>2, <2>1, <2>2, StepSerialized DEF TurnsInv
<1> QED BY <1>4, <1>5, <1>8, <1>9, <1>10 DEF TurnsInv

LEMMA AcquireKeeps ==
    ASSUME TurnsInv, NEW p \in Procs, Acquire(p)
    PROVE  TurnsInv'
<1>1. job[p].name \in Names
    BY JobFacts
<1>2. /\ pc' = [pc EXCEPT ![p] = "begin"] /\ pc' \in [Procs -> Steps] /\ pc'[p] = "begin"
      /\ \A q \in Procs : q # p => pc'[q] = pc[q]
      /\ lock[job[p].name] = Nobody /\ lock' = [lock EXCEPT ![job[p].name] = p]
    BY DEF Acquire, Goto, LockFree, TurnsInv, ProcTypes, Steps
<1>3. DaemonTypes' /\ CountTypes' /\ ProcTypes' /\ StoreTypes'
    BY <1>1, <1>2 DEF Acquire, DaemonTypes, CountTypes, ProcTypes, StoreTypes, TurnsInv, bounds, daemonVars
<1>4. Tidied' /\ Resolved'
    BY <1>2 DEF Acquire, Tidied, Tidy, Load, Resolved, TurnsInv, daemonVars
<1>5. UpdatesSerialized' /\ \A r \in Procs : Runs(r)'
  <2>1. pc'[p] \notin Running /\ Runs(p)'
    BY <1>2 DEF Running, Runs
  <2>2. \A q \in Procs : job[q].name # job[p].name =>
           /\ lock'[job[q].name] = lock[job[q].name]
           /\ conv'[job[q].name] = conv[job[q].name]
    BY <1>2, JobFacts DEF Acquire, TurnsInv, StoreTypes
  <2>3. /\ lock'[job[p].name] = p /\ job' = job /\ original' = original
    BY <1>1, <1>2 DEF Acquire, TurnsInv, StoreTypes
  <2> QED BY <1>2, <2>1, <2>2, <2>3, StepSerialized DEF TurnsInv
<1> QED BY <1>3, <1>4, <1>5 DEF TurnsInv

LEMMA ReuseKeeps ==
    ASSUME TurnsInv, NEW p \in Procs, Reuse(p)
    PROVE  TurnsInv'
<1> DEFINE n == job[p].name  t == job[p].chat.turn  s == Load(n)
           user == PositionOf(s, "user", t)
           assistant == PositionOf(s, "assistant", t)
<1>1. /\ n \in Names /\ t \in Turns /\ s \in Conversations /\ Tidy(s)
    BY JobFacts
<1>2. pc[p] \in Locked /\ Completed(s, t)
    BY DEF Reuse, Locked
<1>3. CASE s.messages[user].input = job[p].chat.input
  <2>1. /\ conv' = [conv EXCEPT ![n] = Finished(s, t)]
        /\ span' = [span EXCEPT ![p] = <<s.start + user - 1, s.start + assistant>>]
        /\ reply' = [reply EXCEPT ![p] = s.messages[assistant].answer]
        /\ lock' = Unlocked(n) /\ Goto(p, "publish")
        /\ UNCHANGED <<observed, tasks, compressing, continuation, effects, client, job,
                       original, bounds, answers>>
    BY <1>3 DEF Reuse
  <2>2. Finished(s, t) \in Conversations /\ Tidy(Finished(s, t))
    BY <1>1, FinishedFacts DEF Tidy
  <2>3. user \in DOMAIN s.messages /\ assistant \in DOMAIN s.messages
    BY <1>1, <1>2, Position DEF Completed, HasReply
  <2> HIDE DEF user, assistant, s
  <2>4. /\ user \in Nat \ {0} /\ assistant \in Nat /\ s.start \in Nat
        /\ s.messages[assistant] \in Messages
    BY <1>1, <2>3 DEF Conversations
  <2>5. s.start + user - 1 \in Nat /\ s.start + assistant \in Nat
        /\ s.messages[assistant].answer \in Nat
    BY <2>4 DEF Messages
  <2>6. span' \in [Procs -> Nat \X Nat] /\ reply' \in [Procs -> Nat]
    BY <2>1, <2>5 DEF TurnsInv, ProcTypes
  <2>7. compressing' \subseteq Names
    BY <2>1 DEF TurnsInv, DaemonTypes
  <2> HIDE DEF n, t
  <2> QED BY <1>2, <2>1, <2>2, <2>6, <2>7, WriteKeeps DEF n
<1>4. CASE s.messages[user].input # job[p].chat.input
  <2>1. RunFails(p)
    BY <1>4 DEF Reuse, RunFails
  <2> QED BY <1>2, <2>1, RunFailsKeeps
<1> QED BY <1>3, <1>4

LEMMA BeginKeeps ==
    ASSUME TurnsInv, NEW p \in Procs, Begin(p)
    PROVE  TurnsInv'
<1> DEFINE n == job[p].name  chat == job[p].chat  s == Load(n)
           refused == \E m \in {m \in s.pending : m.turn = chat.turn} :
                         m.input # chat.input \/ chat.call = 0
<1>1. /\ n \in Names /\ chat.turn \in Turns /\ chat.input \in Inputs
      /\ s \in Conversations /\ Tidy(s)
    BY JobFacts
<1>2. pc[p] \in Locked /\ job[p].kind = "chat" /\ ~Completed(s, chat.turn)
    BY DEF Begin, Locked
<1>3. CASE ~HasReply(s, chat.turn) /\ refused
  <2>1. RunFails(p)
    BY <1>3 DEF Begin, RunFails
  <2> QED BY <1>2, <2>1, RunFailsKeeps
<1>4. CASE ~(~HasReply(s, chat.turn) /\ refused)
  <2> DEFINE began == Began(s, chat.turn, chat.input)
  <2>1. /\ conv' = conv \/ conv' = [conv EXCEPT ![n] = began]
        /\ original' = [original EXCEPT ![p] = conv'[n]]
        /\ Goto(p, "respond")
        /\ UNCHANGED <<lock, observed, tasks, compressing, continuation, effects, client,
                       job, reply, span, bounds, answers>>
    BY <1>4, Zenon DEF Begin
  <2>2. /\ began \in Conversations /\ began.messages = s.messages /\ Tidy(began)
    BY <1>1, BeganFacts DEF Tidy
  <2>3. /\ pc' = [pc EXCEPT ![p] = "respond"] /\ pc' \in [Procs -> Steps]
        /\ pc'[p] = "respond" /\ \A q \in Procs : q # p => pc'[q] = pc[q]
    BY <2>1 DEF Goto, TurnsInv, ProcTypes, Steps
  <2> HIDE DEF began
  <2>4. conv' \in [Names -> Conversations \cup {Absent}]
    BY <2>1, <2>2 DEF TurnsInv, StoreTypes
  <2>5. /\ \A m \in Names : m # n => conv'[m] = conv[m]
        /\ conv'[n] = conv[n] \/ conv'[n] = began
    BY <1>1, <2>1 DEF TurnsInv, StoreTypes
  <2>6. /\ original' \in [Procs -> Conversations \cup {Absent}] /\ original'[p] = conv'[n]
        /\ \A q \in Procs : q # p => original'[q] = original[q]
    BY <1>1, <2>1, <2>4 DEF TurnsInv, ProcTypes
  <2>7. ASSUME NEW m \in Names PROVE Load(m)'.messages = Load(m).messages
    <3>1. began # Absent
      BY <2>2, AbsentAssumption
    <3>2. conv'[m] = conv[m] \/ (m = n /\ conv'[m] = began)
      BY <2>5
    <3>3. CASE conv'[m] = conv[m]
      BY <3>3 DEF Load
    <3>4. CASE m = n /\ conv'[m] = began
      <4>1. Load(m)' = began
        BY <3>1, <3>4 DEF Load
      <4> QED BY <2>2, <3>4, <4>1
    <3> QED BY <3>2, <3>3, <3>4
  <2>8. DaemonTypes' /\ CountTypes' /\ ProcTypes' /\ StoreTypes'
    BY <2>1, <2>3, <2>4, <2>6 DEF DaemonTypes, CountTypes, ProcTypes, StoreTypes, TurnsInv, bounds
  <2>9. ASSUME NEW m \in Names PROVE Tidy(Load(m))'
    <3>1. Load(m)'.messages = Load(m).messages
      BY <2>7
    <3>2. Tidy(Load(m))
      BY DEF TurnsInv, Tidied
    <3> QED BY <3>1, <3>2 DEF Tidy
  <2>10. Resolved'
    BY <2>1, <2>3 DEF Resolved, TurnsInv
  <2>11. UpdatesSerialized' /\ \A r \in Procs : Runs(r)'
    <3>1. Runs(p)'
      <4>1. job' = job /\ Load(n)'.messages = s.messages
        BY <1>1, <2>1, <2>7
      <4>2. ~(Stored(s, chat.turn) /\ Heard(s, chat.turn))
        BY <1>2 DEF Stored, Heard, Completed, HasReply, Positions
      <4> QED BY <1>2, <4>1, <4>2 DEF Runs, Stored, Heard
    <3>2. lock[n] = p /\ lock' = lock /\ job' = job
      BY <1>2, <2>1 DEF TurnsInv, UpdatesSerialized
    <3>3. \A q \in Procs : job[q].name # n =>
             /\ lock'[job[q].name] = lock[job[q].name]
             /\ conv'[job[q].name] = conv[job[q].name]
      BY <2>5, <3>2, JobFacts
    <3> QED BY <1>2, <2>3, <2>6, <3>1, <3>2, <3>3, StepSerialized DEF TurnsInv
  <2> QED BY <2>8, <2>9, <2>10, <2>11 DEF TurnsInv, Tidied
<1> QED BY <1>3, <1>4

LEMMA CommitKeeps ==
    ASSUME TurnsInv, NEW p \in Procs, Commit(p)
    PROVE  TurnsInv'
<1> DEFINE n == job[p].name  t == job[p].chat.turn  s == Load(n)
           after == Answered(s, t, job[p].chat.input, reply[p])
<1>1. /\ n \in Names /\ t \in Turns /\ job[p].chat.input \in Inputs
      /\ s \in Conversations /\ Tidy(s) /\ reply[p] \in Nat
    BY JobFacts DEF TurnsInv, ProcTypes
<1>2. pc[p] \in Locked /\ conv[n] = original[p]
    BY DEF Commit, Locked, Running, TurnsInv, UpdatesSerialized
<1>3. /\ conv' = [conv EXCEPT ![n] = Finished(after, t)]
      /\ span' = [span EXCEPT ![p] = <<NextIndex(after) - 2, NextIndex(after)>>]
      /\ lock' = Unlocked(n) /\ Goto(p, "publish")
      /\ UNCHANGED <<observed, tasks, compressing, continuation, effects, client, job,
                     original, reply, bounds, answers>>
    BY <1>2 DEF Commit
<1>4. /\ after \in Conversations /\ Tidy(after)
      /\ NextIndex(after) \in Nat /\ NextIndex(after) - 2 \in Nat
    BY <1>1, AnsweredFacts, AnsweredSucceeds
<1> HIDE DEF after
<1>5. Finished(after, t) \in Conversations /\ Tidy(Finished(after, t))
    BY <1>1, <1>4, FinishedFacts DEF Tidy
<1>6. span' \in [Procs -> Nat \X Nat] /\ reply' \in [Procs -> Nat] /\ compressing' \subseteq Names
    BY <1>3, <1>4 DEF TurnsInv, ProcTypes, DaemonTypes
<1> QED BY <1>2, <1>3, <1>5, <1>6, WriteKeeps

LEMMA CompressKeeps ==
    ASSUME TurnsInv, NEW p \in Procs, Compress(p)
    PROVE  TurnsInv'
<1> DEFINE n == job[p].name  s == Load(n)
<1>1. n \in Names /\ s \in Conversations /\ Tidy(s)
    BY JobFacts
<1>2. /\ pc[p] \in Locked /\ conv' = [conv EXCEPT ![n] = Compressed(s)]
      /\ lock' = Unlocked(n) /\ Goto(p, "idle")
      /\ compressing' \subseteq compressing
      /\ UNCHANGED <<observed, tasks, continuation, effects, client, job, original, reply,
                     span, bounds, answers>>
    BY DEF Compress, Locked
<1>3. Compressed(s) \in Conversations /\ Tidy(Compressed(s))
    BY <1>1, CompressedFacts, CompressedSucceeds
<1>4. span' \in [Procs -> Nat \X Nat] /\ reply' \in [Procs -> Nat] /\ compressing' \subseteq Names
    BY <1>2 DEF TurnsInv, ProcTypes, DaemonTypes
<1> QED BY <1>2, <1>3, <1>4, WriteKeeps

\* A turn is published, or refused by memory: its update is over.
LEMMA PublishedKeeps ==
    ASSUME TurnsInv, NEW p \in Procs, pc[p] = "publish",
           NEW state \in {"answered", "failed"}, Told(p, state, 0, job[p].chat.input),
           \/ /\ Goto(p, "idle") /\ job' = job
           \/ p \in Locals /\ Goto(p, "lock") /\ job' = [job EXCEPT ![p].kind = "compress"],
           compressing' \subseteq Names,
           DOMAIN observed' \subseteq Names \X Nat \X Nat,
           \A id \in DOMAIN observed' : observed'[id] \in Observations,
           UNCHANGED <<conv, lock, continuation, effects, original, reply, span, bounds,
                       answers>>
    PROVE  TurnsInv'
<1>1. /\ tasks' \in [Names \X Turns -> Chats \cup {Absent}]
      /\ client' \in [Clients -> Asking]
      /\ \A c \in Clients : client'[c].chat.call # 0 => client'[c].name \in Configured
      /\ \A n \in Names, t \in Turns :
            tasks'[<<n, t>>] # Absent /\ tasks'[<<n, t>>].call # 0 => n \in Configured
  <2>1. state \in ClientStates /\ job[p].chat.input \in Inputs /\ 0 \in 0..MaxCalls /\ state # "asked"
    BY JobFacts, BoundsAssumption DEF ClientStates
  <2> QED BY <2>1, ToldTypes DEF TurnsInv
<1>2. /\ pc' \in [Procs -> Steps] /\ pc'[p] \in {"idle", "lock"}
      /\ \A q \in Procs : q # p => pc'[q] = pc[q]
    BY DEF Goto, TurnsInv, ProcTypes, Steps
<1>3. /\ job' \in [Procs -> Jobs] /\ \A q \in Procs : q # p => job'[q] = job[q]
      /\ job'[p].name = job[p].name /\ job'[p].chat = job[p].chat
  <2>1. CASE job' = job
    BY <2>1 DEF TurnsInv, ProcTypes
  <2>2. CASE job' = [job EXCEPT ![p].kind = "compress"]
    BY <2>2 DEF TurnsInv, ProcTypes, Jobs
  <2> QED BY <2>1, <2>2
<1>4. DaemonTypes'
    BY <1>1 DEF DaemonTypes, TurnsInv
<1>5. StoreTypes' /\ CountTypes'
    BY DEF StoreTypes, CountTypes, TurnsInv, bounds
<1>6. ProcTypes'
  <2>1. \A q \in Procs : job'[q].name = job[q].name
    BY <1>3
  <2>2. \A q \in Names : job'[q].name = q
    BY <2>1 DEF TurnsInv, ProcTypes, Procs
  <2> QED BY <1>2, <1>3, <2>2 DEF ProcTypes, TurnsInv
<1>7. Tidied'
    BY DEF Tidied, Tidy, Load, TurnsInv
<1>8. Resolved'
  <2>1. \A q \in Procs : job'[q].chat = job[q].chat
    BY <1>3
  <2>2. \A q \in Procs : pc'[q] = "resumed" => pc[q] = "resumed"
    BY <1>2
  <2> QED BY <1>1, <2>1, <2>2 DEF Resolved, TurnsInv
<1>9. UpdatesSerialized' /\ \A r \in Procs : Runs(r)'
  <2>1. \A q \in Procs : pc'[q] \in Locked =>
           /\ pc'[q] = pc[q] /\ job'[q] = job[q] /\ original'[q] = original[q]
           /\ lock'[job[q].name] = lock[job[q].name]
           /\ conv'[job[q].name] = conv[job[q].name]
    BY <1>2, <1>3 DEF Locked
  <2> QED BY <2>1, OthersSerialized DEF TurnsInv
<1> QED BY <1>4, <1>5, <1>6, <1>7, <1>8, <1>9 DEF TurnsInv

LEMMA PublishKeeps ==
    ASSUME TurnsInv, NEW p \in Procs, NEW admitted \in BOOLEAN, Publish(p, admitted)
    PROVE  TurnsInv'
<1>1. /\ ObservationId(p) \in Names \X Nat \X Nat /\ Content(p) \in Observations
  <2>1. span[p] \in Nat \X Nat /\ reply[p] \in Nat
    BY DEF TurnsInv, ProcTypes
  <2> QED BY <2>1, JobFacts DEF ObservationId, Content, Observations
<1>2. /\ DOMAIN observed' \subseteq Names \X Nat \X Nat
      /\ \A id \in DOMAIN observed' : observed'[id] \in Observations
  <2>1. observed' = [k \in DOMAIN observed \cup {ObservationId(p)} |->
                        IF k \in DOMAIN observed THEN observed[k] ELSE Content(p)]
    BY DEF Publish
  <2> QED BY <1>1, <2>1 DEF TurnsInv, StoreTypes
<1>3. compressing' \subseteq Names
    BY JobFacts DEF Publish, TurnsInv, DaemonTypes
<1>4. \/ /\ Goto(p, "idle") /\ job' = job
      \/ p \in Locals /\ Goto(p, "lock") /\ job' = [job EXCEPT ![p].kind = "compress"]
    BY DEF Publish
<1>5. /\ pc[p] = "publish" /\ Told(p, "answered", 0, job[p].chat.input)
      /\ UNCHANGED <<conv, lock, continuation, effects, original, reply, span, bounds, answers>>
    BY DEF Publish
<1> QED BY <1>2, <1>3, <1>4, <1>5, PublishedKeeps

LEMMA PublishFailsKeeps ==
    ASSUME TurnsInv, NEW p \in Procs, PublishFails(p)
    PROVE  TurnsInv'
<1>1. /\ pc[p] = "publish" /\ Told(p, "failed", 0, job[p].chat.input)
      /\ Goto(p, "idle") /\ job' = job
      /\ UNCHANGED <<conv, lock, continuation, effects, original, reply, span, bounds, answers>>
      /\ observed' = observed /\ compressing' = compressing
    BY DEF PublishFails
<1>2. /\ compressing' \subseteq Names
      /\ DOMAIN observed' \subseteq Names \X Nat \X Nat
      /\ \A id \in DOMAIN observed' : observed'[id] \in Observations
    BY <1>1 DEF TurnsInv, DaemonTypes, StoreTypes
<1> QED BY <1>1, <1>2, PublishedKeeps

\* A process takes up a new task.
LEMMA StartKeeps ==
    ASSUME TurnsInv, NEW p \in Procs, pc[p] = "idle", Goto(p, "lock"),
           NEW new \in Jobs, job' = [job EXCEPT ![p] = new],
           p \in Names => new.name = p,
           new.chat.call # 0 => p \in Names /\ p \in Configured,
           submissions' \in Nat,
           UNCHANGED <<conv, lock, observed, daemonVars, effects, client, original, reply,
                       span, managed, crashes, answers>>
    PROVE  TurnsInv'
<1>1. /\ pc' \in [Procs -> Steps] /\ pc'[p] = "lock"
      /\ \A q \in Procs : q # p => pc'[q] = pc[q]
    BY DEF Goto, TurnsInv, ProcTypes, Steps
<1>2. /\ job' \in [Procs -> Jobs] /\ job'[p] = new
      /\ \A q \in Procs : q # p => job'[q] = job[q]
    BY DEF TurnsInv, ProcTypes
<1>3. DaemonTypes' /\ StoreTypes' /\ CountTypes'
    BY DEF DaemonTypes, StoreTypes, CountTypes, TurnsInv, daemonVars
<1>4. ProcTypes'
  <2>1. \A q \in Names : job'[q].name = q
    BY <1>2 DEF TurnsInv, ProcTypes, Procs
  <2> QED BY <1>1, <1>2, <2>1 DEF ProcTypes, TurnsInv
<1>5. Tidied'
    BY DEF Tidied, Tidy, Load, TurnsInv
<1>6. Resolved'
    BY <1>1, <1>2 DEF Resolved, TurnsInv, daemonVars
<1>7. UpdatesSerialized' /\ \A r \in Procs : Runs(r)'
  <2>1. \A q \in Procs : pc'[q] \in Locked =>
           /\ pc'[q] = pc[q] /\ job'[q] = job[q] /\ original'[q] = original[q]
           /\ lock'[job[q].name] = lock[job[q].name]
           /\ conv'[job[q].name] = conv[job[q].name]
    BY <1>1, <1>2 DEF Locked
  <2> QED BY <2>1, OthersSerialized DEF TurnsInv
<1> QED BY <1>3, <1>4, <1>5, <1>6, <1>7 DEF TurnsInv

LEMMA LaneRunsKeeps ==
    ASSUME TurnsInv, NEW n \in Names, LaneRuns(n)
    PROVE  TurnsInv'
<1>1. n \in Procs /\ pc[n] = "idle" /\ Goto(n, "lock")
      /\ UNCHANGED <<conv, lock, observed, daemonVars, effects, client, original, reply,
                     span, managed, crashes, answers>>
      /\ submissions' \in Nat
    BY DEF LaneRuns, Procs, bounds, TurnsInv, CountTypes
<1>2. job[n] \in Jobs /\ job[n].name = n /\ job \in [Procs -> Jobs]
    BY <1>1 DEF TurnsInv, ProcTypes
<1>3. CASE \E t \in Turns : /\ tasks[<<n, t>>] # Absent
                            /\ job' = [job EXCEPT ![n].kind = "chat",
                                                  ![n].chat = tasks[<<n, t>>]]
  <2>1. PICK t \in Turns : /\ tasks[<<n, t>>] # Absent
                           /\ job' = [job EXCEPT ![n].kind = "chat",
                                                 ![n].chat = tasks[<<n, t>>]]
    BY <1>3
  <2> DEFINE chat == tasks[<<n, t>>]
             new == [job[n] EXCEPT !.kind = "chat", !.chat = chat]
  <2>2. chat \in Chats /\ (chat.call # 0 => n \in Configured)
    BY <2>1 DEF TurnsInv, DaemonTypes, Resolved
  <2> HIDE DEF chat
  <2>3. new \in Jobs /\ new.name = n /\ new.chat = chat
    BY <1>2, <2>2 DEF Jobs
  <2>4. job' = [job EXCEPT ![n] = new]
    BY <1>1, <1>2, <2>1 DEF chat
  <2> HIDE DEF new
  <2> QED BY <1>1, <2>2, <2>3, <2>4, StartKeeps
<1>4. CASE job' = [job EXCEPT ![n].kind = "compress"]
  <2> DEFINE new == [job[n] EXCEPT !.kind = "compress"]
  <2>1. new \in Jobs /\ new.name = n /\ new.chat = job[n].chat
    BY <1>2 DEF Jobs
  <2>2. job' = [job EXCEPT ![n] = new]
    BY <1>1, <1>2, <1>4
  <2>3. new.chat.call # 0 => n \in Names /\ n \in Configured
    BY <1>1, <2>1 DEF TurnsInv, Resolved
  <2> HIDE DEF new
  <2> QED BY <1>1, <2>1, <2>2, <2>3, StartKeeps
<1> QED BY <1>3, <1>4 DEF LaneRuns

LEMMA LocalChatKeeps ==
    ASSUME TurnsInv, NEW p \in Locals, NEW n \in Names, NEW t \in Turns, NEW i \in Inputs,
           LocalChat(p, n, t, i)
    PROVE  TurnsInv'
<1> DEFINE chat == [turn |-> t, input |-> i, call |-> 0]
           new == [kind |-> "chat", name |-> n, chat |-> chat]
<1>1. chat \in Chats /\ new \in Jobs /\ new.chat.call = 0
    BY BoundsAssumption DEF Chats, Jobs
<1>2. /\ p \in Procs /\ p \notin Names /\ pc[p] = "idle" /\ Goto(p, "lock")
      /\ job' = [job EXCEPT ![p] = new] /\ submissions' \in Nat
      /\ UNCHANGED <<conv, lock, observed, daemonVars, effects, client, original, reply,
                     span, managed, crashes, answers>>
    BY ProcsAssumption DEF LocalChat, Procs, TurnsInv, CountTypes
<1> HIDE DEF new
<1> QED BY <1>1, <1>2, StartKeeps

\* A client asks or gives up, the scan finds conversations.
LEMMA DaemonKeeps ==
    ASSUME TurnsInv, DaemonTypes', submissions' \in Nat,
           \A c \in Clients : client'[c].chat.call # 0 => client'[c].name \in Configured,
           \A n \in Names, t \in Turns :
              tasks'[<<n, t>>] # Absent /\ tasks'[<<n, t>>].call # 0 => n \in Configured,
           UNCHANGED <<conv, lock, observed, effects, procVars, managed, crashes, answers>>
    PROVE  TurnsInv'
<1>1. StoreTypes' /\ ProcTypes' /\ CountTypes'
    BY DEF StoreTypes, ProcTypes, CountTypes, TurnsInv, procVars
<1>2. Tidied'
    BY DEF Tidied, Tidy, Load, TurnsInv
<1>3. Resolved'
    BY DEF Resolved, TurnsInv, procVars
<1>4. UpdatesSerialized' /\ \A r \in Procs : Runs(r)'
  <2>1. \A q \in Procs :
           /\ pc'[q] = pc[q] /\ job'[q] = job[q] /\ original'[q] = original[q]
           /\ lock'[job[q].name] = lock[job[q].name]
           /\ conv'[job[q].name] = conv[job[q].name]
    BY DEF procVars
  <2> QED BY <2>1, OthersSerialized DEF TurnsInv
<1> QED BY <1>1, <1>2, <1>3, <1>4 DEF TurnsInv

LEMMA RequestKeeps ==
    ASSUME TurnsInv, NEW c \in Clients, NEW n \in Names, NEW chat \in Chats,
           chat.call # 0 => n \in Configured, Request(c, n, chat)
    PROVE  TurnsInv'
<1>1. /\ tasks' = Submitted(n, chat) /\ submissions' = submissions + 1
      /\ client' = [client EXCEPT ![c].state = "waiting", ![c].name = n, ![c].chat = chat]
      /\ UNCHANGED <<conv, lock, observed, compressing, continuation, effects, procVars,
                     managed, crashes, answers>>
    BY DEF Request
<1>2. /\ tasks' \in [Names \X Turns -> Chats \cup {Absent}]
      /\ \A m \in Names, t \in Turns :
            tasks'[<<m, t>>] = tasks[<<m, t>>] \/ (m = n /\ tasks'[<<m, t>>] = chat)
    BY <1>1 DEF Submitted, Chats, TurnsInv, DaemonTypes
<1>3. client[c] \in Asking
    BY DEF TurnsInv, DaemonTypes
<1> DEFINE new == [client[c] EXCEPT !.state = "waiting", !.name = n, !.chat = chat]
<1>4. new \in Asking /\ new.name = n /\ new.chat = chat
    BY <1>3 DEF Asking, ClientStates
<1>5. client' = [client EXCEPT ![c] = new]
    BY <1>1, <1>3 DEF TurnsInv, DaemonTypes
<1> HIDE DEF new
<1>6. /\ client' \in [Clients -> Asking] /\ client'[c] = new
      /\ \A d \in Clients : d # c => client'[d] = client[d]
    BY <1>4, <1>5 DEF TurnsInv, DaemonTypes
<1>7. DaemonTypes' /\ submissions' \in Nat
    BY <1>1, <1>2, <1>6 DEF DaemonTypes, TurnsInv, CountTypes
<1>8. \A d \in Clients : client'[d].chat.call # 0 => client'[d].name \in Configured
    BY <1>4, <1>6 DEF TurnsInv, Resolved
<1>9. \A m \in Names, t \in Turns :
         tasks'[<<m, t>>] # Absent /\ tasks'[<<m, t>>].call # 0 => m \in Configured
    BY <1>2 DEF TurnsInv, Resolved
<1> QED BY <1>1, <1>7, <1>8, <1>9, DaemonKeeps

LEMMA AskKeeps ==
    ASSUME TurnsInv, NEW c \in Clients, NEW n \in Names, NEW t \in Turns, NEW i \in Inputs,
           Ask(c, n, t, i)
    PROVE  TurnsInv'
<1> DEFINE chat == [turn |-> t, input |-> i, call |-> 0]
<1>1. chat \in Chats /\ chat.call = 0 /\ Request(c, n, chat)
    BY BoundsAssumption DEF Ask, Chats
<1> HIDE DEF chat
<1> QED BY <1>1, RequestKeeps

LEMMA ResendKeeps ==
    ASSUME TurnsInv, NEW c \in Clients, Resend(c)
    PROVE  TurnsInv'
<1>1. client[c].name \in Names /\ client[c].chat \in Chats
    BY DEF TurnsInv, DaemonTypes, Asking
<1>2. client[c].chat.call # 0 => client[c].name \in Configured
    BY DEF TurnsInv, Resolved
<1> QED BY <1>1, <1>2, RequestKeeps DEF Resend

LEMMA GiveUpKeeps ==
    ASSUME TurnsInv, NEW c \in Clients, GiveUp(c)
    PROVE  TurnsInv'
<1> DEFINE new == [client[c] EXCEPT !.state = "gaveup"]
<1>1. client[c] \in Asking
    BY DEF TurnsInv, DaemonTypes
<1>2. new \in Asking /\ new.chat = client[c].chat /\ new.name = client[c].name
    BY <1>1 DEF Asking, ClientStates
<1>3. client' = [client EXCEPT ![c] = new]
    BY <1>1 DEF GiveUp, TurnsInv, DaemonTypes
<1> HIDE DEF new
<1>4. /\ client' \in [Clients -> Asking]
      /\ \A d \in Clients : client'[d].chat = client[d].chat /\ client'[d].name = client[d].name
    BY <1>2, <1>3 DEF TurnsInv, DaemonTypes
<1>5. /\ UNCHANGED <<conv, lock, observed, effects, procVars, managed, crashes, answers>>
      /\ UNCHANGED <<tasks, compressing, continuation, submissions>>
    BY DEF GiveUp, daemonVars, bounds
<1>6. DaemonTypes' /\ submissions' \in Nat
    BY <1>4, <1>5 DEF DaemonTypes, TurnsInv, CountTypes
<1>7. \A d \in Clients : client'[d].chat.call # 0 => client'[d].name \in Configured
    BY <1>4 DEF TurnsInv, Resolved
<1>8. \A m \in Names, t \in Turns :
         tasks'[<<m, t>>] # Absent /\ tasks'[<<m, t>>].call # 0 => m \in Configured
    BY <1>5 DEF TurnsInv, Resolved
<1> QED BY <1>5, <1>6, <1>7, <1>8, DaemonKeeps

LEMMA ScanKeeps ==
    ASSUME TurnsInv, Scan
    PROVE  TurnsInv'
<1>1. /\ UNCHANGED <<conv, lock, observed, effects, procVars, managed, crashes, answers>>
      /\ UNCHANGED <<tasks, client, continuation, submissions>>
      /\ compressing' \subseteq compressing \cup Names
    BY DEF Scan, bounds
<1>2. DaemonTypes' /\ submissions' \in Nat
    BY <1>1 DEF DaemonTypes, TurnsInv, CountTypes
<1> QED BY <1>1, <1>2, DaemonKeeps DEF TurnsInv, Resolved

\* The user's management takes place under the locks of the conversations it changes.
LEMMA ManagedKeeps ==
    ASSUME TurnsInv, NEW changed \in [Names -> Conversations \cup {Absent}],
           \A n \in Names : lock[n] # Nobody => changed[n] = conv[n],
           \A n \in Names : changed[n] # Absent => Tidy(changed[n]),
           Managed(changed)
    PROVE  TurnsInv'
<1>1. /\ conv' = changed /\ managed' = managed + 1
      /\ UNCHANGED <<lock, observed, daemonVars, effects, client, procVars,
                     submissions, crashes, answers>>
    BY DEF Managed
<1>2. DaemonTypes' /\ StoreTypes' /\ ProcTypes' /\ CountTypes'
    BY <1>1 DEF DaemonTypes, StoreTypes, ProcTypes, CountTypes, TurnsInv, daemonVars, procVars
<1>3. Tidied'
  <2> SUFFICES ASSUME NEW n \in Names PROVE Tidy(Load(n))'
    BY DEF Tidied
  <2>1. CASE changed[n] = Absent
    <3>1. Load(n)' = Empty
      BY <1>1, <2>1 DEF Load, Empty
    <3>2. Len(Empty.messages) = 0
      BY DEF Empty
    <3> QED BY <3>1, <3>2 DEF Tidy
  <2>2. CASE changed[n] # Absent
    <3>1. Load(n)' = changed[n]
      BY <1>1, <2>2 DEF Load
    <3> QED BY <2>2, <3>1 DEF Tidy
  <2> QED BY <2>1, <2>2
<1>4. Resolved'
    BY <1>1 DEF Resolved, TurnsInv, daemonVars, procVars
<1>5. UpdatesSerialized' /\ \A r \in Procs : Runs(r)'
  <2>1. \A q \in Procs :
           /\ pc'[q] = pc[q] /\ job'[q] = job[q] /\ original'[q] = original[q]
           /\ lock[job[q].name] = q =>
                 /\ lock'[job[q].name] = q
                 /\ conv'[job[q].name] = conv[job[q].name]
    BY <1>1, ProcsAssumption, JobFacts DEF procVars
  <2> QED BY <2>1, OthersSerialized DEF TurnsInv
<1> QED BY <1>2, <1>3, <1>4, <1>5 DEF TurnsInv

LEMMA StoredTypes ==
    ASSUME TurnsInv
    PROVE  /\ conv \in [Names -> Conversations \cup {Absent}]
           /\ \A n \in Names : conv[n] # Absent => conv[n] \in Conversations /\ Tidy(conv[n])
<1>1. conv \in [Names -> Conversations \cup {Absent}]
    BY DEF TurnsInv, StoreTypes
<1>2. ASSUME NEW n \in Names, conv[n] # Absent PROVE Tidy(conv[n])
    BY <1>2 DEF TurnsInv, Tidied, Load
<1> QED BY <1>1, <1>2

LEMMA RenameKeeps ==
    ASSUME TurnsInv, NEW n \in Names, NEW m \in Names, Rename(n, m)
    PROVE  TurnsInv'
<1> DEFINE changed == [conv EXCEPT ![m] = conv[n], ![n] = Absent]
<1>1. /\ n # m /\ lock[n] = Nobody /\ lock[m] = Nobody /\ conv[n] # Absent
      /\ Managed(changed)
    BY DEF Rename, LockFree
<1>2. \A k \in Names : changed[k] = IF k = n THEN Absent ELSE IF k = m THEN conv[n] ELSE conv[k]
    BY <1>1, StoredTypes
<1>3. changed \in [Names -> Conversations \cup {Absent}]
    BY <1>1, StoredTypes
<1> HIDE DEF changed
<1>4. \A k \in Names : /\ lock[k] # Nobody => changed[k] = conv[k]
                       /\ changed[k] # Absent => Tidy(changed[k])
    BY <1>1, <1>2, StoredTypes
<1> QED BY <1>1, <1>3, <1>4, ManagedKeeps

LEMMA BranchKeeps ==
    ASSUME TurnsInv, NEW n \in Names, NEW m \in Names, NEW k \in Nat, Branch(n, m, k)
    PROVE  TurnsInv'
<1> DEFINE new == [Empty EXCEPT !.messages = SubSeq(conv[n].messages, 1, k),
                                !.start = conv[n].start]
           changed == [conv EXCEPT ![m] = new]
           M == conv[n].messages
<1>1. /\ lock[m] = Nobody /\ conv[n] # Absent /\ k <= Len(M) /\ Managed(changed)
    BY DEF Branch, LockFree
<1>2. conv[n] \in Conversations /\ Tidy(conv[n])
    BY <1>1, StoredTypes
<1>3. M \in Seq(Messages) /\ Len(M) \in Nat /\ conv[n].start \in Nat
    BY <1>2 DEF Conversations
<1> DEFINE K == SubSeq(M, 1, k)
<1>4. \A j \in 1..k : M[j] \in Messages
    BY <1>1, <1>3
<1>5. K \in Seq(Messages) /\ Len(K) = k /\ \A j \in 1..k : K[j] = M[j]
    BY <1>1, <1>3, <1>4, SubSeqProperties
<1> HIDE DEF K
<1>6. /\ Empty \in Conversations
      /\ new = [Empty EXCEPT !.messages = K, !.start = conv[n].start]
    BY DEF Empty, K, Conversations
<1> HIDE DEF new
<1>7. new \in Conversations /\ new.messages = K
    BY <1>3, <1>5, <1>6 DEF Conversations
<1>8. Tidy(new)
    BY <1>1, <1>2, <1>3, <1>5, <1>7 DEF Tidy
<1>9. changed \in [Names -> Conversations \cup {Absent}]
    BY <1>7, StoredTypes
<1>10. \A j \in Names : changed[j] = IF j = m THEN new ELSE conv[j]
    BY StoredTypes
<1> HIDE DEF changed
<1>11. \A j \in Names : /\ lock[j] # Nobody => changed[j] = conv[j]
                        /\ changed[j] # Absent => Tidy(changed[j])
    BY <1>1, <1>8, <1>10, StoredTypes
<1> QED BY <1>1, <1>9, <1>11, ManagedKeeps

LEMMA SetArchivedKeeps ==
    ASSUME TurnsInv, NEW n \in Names, NEW archived \in BOOLEAN, SetArchived(n, archived)
    PROVE  TurnsInv'
<1> DEFINE changed == [conv EXCEPT ![n].archived = archived]
           new == [conv[n] EXCEPT !.archived = archived]
<1>1. lock[n] = Nobody /\ conv[n] # Absent /\ Managed(changed)
    BY DEF SetArchived, LockFree
<1>2. conv[n] \in Conversations /\ Tidy(conv[n])
    BY <1>1, StoredTypes
<1>3. new \in Conversations /\ new.messages = conv[n].messages
    BY <1>2 DEF Conversations
<1>4. changed = [conv EXCEPT ![n] = new]
    BY StoredTypes
<1> HIDE DEF new, changed
<1>5. /\ changed \in [Names -> Conversations \cup {Absent}]
      /\ \A j \in Names : changed[j] = IF j = n THEN new ELSE conv[j]
    BY <1>3, <1>4, StoredTypes
<1>6. Tidy(new)
    BY <1>2, <1>3 DEF Tidy
<1>7. \A j \in Names : /\ lock[j] # Nobody => changed[j] = conv[j]
                       /\ changed[j] # Absent => Tidy(changed[j])
    BY <1>1, <1>5, <1>6, StoredTypes
<1> QED BY <1>1, <1>5, <1>7, ManagedKeeps DEF changed

LEMMA DeleteKeeps ==
    ASSUME TurnsInv, NEW n \in Names, Delete(n)
    PROVE  TurnsInv'
<1> DEFINE changed == [conv EXCEPT ![n] = Absent]
<1>1. lock[n] = Nobody /\ Managed(changed)
    BY DEF Delete, LockFree
<1>2. /\ changed \in [Names -> Conversations \cup {Absent}]
      /\ \A j \in Names : changed[j] = IF j = n THEN Absent ELSE conv[j]
    BY StoredTypes
<1> HIDE DEF changed
<1>3. \A j \in Names : /\ lock[j] # Nobody => changed[j] = conv[j]
                       /\ changed[j] # Absent => Tidy(changed[j])
    BY <1>1, <1>2, StoredTypes
<1> QED BY <1>1, <1>2, <1>3, ManagedKeeps

LEMMA CrashDaemonKeeps ==
    ASSUME TurnsInv, CrashDaemon
    PROVE  TurnsInv'
<1> DEFINE New(c) == IF client[c].state = "waiting"
                     THEN [client[c] EXCEPT !.state = "failed"] ELSE client[c]
<1>1. /\ crashes' = crashes + 1
      /\ lock' = [n \in Names |-> IF lock[n] \in Names THEN Nobody ELSE lock[n]]
      /\ tasks' = [id \in DOMAIN tasks |-> Absent]
      /\ compressing' = {}
      /\ continuation' = [id \in DOMAIN continuation |-> 0]
      /\ client' = [c \in Clients |-> New(c)]
      /\ pc' = [p \in Procs |-> IF p \in Names THEN "idle" ELSE pc[p]]
      /\ UNCHANGED <<conv, observed, effects, job, original, reply, span,
                     submissions, managed, answers>>
    BY DEF CrashDaemon
<1>2. ASSUME NEW c \in Clients
      PROVE  New(c) \in Asking /\ New(c).chat = client[c].chat /\ New(c).name = client[c].name
    BY DEF TurnsInv, DaemonTypes, Asking, ClientStates
<1> HIDE DEF New
<1>3. DaemonTypes'
    BY <1>1, <1>2, BoundsAssumption DEF DaemonTypes, TurnsInv
<1>4. StoreTypes'
    BY <1>1 DEF StoreTypes, TurnsInv
<1>5. ProcTypes' /\ CountTypes'
    BY <1>1 DEF ProcTypes, CountTypes, TurnsInv, Steps
<1>6. Tidied'
    BY <1>1 DEF Tidied, Tidy, Load, TurnsInv
<1>7. Resolved'
  <2>1. \A p \in Procs : pc'[p] = "resumed" => pc[p] = "resumed"
    BY <1>1
  <2>2. \A n \in Names, t \in Turns : tasks'[<<n, t>>] = Absent
    BY <1>1 DEF TurnsInv, DaemonTypes
  <2> QED BY <1>1, <1>2, <2>1, <2>2 DEF Resolved, TurnsInv
<1>8. UpdatesSerialized' /\ \A r \in Procs : Runs(r)'
  <2>1. ASSUME NEW q \in Procs, pc'[q] \in Locked
        PROVE  /\ pc'[q] = pc[q] /\ job'[q] = job[q] /\ original'[q] = original[q]
               /\ lock[job[q].name] = q =>
                     /\ lock'[job[q].name] = q
                     /\ conv'[job[q].name] = conv[job[q].name]
    <3>1. q \notin Names /\ pc'[q] = pc[q]
      BY <1>1, <2>1 DEF Locked
    <3> QED BY <1>1, <3>1, JobFacts
  <2> QED BY <2>1, OthersSerialized DEF TurnsInv
<1> QED BY <1>3, <1>4, <1>5, <1>6, <1>7, <1>8 DEF TurnsInv

LEMMA CrashLocalKeeps ==
    ASSUME TurnsInv, NEW p \in Locals, CrashLocal(p)
    PROVE  TurnsInv'
<1>1. /\ crashes' = crashes + 1 /\ p \in Procs
      /\ lock' = [n \in Names |-> IF lock[n] = p THEN Nobody ELSE lock[n]]
      /\ pc' = [pc EXCEPT ![p] = "idle"]
      /\ UNCHANGED <<conv, observed, tasks, compressing, continuation, effects, client, job,
                     original, reply, span, submissions, managed, answers>>
    BY DEF CrashLocal, Goto, Procs, daemonVars
<1>2. /\ pc' \in [Procs -> Steps] /\ pc'[p] = "idle"
      /\ \A q \in Procs : q # p => pc'[q] = pc[q]
    BY <1>1 DEF TurnsInv, ProcTypes, Steps
<1>3. DaemonTypes' /\ ProcTypes' /\ CountTypes'
    BY <1>1, <1>2 DEF DaemonTypes, ProcTypes, CountTypes, TurnsInv
<1>4. StoreTypes'
    BY <1>1 DEF StoreTypes, TurnsInv
<1>5. Tidied'
    BY <1>1 DEF Tidied, Tidy, Load, TurnsInv
<1>6. Resolved'
    BY <1>1, <1>2 DEF Resolved, TurnsInv
<1>7. UpdatesSerialized' /\ \A r \in Procs : Runs(r)'
  <2>1. ASSUME NEW q \in Procs, pc'[q] \in Locked
        PROVE  /\ pc'[q] = pc[q] /\ job'[q] = job[q] /\ original'[q] = original[q]
               /\ lock[job[q].name] = q =>
                     /\ lock'[job[q].name] = q
                     /\ conv'[job[q].name] = conv[job[q].name]
    <3>1. q # p /\ pc'[q] = pc[q]
      BY <1>2, <2>1 DEF Locked
    <3> QED BY <1>1, <3>1, JobFacts
  <2> QED BY <2>1, OthersSerialized DEF TurnsInv
<1> QED BY <1>3, <1>4, <1>5, <1>6, <1>7 DEF TurnsInv

LEMMA TurnsBegin ==
    ASSUME Init
    PROVE  TurnsInv
<1>1. AnyOf(Names) \in Names /\ AnyOf(Turns) \in Turns /\ AnyOf(Inputs) \in Inputs
    BY ProcsAssumption DEF AnyOf
<1>2. SomeChat \in Chats /\ SomeChat.call = 0
    BY <1>1, BoundsAssumption DEF SomeChat, Chats
<1>3. DaemonTypes
    BY <1>1, <1>2, BoundsAssumption DEF Init, DaemonTypes, Asking, ClientStates
<1>4. StoreTypes /\ CountTypes
    BY DEF Init, StoreTypes, CountTypes, FailureAnswer
<1>5. /\ job = [p \in Procs |-> [kind |-> "chat", chat |-> SomeChat,
                                 name |-> IF p \in Names THEN p ELSE AnyOf(Names)]]
      /\ pc = [p \in Procs |-> "idle"]
    BY DEF Init
<1>6. job \in [Procs -> Jobs] /\ \A n \in Names : job[n].name = n
  <2>1. \A p \in Procs : job[p] \in Jobs
    BY <1>1, <1>2, <1>5 DEF Jobs
  <2> QED BY <1>5, <2>1 DEF Procs
<1>7. ProcTypes
    BY <1>5, <1>6 DEF Init, ProcTypes, Steps, LocalAnswer
<1>8. Tidied
  <2>1. \A n \in Names : Load(n) = Empty
    BY DEF Init, Load
  <2>2. Len(Empty.messages) = 0
    BY DEF Empty
  <2> QED BY <2>1, <2>2 DEF Tidied, Tidy
<1>9. Resolved
  <2>1. \A p \in Procs : job[p].chat.call = 0 /\ pc[p] = "idle"
    BY <1>2, <1>5
  <2>2. \A c \in Clients : client[c].chat.call = 0
    BY <1>2 DEF Init
  <2>3. \A n \in Names, t \in Turns : tasks[<<n, t>>] = Absent
    BY DEF Init
  <2> QED BY <2>1, <2>2, <2>3 DEF Resolved
<1>10. UpdatesSerialized /\ \A p \in Procs : Runs(p)
    BY <1>5 DEF UpdatesSerialized, Runs, Locked, Running
<1> QED BY <1>3, <1>4, <1>7, <1>8, <1>9, <1>10 DEF TurnsInv

LEMMA TurnsGoOn ==
    ASSUME TurnsInv, [Next]_vars
    PROVE  TurnsInv'
<1>1. ASSUME NEW c \in Clients, NEW n \in Names, NEW t \in Turns, NEW i \in Inputs,
             Ask(c, n, t, i)
      PROVE  TurnsInv'
    BY <1>1, AskKeeps
<1>2. ASSUME NEW c \in Clients, Resend(c) \/ GiveUp(c) PROVE TurnsInv'
    BY <1>2, ResendKeeps, GiveUpKeeps
<1>3. ASSUME NEW p \in Locals, NEW n \in Names, NEW t \in Turns, NEW i \in Inputs,
             LocalChat(p, n, t, i)
      PROVE  TurnsInv'
    BY <1>3, LocalChatKeeps
<1>4. ASSUME NEW n \in Names, LaneRuns(n) PROVE TurnsInv'
    BY <1>4, LaneRunsKeeps
<1>5. ASSUME NEW p \in Procs, Work(p) PROVE TurnsInv'
    BY <1>5, AcquireKeeps, ReuseKeeps, BeginKeeps, RunFreshKeeps, RespondUnconfiguredKeeps,
       ContinuationLostKeeps, AskAgainKeeps, ApproveInTerminalKeeps, AfterResumeKeeps,
       ResumeKeeps, CommitKeeps, CompressKeeps, PublishFailsKeeps, PublishKeeps
       DEF Work
<1>6. ASSUME NEW n \in Names, NEW m \in Names, Rename(n, m) PROVE TurnsInv'
    BY <1>6, RenameKeeps
<1>7. ASSUME NEW n \in Names, NEW m \in Names, NEW k \in 0..(2 * MaxSubmissions),
             Branch(n, m, k)
      PROVE  TurnsInv'
  <2>1. k \in Nat
    BY BoundsAssumption
  <2> QED BY <1>7, <2>1, BranchKeeps
<1>8. ASSUME NEW n \in Names, NEW archived \in BOOLEAN, SetArchived(n, archived)
      PROVE  TurnsInv'
    BY <1>8, SetArchivedKeeps
<1>9. ASSUME NEW n \in Names, Delete(n) PROVE TurnsInv'
    BY <1>9, DeleteKeeps
<1>10. ASSUME NEW p \in Locals, CrashLocal(p) PROVE TurnsInv'
    BY <1>10, CrashLocalKeeps
<1>11. CASE UNCHANGED vars
    BY <1>11 DEF vars, daemonVars, procVars, bounds, TurnsInv, DaemonTypes, StoreTypes,
       ProcTypes, CountTypes, Tidied, Tidy, Load, Resolved, UpdatesSerialized, Runs, Stored, Heard
<1> QED BY <1>1, <1>2, <1>3, <1>4, <1>5, <1>6, <1>7, <1>8, <1>9, <1>10, <1>11,
           ScanKeeps, CrashDaemonKeeps DEF Next

THEOREM TurnsInvAlways == Spec => []TurnsInv
<1>1. Init => TurnsInv
    BY TurnsBegin
<1>2. TurnsInv /\ [Next]_vars => TurnsInv'
    BY TurnsGoOn
<1> QED BY <1>1, <1>2, PTL DEF Spec

-----------------------------------------------------------------------------
(* What a conversation keeps in every step *)

\* What an uncut conversation remembers: which turns it heard and replied to.
Remembers(s, later) ==
    later.start = 0 =>
       \A t \in Turns : /\ Stored(later, t) => Stored(s, t) \/ Heard(later, t)
                        /\ Heard(s, t) => Heard(later, t)
                        /\ Replied(s, t) => Replied(later, t)

\* A later state of a conversation: its indexes go on, and a marker it lost has its reply.
Follows(s, later) ==
    /\ later \in Conversations
    /\ Succeeds(s, later) /\ Remembers(s, later)
    /\ \A m \in s.pending \ later.pending : Stored(later, m.turn)

LEMMA SameFollows ==
    ASSUME NEW s \in Conversations, NEW later \in Conversations,
           later.messages = s.messages, later.start = s.start,
           \A m \in s.pending \ later.pending : Stored(s, m.turn)
    PROVE  Follows(s, later)
BY SameMessagesSucceed DEF Follows, Remembers, Stored, Heard, Replied

LEMMA CompressedRemembers ==
    ASSUME NEW s \in Conversations
    PROVE  /\ Remembers(s, Compressed(s))
           /\ Compressed(s).start = 0 =>
                 \A t \in Turns : Stored(Compressed(s), t) => Stored(s, t)
<1> DEFINE after == Compressed(s)
           L == Len(s.messages)
<1>1. PICK d \in 0..L :
          /\ after.start = s.start + d /\ Len(after.messages) = L - d
          /\ \A k \in 1..(L - d) : after.messages[k] = s.messages[k + d]
    BY CompressedFacts
<1>2. after \in Conversations
    BY CompressedFacts
<1>3. s.start \in Nat /\ L \in Nat /\ s.messages \in Seq(Messages) /\ after.messages \in Seq(Messages)
    BY <1>2 DEF Conversations
<1> HIDE DEF after
<1> SUFFICES ASSUME after.start = 0
             PROVE  \A t \in Turns : /\ Stored(after, t) => Stored(s, t)
                                     /\ Heard(s, t) => Heard(after, t)
                                     /\ Replied(s, t) => Replied(after, t)
    BY DEF Remembers, after
<1>4. d = 0
    BY <1>1, <1>3
<1>5. /\ DOMAIN after.messages = 1..L /\ DOMAIN s.messages = 1..L
      /\ \A k \in 1..L : after.messages[k] = s.messages[k]
    BY <1>1, <1>3, <1>4
<1> HIDE DEF L
<1> QED BY <1>5 DEF Stored, Heard, Replied

LEMMA WriteFollows ==
    ASSUME TurnsInv, NEW n \in Names, NEW after, Follows(Load(n), after),
           conv' = [conv EXCEPT ![n] = after] \/ conv' = conv, NEW m \in Names
    PROVE  Follows(Load(m), Load(m)')
<1>1. Load(m) \in Conversations
    BY LoadType, StoredTypes
<1>2. after \in Conversations /\ after # Absent
    BY AbsentAssumption DEF Follows
<1>3. CASE conv' = [conv EXCEPT ![n] = after] /\ m = n
  <2>1. Load(m)' = after
    BY <1>2, <1>3, StoredTypes DEF Load
  <2> QED BY <1>3, <2>1
<1>4. CASE conv' = conv \/ m # n
  <2>1. Load(m)' = Load(m)
    BY <1>4, StoredTypes DEF Load
  <2> QED BY <1>1, <2>1, SameFollows
<1> QED BY <1>3, <1>4

LEMMA UpdateFollows ==
    ASSUME TurnsInv, NEW p \in Procs,
           Reuse(p) \/ Begin(p) \/ Commit(p) \/ Compress(p), NEW m \in Names
    PROVE  Follows(Load(m), Load(m)')
<1> DEFINE n == job[p].name  t == job[p].chat.turn  i == job[p].chat.input  s == Load(n)
<1>1. /\ n \in Names /\ t \in Turns /\ i \in Inputs /\ s \in Conversations /\ Tidy(s)
      /\ reply[p] \in Nat
    BY JobFacts DEF TurnsInv, ProcTypes
<1>2. CASE Reuse(p)
  <2>1. conv' = [conv EXCEPT ![n] = Finished(s, t)] \/ conv' = conv
    BY <1>2 DEF Reuse
  <2>2. Stored(s, t)
    BY <1>2 DEF Reuse, Completed, HasReply, Positions, Stored
  <2>3. \A k \in s.pending \ Finished(s, t).pending : k.turn = t
    BY <1>1, FinishedFacts
  <2>4. Follows(s, Finished(s, t))
    BY <1>1, <2>2, <2>3, FinishedFacts, SameFollows
  <2> QED BY <1>1, <2>1, <2>4, WriteFollows
<1>3. CASE Begin(p)
  <2>1. conv' = [conv EXCEPT ![n] = Began(s, t, i)] \/ conv' = conv
    BY <1>3, Zenon DEF Begin
  <2>2. Follows(s, Began(s, t, i))
    BY <1>1, BeganFacts, SameFollows
  <2> QED BY <1>1, <2>1, <2>2, WriteFollows
<1>4. CASE Commit(p)
  <2> DEFINE after == Answered(s, t, i, reply[p])
  <2>1. conv' = [conv EXCEPT ![n] = Finished(after, t)] \/ conv' = conv
    BY <1>4 DEF Commit
  <2>a. after \in Conversations /\ after.pending = s.pending
    BY <1>1, AnsweredFacts
  <2>b. Succeeds(s, after)
    BY <1>1, AnsweredSucceeds
  <2>c. Stored(after, t) /\ Remembers(s, after)
    BY <1>1, AnsweredTurns DEF Remembers
  <2>2. /\ after \in Conversations /\ after.pending = s.pending
        /\ Succeeds(s, after) /\ Stored(after, t) /\ Remembers(s, after)
    BY <2>a, <2>b, <2>c
  <2> HIDE DEF after
  <2>3. /\ Finished(after, t) \in Conversations
        /\ Finished(after, t).messages = after.messages
        /\ Finished(after, t).start = after.start
        /\ \A k \in s.pending \ Finished(after, t).pending : k.turn = t
    BY <1>1, <2>2, FinishedFacts
  <2>4. Succeeds(s, Finished(after, t))
    BY <2>2, <2>3 DEF Succeeds, NextIndex, HasIndex, At
  <2>5. Stored(Finished(after, t), t) /\ Remembers(s, Finished(after, t))
    BY <2>2, <2>3 DEF Remembers, Stored, Heard, Replied
  <2>6. Follows(s, Finished(after, t))
    BY <2>3, <2>4, <2>5 DEF Follows
  <2> QED BY <1>1, <2>1, <2>6, WriteFollows
<1>5. CASE Compress(p)
  <2>1. conv' = [conv EXCEPT ![n] = Compressed(s)]
    BY <1>5 DEF Compress
  <2>2. Compressed(s) \in Conversations /\ Compressed(s).pending = s.pending
    BY <1>1, CompressedFacts
  <2>3. Succeeds(s, Compressed(s))
    BY <1>1, CompressedSucceeds
  <2>4. Follows(s, Compressed(s))
    BY <1>1, <2>2, <2>3, CompressedRemembers DEF Follows
  <2> QED BY <1>1, <2>1, <2>4, WriteFollows
<1> QED BY <1>2, <1>3, <1>4, <1>5

\* Whatever happens but the user's management.
LEMMA WorkFollows ==
    ASSUME TurnsInv, NEW p \in Procs, Work(p), NEW m \in Names
    PROVE  Follows(Load(m), Load(m)')
<1>1. CASE Reuse(p) \/ Begin(p) \/ Commit(p) \/ Compress(p)
    BY <1>1, UpdateFollows
<1>2. CASE conv' = conv
  <2>1. Load(m) \in Conversations /\ Load(m)' = Load(m)
    BY <1>2, LoadType, StoredTypes DEF Load
  <2> QED BY <2>1, SameFollows
<1>3. \/ Reuse(p) \/ Begin(p) \/ Commit(p) \/ Compress(p)
      \/ conv' = conv
    BY DEF Work, Acquire, RunFresh, RespondUnconfigured, ContinuationLost, AskAgain,
       ApproveInTerminal, AfterResume, Resume, PublishFails, Publish, Replies, Suspends, RunFails
<1> QED BY <1>1, <1>2, <1>3

LEMMA ConversationFollows ==
    ASSUME TurnsInv, [Next]_vars, NEW n \in Names, conv[n] # Absent, conv'[n] # Absent
    PROVE  Follows(conv[n], conv'[n])
<1>1. conv[n] \in Conversations /\ conv[n] = Load(n) /\ conv'[n] = Load(n)'
    BY StoredTypes DEF Load
<1>2. CASE conv' = conv
    BY <1>1, <1>2, SameFollows
<1>3. ASSUME NEW p \in Procs, Work(p) PROVE Follows(conv[n], conv'[n])
    BY <1>1, <1>3, WorkFollows
<1>4. ASSUME NEW k \in Names, NEW m \in Names, Rename(k, m) PROVE conv'[n] = conv[n]
    BY <1>4, StoredTypes DEF Rename, Managed
<1>5. ASSUME NEW k \in Names, NEW m \in Names, NEW l, Branch(k, m, l) PROVE conv'[n] = conv[n]
    BY <1>5, StoredTypes DEF Branch, Managed
<1>6. ASSUME NEW k \in Names, Delete(k) PROVE conv'[n] = conv[n]
    BY <1>6, StoredTypes DEF Delete, Managed
<1>7. ASSUME NEW k \in Names, NEW archived \in BOOLEAN, SetArchived(k, archived)
      PROVE  Follows(conv[n], conv'[n])
  <2>1. conv' = [conv EXCEPT ![k].archived = archived]
    BY <1>7 DEF SetArchived, Managed
  <2>2. conv'[n] = conv[n] \/ conv'[n] = [conv[n] EXCEPT !.archived = archived]
    BY <2>1, StoredTypes
  <2>3. /\ conv'[n] \in Conversations /\ conv'[n].messages = conv[n].messages
        /\ conv'[n].start = conv[n].start /\ conv'[n].pending = conv[n].pending
    BY <1>1, <2>2 DEF Conversations
  <2> QED BY <1>1, <2>3, SameFollows
<1>8. \/ conv' = conv \/ \E p \in Procs : Work(p)
      \/ \E k, m \in Names : Rename(k, m)
      \/ \E k, m \in Names, l \in 0..(2 * MaxSubmissions) : Branch(k, m, l)
      \/ \E k \in Names : Delete(k)
      \/ \E k \in Names, archived \in BOOLEAN : SetArchived(k, archived)
    BY DEF Next, vars, Ask, Resend, Request, GiveUp, LocalChat, LaneRuns, Scan, CrashDaemon,
       CrashLocal
<1>9. conv'[n] = conv[n] => Follows(conv[n], conv'[n])
    BY <1>1, SameFollows
<1> QED BY <1>2, <1>3, <1>4, <1>5, <1>6, <1>7, <1>8, <1>9

LEMMA StepsKept ==
    ASSUME TurnsInv, [Next]_vars, NEW n \in Names, conv[n] # Absent, conv'[n] # Absent
    PROVE  /\ \A m \in conv[n].pending \ conv'[n].pending : Stored(conv'[n], m.turn)
           /\ NextIndex(conv'[n]) >= NextIndex(conv[n])
           /\ \A i \in 0..NextIndex(conv[n]) :
                 Permanent(conv[n], i) /\ HasIndex(conv'[n], i)
                    => At(conv'[n], i) = At(conv[n], i)
<1>1. Follows(conv[n], conv'[n])
    BY ConversationFollows
<1>2. 0..NextIndex(conv[n]) \subseteq Nat
    OBVIOUS
<1> QED BY <1>1, <1>2 DEF Follows, Succeeds, Permanent

\* A conversation keeps the markers of its unfinished turns until their replies are
\* stored, and its messages keep their indexes, whoever writes it and however long
\* (_finish_turn_attempt, compress_conversation and the context of a turn).
THEOREM ConversationIsKept == Spec => ConversationKept
<1>1. TurnsInv /\ [Next]_vars =>
         [\A n \in Names :
             conv[n] # Absent /\ conv'[n] # Absent
                => \A m \in conv[n].pending \ conv'[n].pending :
                      Stored(conv'[n], m.turn)]_vars
    BY StepsKept
<1>2. TurnsInv /\ [Next]_vars =>
         [\A n \in Names :
             conv[n] # Absent /\ conv'[n] # Absent
                => /\ NextIndex(conv'[n]) >= NextIndex(conv[n])
                   /\ \A i \in 0..NextIndex(conv[n]) :
                         Permanent(conv[n], i) /\ HasIndex(conv'[n], i)
                            => At(conv'[n], i) = At(conv[n], i)]_vars
    BY StepsKept
<1>3. Spec => FailClosed
    BY <1>1, TurnsInvAlways, PTL DEF Spec, FailClosed
<1>4. Spec => IndexesStable
    BY <1>2, TurnsInvAlways, PTL DEF Spec, IndexesStable
<1> QED BY <1>3, <1>4 DEF ConversationKept

-----------------------------------------------------------------------------
(* Replies are reused, and observations are always taken, until a user cuts or *)
(* moves conversations                                                          *)

\* A reply of a conversation nothing was cut from has its message.
Paired ==
    \A n \in Names :
       LET s == Load(n) IN
       s.start = 0 => \A t \in Turns : Stored(s, t) => Heard(s, t)

\* What is said of the messages from x to y agrees with those that are left of them.
Sound(s, x, y, content) ==
    /\ x < NextIndex(s) /\ 0 < y /\ y <= NextIndex(s)
    /\ x >= s.start => At(s, x).role = "user" /\ At(s, x).input = content.input
    /\ y - 1 >= s.start /\ At(s, y - 1).role = "assistant"
          => At(s, y - 1).answer = content.answer

ObservedSound ==
    \A id \in DOMAIN observed : Sound(Load(id[1]), id[2], id[3], observed[id])

\* A committed turn is published under indexes that are its own.
Publishes(p) ==
    pc[p] = "publish" =>
       /\ Sound(Load(job[p].name), span[p][1], span[p][2], Content(p))
       /\ Accepts(p)

PublishersAgree ==
    \A p, q \in Procs :
       pc[p] = "publish" /\ pc[q] = "publish" /\ ObservationId(p) = ObservationId(q)
          => Content(p) = Content(q)

Claims == ObservedSound /\ (\A p \in Procs : Publishes(p)) /\ PublishersAgree

ClaimsInv == managed = 0 => Paired /\ Claims

LEMMA SoundFollows ==
    ASSUME NEW s \in Conversations, NEW later, Follows(s, later),
           NEW x \in Nat, NEW y \in Nat, NEW c, Sound(s, x, y, c)
    PROVE  Sound(later, x, y, c)
<1>1. /\ s.start \in Nat /\ NextIndex(s) \in Nat
      /\ later.start \in Nat /\ NextIndex(later) \in Nat
    BY DEF Follows, Conversations, NextIndex
<1>2. later.start >= s.start /\ NextIndex(later) >= NextIndex(s)
    BY DEF Follows, Succeeds
<1>3. \A i \in Nat : HasIndex(s, i) /\ HasIndex(later, i) =>
         \/ At(later, i) = At(s, i)
         \/ ~Prompted(At(s, i)) /\ At(later, i).role = "user"
    BY DEF Follows, Succeeds
<1>4. x < NextIndex(later) /\ 0 < y /\ y <= NextIndex(later)
    BY <1>1, <1>2 DEF Sound
<1>5. ASSUME x >= later.start
      PROVE  At(later, x).role = "user" /\ At(later, x).input = c.input
  <2>1. x >= s.start /\ HasIndex(s, x) /\ HasIndex(later, x)
    BY <1>1, <1>2, <1>4, <1>5 DEF Sound, HasIndex
  <2>2. At(s, x).role = "user" /\ At(s, x).input = c.input
    BY <2>1 DEF Sound
  <2> QED BY <1>3, <2>1, <2>2 DEF Prompted
<1>6. ASSUME y - 1 >= later.start, At(later, y - 1).role = "assistant"
      PROVE  At(later, y - 1).answer = c.answer
  <2>1. y - 1 \in Nat /\ y - 1 >= s.start /\ HasIndex(s, y - 1) /\ HasIndex(later, y - 1)
    BY <1>1, <1>2, <1>4, <1>6 DEF Sound, HasIndex
  <2>2. At(later, y - 1) = At(s, y - 1)
    BY <1>3, <1>6, <2>1
  <2> QED BY <1>6, <2>1, <2>2 DEF Sound
<1> QED BY <1>4, <1>5, <1>6 DEF Sound

LEMMA PairedFollows ==
    ASSUME TurnsInv, Paired, \A m \in Names : Follows(Load(m), Load(m)')
    PROVE  Paired'
<1> SUFFICES ASSUME NEW n \in Names, Load(n)'.start = 0, NEW t \in Turns, Stored(Load(n)', t)
             PROVE  Heard(Load(n)', t)
    BY DEF Paired
<1>1. Follows(Load(n), Load(n)') /\ Load(n) \in Conversations
    BY LoadType, StoredTypes
<1> DEFINE s == Load(n)  later == Load(n)'
<1>2. Succeeds(s, later) /\ Remembers(s, later) /\ later \in Conversations
    BY <1>1 DEF Follows
<1>3. s.start = 0
  <2>1. later.start = 0
    OBVIOUS
  <2> HIDE DEF s, later
  <2>2. s.start \in Nat
    BY <1>1 DEF Conversations, s
  <2> QED BY <1>2, <2>1, <2>2 DEF Succeeds
<1>4. Stored(s, t) => Heard(s, t)
    BY <1>3 DEF Paired
<1>5. /\ Stored(later, t) => Stored(s, t) \/ Heard(later, t)
      /\ Heard(s, t) => Heard(later, t)
  <2>1. later.start = 0
    OBVIOUS
  <2> HIDE DEF later
  <2> QED BY <1>2, <2>1 DEF Remembers
<1> QED BY <1>4, <1>5

\* Nobody becomes a publisher or publishes.
LEMMA QuietClaims ==
    ASSUME TurnsInv, Claims, \A m \in Names : Follows(Load(m), Load(m)'),
           observed' = observed,
           \A q \in Procs : pc'[q] = "publish" =>
              /\ pc[q] = "publish" /\ job'[q] = job[q]
              /\ reply'[q] = reply[q] /\ span'[q] = span[q]
    PROVE  Claims'
<1>1. ASSUME NEW q \in Procs, pc'[q] = "publish"
      PROVE  /\ pc[q] = "publish" /\ Content(q)' = Content(q)
             /\ ObservationId(q)' = ObservationId(q) /\ Accepts(q)' = Accepts(q)
    BY <1>1 DEF Content, ObservationId, Accepts
<1>2. ObservedSound'
  <2> SUFFICES ASSUME NEW id \in DOMAIN observed
               PROVE  Sound(Load(id[1])', id[2], id[3], observed[id])
    BY DEF ObservedSound
  <2>1. id[1] \in Names /\ id[2] \in Nat /\ id[3] \in Nat
    BY DEF TurnsInv, StoreTypes
  <2>2. Sound(Load(id[1]), id[2], id[3], observed[id])
    BY DEF Claims, ObservedSound
  <2>3. Load(id[1]) \in Conversations /\ Follows(Load(id[1]), Load(id[1])')
    BY <2>1, LoadType, StoredTypes
  <2> QED BY <2>1, <2>2, <2>3, SoundFollows
<1>3. ASSUME NEW q \in Procs, pc'[q] = "publish" PROVE Publishes(q)'
  <2> DEFINE n == job[q].name
  <2>1. pc[q] = "publish" /\ job'[q] = job[q] /\ span'[q] = span[q] /\ Content(q)' = Content(q)
    BY <1>1, <1>3
  <2>2. Sound(Load(n), span[q][1], span[q][2], Content(q)) /\ Accepts(q)
    BY <2>1 DEF Claims, Publishes
  <2>3. /\ n \in Names /\ Load(n) \in Conversations /\ Follows(Load(n), Load(n)')
        /\ span[q][1] \in Nat /\ span[q][2] \in Nat
    <3>1. n \in Names /\ Load(n) \in Conversations
      BY JobFacts
    <3>2. span[q] \in Nat \X Nat
      BY DEF TurnsInv, ProcTypes
    <3>3. PICK m \in Names : m = n
      BY <3>1
    <3>4. Load(m)' = Load(n)' /\ Follows(Load(m), Load(m)')
      BY <2>1, <3>3 DEF Load
    <3> QED BY <3>1, <3>2, <3>3, <3>4
  <2>4. Sound(Load(n)', span[q][1], span[q][2], Content(q))
    BY <2>2, <2>3, SoundFollows
  <2> QED BY <1>1, <1>3, <2>1, <2>2, <2>4 DEF Publishes
<1>4. PublishersAgree'
  <2> SUFFICES ASSUME NEW q \in Procs, NEW r \in Procs, pc'[q] = "publish", pc'[r] = "publish",
                      ObservationId(q)' = ObservationId(r)'
               PROVE  Content(q)' = Content(r)'
    BY DEF PublishersAgree
  <2> QED BY <1>1 DEF Claims, PublishersAgree
<1>5. \A q \in Procs : Publishes(q)'
    BY <1>3 DEF Publishes
<1> QED BY <1>2, <1>4, <1>5 DEF Claims

LEMMA WorkAlone ==
    ASSUME TurnsInv, NEW p \in Procs, Work(p), NEW q \in Procs, q # p
    PROVE  /\ pc'[q] = pc[q] /\ job'[q] = job[q] /\ reply'[q] = reply[q]
           /\ span'[q] = span[q]
<1>1. \E step \in Steps : pc' = [pc EXCEPT ![p] = step]
    BY DEF Work, Acquire, Reuse, Begin, RunFresh, RespondUnconfigured, ContinuationLost,
       AskAgain, ApproveInTerminal, AfterResume, Resume, Commit, Compress, PublishFails,
       Publish, Replies, Suspends, RunFails, Fails, Goto, Steps
<1>2. \/ job' = job \/ job' = [job EXCEPT ![p].kind = "compress"]
      \/ job' = [job EXCEPT ![p].chat.call = ContinuationOf(p)]
    BY DEF Work, Acquire, Reuse, Begin, RunFresh, RespondUnconfigured, ContinuationLost,
       AskAgain, ApproveInTerminal, AfterResume, Resume, Commit, Compress, PublishFails,
       Publish, Replies, Suspends, RunFails
<1>3. reply' = reply \/ \E answer : reply' = [reply EXCEPT ![p] = answer]
    BY DEF Work, Acquire, Reuse, Begin, RunFresh, RespondUnconfigured, ContinuationLost,
       AskAgain, ApproveInTerminal, AfterResume, Resume, Commit, Compress, PublishFails,
       Publish, Replies, Suspends, RunFails
<1>4. span' = span \/ \E range : span' = [span EXCEPT ![p] = range]
    BY DEF Work, Acquire, Reuse, Begin, RunFresh, RespondUnconfigured, ContinuationLost,
       AskAgain, ApproveInTerminal, AfterResume, Resume, Commit, Compress, PublishFails,
       Publish, Replies, Suspends, RunFails
<1>5. pc \in [Procs -> Steps] /\ job \in [Procs -> Jobs] /\ reply \in [Procs -> Nat]
      /\ span \in [Procs -> Nat \X Nat]
    BY DEF TurnsInv, ProcTypes
<1>6. pc'[q] = pc[q]
    BY <1>1, <1>5
<1>7. job'[q] = job[q]
    BY <1>2, <1>5
<1>8. reply'[q] = reply[q]
    BY <1>3, <1>5
<1>9. span'[q] = span[q]
    BY <1>4, <1>5
<1> QED BY <1>6, <1>7, <1>8, <1>9

\* A process becomes a publisher by a reuse or a commit.
Becomes(p) ==
    /\ pc'[p] = "publish"
    /\ \/ Reuse(p)
       \/ Commit(p) /\ conv[job[p].name] = original[p]

LEMMA WorkPublishes ==
    ASSUME TurnsInv, NEW p \in Procs, Work(p), pc'[p] = "publish"
    PROVE  Becomes(p)
<1>1. pc \in [Procs -> Steps]
    BY DEF TurnsInv, ProcTypes
<1>2. \/ pc' = [pc EXCEPT ![p] = "begin"] \/ pc' = [pc EXCEPT ![p] = "respond"]
      \/ pc' = [pc EXCEPT ![p] = "resumed"] \/ pc' = [pc EXCEPT ![p] = "commit"]
      \/ pc' = [pc EXCEPT ![p] = "idle"] \/ pc' = [pc EXCEPT ![p] = "lock"]
      \/ Reuse(p) \/ Commit(p)
    BY DEF Work, Acquire, Begin, RunFresh, RespondUnconfigured, ContinuationLost,
       AskAgain, ApproveInTerminal, AfterResume, Resume, Compress, PublishFails,
       Publish, Replies, Suspends, RunFails, Fails, Goto
<1>3. Reuse(p) \/ Commit(p)
    BY <1>1, <1>2
<1>4. ASSUME Commit(p) PROVE conv[job[p].name] = original[p]
    BY <1>4 DEF Commit, TurnsInv, UpdatesSerialized, Running
<1> QED BY <1>3, <1>4 DEF Becomes

LEMMA BecomesClaims ==
    ASSUME TurnsInv, Claims, NEW p \in Procs, Work(p), Becomes(p),
           \A m \in Names : Follows(Load(m), Load(m)')
    PROVE  Claims'
<1> DEFINE n == job[p].name  t == job[p].chat.turn  i == job[p].chat.input  s == Load(n)
           later == Load(n)'  x == span'[p][1]  y == span'[p][2]
           said == [input |-> i, answer |-> reply'[p]]
<1>1. /\ n \in Names /\ t \in Turns /\ i \in Inputs /\ s \in Conversations /\ Tidy(s)
      /\ reply[p] \in Nat
    BY JobFacts DEF TurnsInv, ProcTypes
<1>2. job' = job /\ observed' = observed
    BY DEF Becomes, Reuse, Commit
<1>3. /\ x \in Nat /\ y \in Nat /\ Sound(later, x, y, said)
      /\ \A c \in Observations : Sound(s, x, y, c) => c = said
  <2>1. CASE Reuse(p)
    <3> DEFINE user == PositionOf(s, "user", t)
               assistant == PositionOf(s, "assistant", t)
    <3>1. Completed(s, t)
      BY <2>1 DEF Reuse
    <3>2. /\ user \in DOMAIN s.messages /\ Says(s.messages[user], "user", t)
          /\ assistant \in DOMAIN s.messages /\ Says(s.messages[assistant], "assistant", t)
      BY <1>1, <3>1, Position DEF Completed, HasReply
    <3>3. /\ s.messages[user].input = i
          /\ span' = [span EXCEPT ![p] = <<s.start + user - 1, s.start + assistant>>]
          /\ reply' = [reply EXCEPT ![p] = s.messages[assistant].answer]
      <4>1. s.messages[user].input = i
        <5>1. SUFFICES ASSUME s.messages[user].input # i PROVE FALSE
          OBVIOUS
        <5>2. Goto(p, "idle")
          BY <2>1, <5>1 DEF Reuse, Fails
        <5> QED BY <5>2 DEF Becomes, Goto, TurnsInv, ProcTypes
      <4> QED BY <2>1, <4>1 DEF Reuse
    <3> HIDE DEF user, assistant
    <3>4. /\ s.messages \in Seq(Messages) /\ Len(s.messages) \in Nat /\ s.start \in Nat
          /\ user \in 1..Len(s.messages) /\ assistant \in 1..Len(s.messages)
      BY <1>1, <3>2 DEF Conversations
    <3>5. /\ x = s.start + user - 1 /\ y = s.start + assistant
          /\ reply'[p] = s.messages[assistant].answer
      BY <3>3 DEF TurnsInv, ProcTypes
    <3> HIDE DEF s, x, y
    <3>6. /\ x \in Nat /\ y \in Nat /\ x >= s.start /\ y - 1 >= s.start
          /\ x < NextIndex(s) /\ 0 < y /\ y <= NextIndex(s)
          /\ x - s.start + 1 = user /\ (y - 1) - s.start + 1 = assistant
      BY <3>4, <3>5 DEF NextIndex
    <3>7. At(s, x) = s.messages[user] /\ At(s, y - 1) = s.messages[assistant]
      BY <3>6 DEF At
    <3>8. Sound(s, x, y, said)
      BY <3>2, <3>3, <3>5, <3>6, <3>7 DEF Sound, Says
    <3>9. Follows(s, later)
      <4>1. PICK m \in Names : m = n
        BY <1>1
      <4>2. Follows(Load(m), Load(m)')
        OBVIOUS
      <4>3. Load(m)' = Load(n)'
        BY <1>2, <4>1 DEF Load
      <4> QED BY <4>1, <4>2, <4>3 DEF s
    <3>10. Sound(later, x, y, said)
      BY <1>1, <3>6, <3>8, <3>9, SoundFollows
    <3>11. ASSUME NEW c \in Observations, Sound(s, x, y, c) PROVE c = said
      <4>1. c.input = i /\ c.answer = reply'[p]
        BY <3>2, <3>3, <3>5, <3>6, <3>7, <3>11 DEF Sound, Says
      <4> QED BY <4>1 DEF Observations
    <3> QED BY <3>6, <3>10, <3>11
  <2>2. CASE Commit(p) /\ conv[n] = original[p]
    <3> DEFINE after == Answered(s, t, i, reply[p])
    <3>1. /\ conv' = [conv EXCEPT ![n] = Finished(after, t)]
          /\ span' = [span EXCEPT ![p] = <<NextIndex(after) - 2, NextIndex(after)>>]
          /\ reply' = reply
      BY <2>2 DEF Commit
    <3>2. /\ NextIndex(after) \in Nat /\ NextIndex(after) > NextIndex(s)
          /\ NextIndex(after) - 2 \in Nat
          /\ At(after, NextIndex(after) - 2).role = "user"
          /\ At(after, NextIndex(after) - 2).input = i
          /\ At(after, NextIndex(after) - 1).answer = reply[p]
      BY <1>1, AnsweredSucceeds
    <3>3. after \in Conversations
      BY <1>1, AnsweredFacts
    <3> HIDE DEF after
    <3>4. /\ Finished(after, t) \in Conversations /\ Finished(after, t) # Absent
          /\ Finished(after, t).messages = after.messages
          /\ Finished(after, t).start = after.start
      BY <1>1, <3>3, FinishedFacts, AbsentAssumption
    <3>5. later = Finished(after, t)
      BY <1>1, <1>2, <3>1, <3>4, StoredTypes DEF Load
    <3>6. x = NextIndex(after) - 2 /\ y = NextIndex(after) /\ reply'[p] = reply[p]
      BY <3>1 DEF TurnsInv, ProcTypes
    <3> HIDE DEF later, x, y, s
    <3>7. /\ NextIndex(later) = NextIndex(after)
          /\ \A k \in Nat : At(later, k) = At(after, k)
      BY <3>4, <3>5 DEF NextIndex, At
    <3>8. NextIndex(s) \in Nat
      BY <1>1 DEF NextIndex, Conversations
    <3>9. x \in Nat /\ y \in Nat /\ x < NextIndex(later) /\ 0 < y /\ y <= NextIndex(later)
          /\ y - 1 \in Nat /\ y > NextIndex(s)
      BY <3>2, <3>6, <3>7, <3>8
    <3>10. Sound(later, x, y, said)
      <4>1. At(later, x).role = "user" /\ At(later, x).input = i /\ At(later, y - 1).answer = reply'[p]
        BY <3>2, <3>6, <3>7, <3>9
      <4> QED BY <3>9, <4>1 DEF Sound
    <3>11. \A c \in Observations : ~Sound(s, x, y, c)
      BY <3>8, <3>9 DEF Sound
    <3> QED BY <3>9, <3>10, <3>11
  <2> QED BY <2>1, <2>2 DEF Becomes
<1>4. Content(p)' = said /\ ObservationId(p)' = <<n, x, y>>
    BY <1>2 DEF Content, ObservationId
<1> HIDE DEF x, y, said
<1>5. ASSUME NEW q \in Procs, q # p, pc'[q] = "publish"
      PROVE  /\ pc[q] = "publish" /\ Content(q)' = Content(q) /\ Content(q) \in Observations
             /\ ObservationId(q)' = ObservationId(q) /\ Accepts(q)' = Accepts(q)
             /\ Sound(Load(job[q].name), span[q][1], span[q][2], Content(q))
             /\ Publishes(q)'
  <2>1. /\ pc[q] = "publish" /\ job'[q] = job[q] /\ reply'[q] = reply[q] /\ span'[q] = span[q]
    BY <1>5, WorkAlone
  <2>2. Sound(Load(job[q].name), span[q][1], span[q][2], Content(q)) /\ Accepts(q)
    BY <2>1 DEF Claims, Publishes
  <2>3. /\ job[q].name \in Names /\ Load(job[q].name) \in Conversations
        /\ span[q][1] \in Nat /\ span[q][2] \in Nat /\ Content(q) \in Observations
    <3>1. span[q] \in Nat \X Nat /\ reply[q] \in Nat
      BY DEF TurnsInv, ProcTypes
    <3> QED BY <3>1, JobFacts DEF Content, Observations
  <2>4. Follows(Load(job[q].name), Load(job[q].name)')
    <3>1. PICK m \in Names : m = job[q].name
      BY <2>3
    <3>2. Load(m)' = Load(job[q].name)' /\ Follows(Load(m), Load(m)')
      BY <2>1, <3>1 DEF Load
    <3> QED BY <3>1, <3>2
  <2>5. Sound(Load(job[q].name)', span[q][1], span[q][2], Content(q))
    BY <2>2, <2>3, <2>4, SoundFollows
  <2>6. Content(q)' = Content(q) /\ ObservationId(q)' = ObservationId(q) /\ Accepts(q)' = Accepts(q)
    BY <1>2, <2>1 DEF Content, ObservationId, Accepts
  <2>7. Publishes(q)'
    BY <2>1, <2>2, <2>5, <2>6 DEF Publishes
  <2> QED BY <2>1, <2>2, <2>3, <2>6, <2>7
<1>6. ObservedSound'
  <2> SUFFICES ASSUME NEW id \in DOMAIN observed
               PROVE  Sound(Load(id[1])', id[2], id[3], observed[id])
    BY <1>2 DEF ObservedSound
  <2>1. id[1] \in Names /\ id[2] \in Nat /\ id[3] \in Nat
    BY DEF TurnsInv, StoreTypes
  <2>2. Sound(Load(id[1]), id[2], id[3], observed[id])
    BY DEF Claims, ObservedSound
  <2>3. Load(id[1]) \in Conversations /\ Follows(Load(id[1]), Load(id[1])')
    BY <2>1, LoadType, StoredTypes
  <2> QED BY <2>1, <2>2, <2>3, SoundFollows
<1>7. Publishes(p)'
  <2>1. Accepts(p)'
    <3> SUFFICES ASSUME <<n, x, y>> \in DOMAIN observed PROVE observed[<<n, x, y>>] = said
      BY <1>2, <1>4 DEF Accepts
    <3>1. Sound(s, x, y, observed[<<n, x, y>>])
      BY DEF Claims, ObservedSound
    <3>2. observed[<<n, x, y>>] \in Observations
      BY DEF TurnsInv, StoreTypes
    <3> QED BY <1>3, <3>1, <3>2
  <2>2. Sound(Load(job[p].name)', span'[p][1], span'[p][2], Content(p)')
    BY <1>3, <1>4 DEF x, y
  <2> QED BY <1>2, <2>1, <2>2 DEF Publishes
<1>8. ASSUME NEW q \in Procs, q # p, pc'[q] = "publish", ObservationId(q)' = ObservationId(p)'
      PROVE  Content(q)' = Content(p)'
  <2>1. ObservationId(q) = <<n, x, y>> /\ Content(q)' = Content(q) /\ Content(q) \in Observations
        /\ Sound(Load(job[q].name), span[q][1], span[q][2], Content(q))
    BY <1>4, <1>5, <1>8
  <2>2. job[q].name = n /\ span[q][1] = x /\ span[q][2] = y
    BY <2>1 DEF ObservationId
  <2>3. Sound(s, x, y, Content(q))
    BY <2>1, <2>2
  <2> QED BY <1>3, <1>4, <2>1, <2>3
<1>9. PublishersAgree'
  <2> SUFFICES ASSUME NEW q \in Procs, NEW r \in Procs, pc'[q] = "publish", pc'[r] = "publish",
                      ObservationId(q)' = ObservationId(r)'
               PROVE  Content(q)' = Content(r)'
    BY DEF PublishersAgree
  <2>1. CASE q # p /\ r # p
    BY <1>5, <2>1 DEF Claims, PublishersAgree
  <2>2. CASE q = p \/ r = p
    BY <1>8, <2>2
  <2> QED BY <2>1, <2>2
<1>10. \A q \in Procs : Publishes(q)'
    BY <1>5, <1>7 DEF Publishes
<1> QED BY <1>6, <1>9, <1>10 DEF Claims

\* The observation of a turn is given to memory.
LEMMA PublishClaims ==
    ASSUME TurnsInv, Claims, NEW p \in Procs, NEW admitted \in BOOLEAN, Publish(p, admitted)
    PROVE  Claims'
<1> DEFINE id == ObservationId(p)
<1>1. /\ pc[p] = "publish" /\ Accepts(p) /\ conv' = conv
      /\ observed' = [k \in DOMAIN observed \cup {id} |->
                         IF k \in DOMAIN observed THEN observed[k] ELSE Content(p)]
    BY DEF Publish
<1>2. /\ DOMAIN observed' = DOMAIN observed \cup {id}
      /\ \A k \in DOMAIN observed : observed'[k] = observed[k]
      /\ observed'[id] = Content(p)
    BY <1>1 DEF Accepts
<1>3. /\ Sound(Load(job[p].name), span[p][1], span[p][2], Content(p))
      /\ id[1] = job[p].name /\ id[2] = span[p][1] /\ id[3] = span[p][2]
    BY <1>1 DEF Claims, Publishes, ObservationId
<1>4. \A n : Load(n)' = Load(n)
    BY <1>1 DEF Load
<1> HIDE DEF id
<1>5. ObservedSound'
  <2> SUFFICES ASSUME NEW k \in DOMAIN observed'
               PROVE  Sound(Load(k[1]), k[2], k[3], observed'[k])
    BY <1>4 DEF ObservedSound
  <2>1. CASE k \in DOMAIN observed
    BY <1>2, <2>1 DEF Claims, ObservedSound
  <2>2. CASE k = id
    BY <1>2, <1>3, <2>2
  <2> QED BY <1>2, <2>1, <2>2
<1>6. ASSUME NEW q \in Procs, pc'[q] = "publish"
      PROVE  /\ pc[q] = "publish" /\ Content(q)' = Content(q)
             /\ ObservationId(q)' = ObservationId(q) /\ Publishes(q)'
  <2>1. q # p
    BY <1>6 DEF Publish, Goto, TurnsInv, ProcTypes
  <2>2. /\ pc[q] = "publish" /\ job'[q] = job[q] /\ reply'[q] = reply[q]
        /\ span'[q] = span[q]
    BY <1>6, <2>1, WorkAlone, Zenon DEF Work
  <2>3. Content(q)' = Content(q) /\ ObservationId(q)' = ObservationId(q)
    BY <2>2 DEF Content, ObservationId
  <2>4. Sound(Load(job[q].name), span[q][1], span[q][2], Content(q)) /\ Accepts(q)
    BY <2>2 DEF Claims, Publishes
  <2>5. ObservationId(q) = id => Content(q) = Content(p)
    BY <1>1, <2>2 DEF id, Claims, PublishersAgree
  <2>6. ObservationId(q) \in DOMAIN observed' => observed'[ObservationId(q)] = Content(q)
    BY <1>2, <2>4, <2>5 DEF Accepts
  <2>7. Accepts(q)'
    BY <2>3, <2>6 DEF Accepts
  <2> QED BY <1>4, <2>2, <2>3, <2>4, <2>7 DEF Publishes
<1>7. PublishersAgree'
  <2> SUFFICES ASSUME NEW q \in Procs, NEW r \in Procs, pc'[q] = "publish", pc'[r] = "publish",
                      ObservationId(q)' = ObservationId(r)'
               PROVE  Content(q)' = Content(r)'
    BY DEF PublishersAgree
  <2> QED BY <1>6 DEF Claims, PublishersAgree
<1>8. \A q \in Procs : Publishes(q)'
    BY <1>6 DEF Publishes
<1> QED BY <1>5, <1>7, <1>8 DEF Claims

LEMMA WorkClaims ==
    ASSUME TurnsInv, Paired, Claims, NEW p \in Procs, Work(p)
    PROVE  Paired' /\ Claims'
<1>1. \A m \in Names : Follows(Load(m), Load(m)')
    BY WorkFollows
<1>2. Paired'
    BY <1>1, PairedFollows
<1>3. CASE \E admitted \in BOOLEAN : Publish(p, admitted)
    BY <1>2, <1>3, PublishClaims
<1>4. CASE pc'[p] = "publish"
    BY <1>1, <1>2, <1>4, WorkPublishes, BecomesClaims
<1>5. CASE pc'[p] # "publish" /\ observed' = observed
    BY <1>1, <1>2, <1>5, WorkAlone, QuietClaims
<1>6. (\E admitted \in BOOLEAN : Publish(p, admitted)) \/ observed' = observed
    BY DEF Work, Acquire, Reuse, Begin, RunFresh, RespondUnconfigured, ContinuationLost,
       AskAgain, ApproveInTerminal, AfterResume, Resume, Commit, Compress, PublishFails,
       Replies, Suspends, RunFails
<1> QED BY <1>3, <1>4, <1>5, <1>6

\* Who asks, gives up, starts, finds a conversation too long or dies writes nothing.
LEMMA IdleClaims ==
    ASSUME TurnsInv, Paired, Claims, conv' = conv, observed' = observed,
           \A q \in Procs : pc'[q] = "publish" =>
              /\ pc[q] = "publish" /\ job'[q] = job[q]
              /\ reply'[q] = reply[q] /\ span'[q] = span[q]
    PROVE  Paired' /\ Claims'
<1>1. ASSUME NEW m \in Names PROVE Follows(Load(m), Load(m)')
  <2>1. Load(m) \in Conversations /\ Load(m)' = Load(m)
    BY LoadType, StoredTypes DEF Load
  <2> QED BY <2>1, SameFollows
<1> QED BY <1>1, PairedFollows, QuietClaims

LEMMA ClaimsGoOn ==
    ASSUME TurnsInv, ClaimsInv, [Next]_vars
    PROVE  ClaimsInv'
<1> SUFFICES ASSUME managed' = 0 PROVE Paired' /\ Claims'
    BY DEF ClaimsInv
<1>1. ASSUME NEW changed, Managed(changed) PROVE FALSE
    BY <1>1 DEF Managed, TurnsInv, CountTypes
<1>2. \/ \E p \in Procs : Work(p)
      \/ \E n \in Names : LaneRuns(n)
      \/ \E p \in Locals, n \in Names, t \in Turns, i \in Inputs : LocalChat(p, n, t, i)
      \/ CrashDaemon \/ \E p \in Locals : CrashLocal(p)
      \/ UNCHANGED <<conv, observed, procVars, managed>>
    BY <1>1 DEF Next, vars, bounds, Ask, Resend, Request, GiveUp, Scan, Rename, Branch,
       SetArchived, Delete
<1>3. managed = 0
  <2>1. ASSUME NEW p \in Procs, Work(p) PROVE managed' = managed
    BY <2>1 DEF Work, Acquire, Reuse, Begin, RunFresh, RespondUnconfigured, ContinuationLost,
       AskAgain, ApproveInTerminal, AfterResume, Resume, Commit, Compress, PublishFails,
       Publish, Replies, Suspends, RunFails, bounds
  <2> QED BY <1>2, <2>1 DEF LaneRuns, LocalChat, CrashDaemon, CrashLocal, bounds
<1>4. Paired /\ Claims
    BY <1>3 DEF ClaimsInv
<1>5. /\ pc \in [Procs -> Steps] /\ job \in [Procs -> Jobs]
      /\ Names \subseteq Procs /\ Locals \subseteq Procs
    BY DEF TurnsInv, ProcTypes, Procs
<1>6. ASSUME NEW p \in Procs, Work(p) PROVE Paired' /\ Claims'
    BY <1>4, <1>6, WorkClaims
<1>7. ASSUME NEW n \in Names, LaneRuns(n) PROVE Paired' /\ Claims'
  <2>1. /\ conv' = conv /\ observed' = observed /\ reply' = reply /\ span' = span
        /\ pc' = [pc EXCEPT ![n] = "lock"]
    BY <1>7 DEF LaneRuns, Goto
  <2>2. \A q \in Procs : q # n => job'[q] = job[q]
    BY <1>5, <1>7 DEF LaneRuns
  <2> QED BY <1>4, <1>5, <2>1, <2>2, IdleClaims
<1>8. ASSUME NEW p \in Locals, NEW n \in Names, NEW t \in Turns, NEW i \in Inputs,
             LocalChat(p, n, t, i)
      PROVE  Paired' /\ Claims'
  <2>1. /\ conv' = conv /\ observed' = observed /\ reply' = reply /\ span' = span
        /\ pc' = [pc EXCEPT ![p] = "lock"]
        /\ \A q \in Procs : q # p => job'[q] = job[q]
    BY <1>5, <1>8 DEF LocalChat, Goto
  <2> QED BY <1>4, <1>5, <2>1, IdleClaims
<1>9. CASE CrashDaemon
    BY <1>4, <1>5, <1>9, IdleClaims DEF CrashDaemon
<1>10. ASSUME NEW p \in Locals, CrashLocal(p) PROVE Paired' /\ Claims'
    BY <1>4, <1>5, <1>10, IdleClaims DEF CrashLocal, Goto
<1>11. CASE UNCHANGED <<conv, observed, procVars, managed>>
    BY <1>4, <1>11, IdleClaims DEF procVars
<1> QED BY <1>2, <1>6, <1>7, <1>8, <1>9, <1>10, <1>11

LEMMA ClaimsBegin ==
    ASSUME Init
    PROVE  ClaimsInv
<1>1. \A n \in Names : Load(n) = Empty
    BY DEF Init, Load
<1>2. Paired
    BY <1>1 DEF Paired, Stored, Empty
<1>3. observed = << >> /\ \A p \in Procs : pc[p] = "idle"
    BY DEF Init
<1> QED BY <1>2, <1>3 DEF ClaimsInv, Claims, ObservedSound, Publishes, PublishersAgree

THEOREM ClaimsInvAlways == Spec => []ClaimsInv
<1>1. Init => ClaimsInv
    BY ClaimsBegin
<1>2. TurnsInv /\ ClaimsInv /\ [Next]_vars => ClaimsInv'
    BY ClaimsGoOn
<1> QED BY <1>1, <1>2, TurnsInvAlways, PTL DEF Spec

LEMMA TypesFollow ==
    ASSUME TurnsInv
    PROVE  TypeOK
<1>1. \A id \in DOMAIN observed : observed[id] \in [input : Inputs, answer : Nat]
    BY DEF TurnsInv, StoreTypes, Observations
<1>2. \A c \in Clients : /\ client[c].state \in ClientStates
                         /\ client[c].name \in Names /\ client[c].chat \in Chats
                         /\ client[c].answer \in Inputs
    BY DEF TurnsInv, DaemonTypes, Asking
<1>3. \A p \in Procs : /\ job[p].kind \in {"chat", "compress"}
                       /\ job[p].name \in Names /\ job[p].chat \in Chats
                       /\ p \in Names => job[p].name = p
    BY DEF TurnsInv, ProcTypes, Jobs
<1> QED BY <1>1, <1>2, <1>3
       DEF TypeOK, TurnsInv, DaemonTypes, StoreTypes, ProcTypes, CountTypes, ClientStates

\* Turns are serialized by the conversation's lock without a transaction around the
\* model, a stored reply is reused, and memory takes every observation
\* (ConversationStore.update, _begin_turn_attempt and publish_chat_observation), whatever
\* the settings, the number of clients, processes and crashes.
THEOREM TurnsAreSafe == Spec => []TurnsSafe
<1>1. TurnsInv /\ ClaimsInv => TurnsSafe
  <2> SUFFICES ASSUME TurnsInv, ClaimsInv PROVE TurnsSafe
    OBVIOUS
  <2>1. ReplyReused
    <3> SUFFICES ASSUME NEW p \in Procs, pc[p] \in Running
                 PROVE  LET s == Load(job[p].name)  t == job[p].chat.turn IN
                        /\ ~(Stored(s, t) /\ Heard(s, t))
                        /\ managed = 0 /\ s.start = 0 => ~Stored(s, t)
      BY DEF ReplyReused
    <3>1. Runs(p) /\ job[p].name \in Names /\ job[p].chat.turn \in Turns
      BY JobFacts DEF TurnsInv
    <3> QED BY <3>1 DEF Runs, ClaimsInv, Paired
  <2>2. ObservationAccepted
    BY DEF ClaimsInv, Claims, Publishes, ObservationAccepted
  <2> QED BY <2>1, <2>2, TypesFollow DEF TurnsSafe, TurnsInv
<1> QED BY <1>1, TurnsInvAlways, ClaimsInvAlways, PTL

-----------------------------------------------------------------------------
(* A call that needs approval is executed at most once per turn *)

Marked(s, t) == \E m \in s.pending : m.turn = t

\* No call of a turn from the k-th on has been executed.
Untouched(id, k) == \A j \in Calls : j >= k => effects[id][j] = 0

\* In a conversation nothing was cut from, a turn with effects has left its marker or
\* the reply of a model, and a suspended run waits for a call nobody has executed.
Approves(n, t) ==
    LET s == Load(n)  id == <<n, t>> IN
    s.start = 0 =>
       /\ \A k \in Calls : effects[id][k] <= 1
       /\ Untouched(id, 1) \/ Marked(s, t) \/ Replied(s, t)
       /\ continuation[id] # 0 => Marked(s, t) /\ Untouched(id, continuation[id])
       /\ Marked(s, t) => ~Stored(s, t)

\* Who runs an agent has its turn marked, and has taken its continuation; the calls it
\* may still ask for are untouched.
RunsMarked(p) ==
    LET n == job[p].name  call == job[p].chat.call  id == <<n, job[p].chat.turn>> IN
    pc[p] \in Running /\ Load(n).start = 0 =>
       /\ Marked(Load(n), job[p].chat.turn)
       /\ pc[p] = "respond" /\ call = 0 => Untouched(id, 1) /\ continuation[id] = 0
       /\ pc[p] # "respond" => continuation[id] = 0
       /\ pc[p] = "resumed" /\ p \in Names => Untouched(id, call + 1)
       /\ pc[p] = "commit" /\ reply[p] = LocalAnswer => Untouched(id, 1)

Approved ==
    /\ \A n \in Names, t \in Turns : Approves(n, t)
    /\ \A p \in Procs : RunsMarked(p)

ApprovedInv == managed = 0 => Approved

\* Nobody goes on with an agent run, and no continuation is added.
LEMMA IdleApproved ==
    ASSUME TurnsInv, Approved, conv' = conv, effects' = effects,
           \A n \in Names, t \in Turns :
              continuation'[<<n, t>>] \in {continuation[<<n, t>>], 0},
           \A q \in Procs : pc'[q] \in Running =>
              pc'[q] = pc[q] /\ job'[q] = job[q] /\ reply'[q] = reply[q]
    PROVE  Approved'
<1>1. ASSUME NEW n \in Names, NEW t \in Turns PROVE Approves(n, t)'
  <2>1. Approves(n, t)
    BY DEF Approved
  <2>2. Load(n)' = Load(n)
    BY DEF Load
  <2> QED BY <2>1, <2>2 DEF Approves, Untouched
<1>2. ASSUME NEW q \in Procs, pc'[q] \in Running PROVE RunsMarked(q)'
  <2>1. RunsMarked(q)
    BY DEF Approved
  <2>2. pc'[q] = pc[q] /\ job'[q] = job[q] /\ reply'[q] = reply[q]
    BY <1>2
  <2>3. Load(job[q].name)' = Load(job[q].name)
    BY <2>2 DEF Load
  <2>4. continuation[<<job[q].name, job[q].chat.turn>>] = 0 =>
           continuation'[<<job[q].name, job[q].chat.turn>>] = 0
    BY JobFacts
  <2> QED BY <1>2, <2>1, <2>2, <2>3, <2>4 DEF RunsMarked, Untouched
<1> QED BY <1>1, <1>2 DEF Approved, RunsMarked

\* What a step does not change about a turn of a conversation.
Undisturbed(s, later, t) ==
    later.start = 0 =>
       /\ s.start = 0
       /\ Marked(later, t) <=> Marked(s, t)
       /\ Stored(later, t) => Stored(s, t)
       /\ Replied(s, t) => Replied(later, t)

\* A step of the process that has the lock is about one turn of one conversation.
LEMMA StepApproved ==
    ASSUME TurnsInv, Approved, NEW p \in Procs, pc[p] \in Locked, Work(p),
           job'[p].name = job[p].name, job'[p].chat.turn = job[p].chat.turn,
           \A n \in Names : n # job[p].name => conv'[n] = conv[n],
           \A n \in Names, t \in Turns : <<n, t>> # <<job[p].name, job[p].chat.turn>> =>
              /\ effects'[<<n, t>>] = effects[<<n, t>>]
              /\ continuation'[<<n, t>>] = continuation[<<n, t>>],
           \A t \in Turns : t # job[p].chat.turn =>
              Undisturbed(Load(job[p].name), Load(job[p].name)', t),
           Approves(job[p].name, job[p].chat.turn)', RunsMarked(p)'
    PROVE  Approved'
<1>1. job[p].name \in Names /\ job[p].chat.turn \in Turns
    BY JobFacts
<1>2. ASSUME NEW n \in Names, NEW t \in Turns PROVE Approves(n, t)'
  <2>1. Approves(n, t)
    BY DEF Approved
  <2>2. CASE n # job[p].name
    <3>1. Load(n)' = Load(n)
      BY <2>2 DEF Load
    <3> QED BY <2>1, <2>2, <3>1 DEF Approves, Untouched
  <2>3. CASE n = job[p].name /\ t # job[p].chat.turn
    <3>1. Undisturbed(Load(n), Load(n)', t)
      <4>1. Load(n)' = Load(job[p].name)'
        BY <2>3 DEF Load
      <4> QED BY <2>3, <4>1
    <3>2. effects'[<<n, t>>] = effects[<<n, t>>] /\ continuation'[<<n, t>>] = continuation[<<n, t>>]
      BY <2>3
    <3> QED BY <2>1, <3>1, <3>2 DEF Approves, Untouched, Undisturbed
  <2>4. CASE n = job[p].name /\ t = job[p].chat.turn
    BY <2>4 DEF Approves, Untouched, Load
  <2> QED BY <2>2, <2>3, <2>4
<1>3. ASSUME NEW q \in Procs, q # p, pc'[q] \in Running PROVE RunsMarked(q)'
  <2>1. pc'[q] = pc[q] /\ job'[q] = job[q] /\ reply'[q] = reply[q]
    BY <1>3, WorkAlone
  <2>2. job[q].name # job[p].name
    BY <1>3, <2>1, Alone DEF TurnsInv, Running, Locked
  <2>3. RunsMarked(q) /\ job[q].name \in Names /\ job[q].chat.turn \in Turns
    BY JobFacts DEF Approved
  <2>4. Load(job[q].name)' = Load(job[q].name)
    BY <2>1, <2>2, <2>3 DEF Load
  <2>5. /\ effects'[<<job[q].name, job[q].chat.turn>>] = effects[<<job[q].name, job[q].chat.turn>>]
        /\ continuation'[<<job[q].name, job[q].chat.turn>>]
              = continuation[<<job[q].name, job[q].chat.turn>>]
    BY <2>2, <2>3
  <2> QED BY <2>1, <2>3, <2>4, <2>5 DEF RunsMarked, Untouched
<1> QED BY <1>2, <1>3 DEF Approved, RunsMarked

LEMMA SameUndisturbed ==
    ASSUME NEW n \in Names, conv' = conv
    PROVE  \A t \in Turns : Undisturbed(Load(n), Load(n)', t)
<1>1. Load(n)' = Load(n)
    BY DEF Load
<1> QED BY <1>1 DEF Undisturbed

LEMMA RepliesApproved ==
    ASSUME TurnsInv, Approved, NEW p \in Procs, pc[p] \in {"respond", "resumed"},
           Work(p), NEW answer, Replies(p, answer),
           Load(job[p].name).start = 0 =>
              /\ continuation[<<job[p].name, job[p].chat.turn>>] = 0
              /\ answer = LocalAnswer => Untouched(<<job[p].name, job[p].chat.turn>>, 1)
    PROVE  Approved'
<1> DEFINE n == job[p].name  t == job[p].chat.turn
<1>1. n \in Names /\ t \in Turns
    BY JobFacts
<1>2. /\ job' = job /\ conv' = conv /\ effects' = effects /\ continuation' = continuation
      /\ pc' = [pc EXCEPT ![p] = "commit"] /\ reply' = [reply EXCEPT ![p] = answer]
    BY DEF Replies, Goto, daemonVars
<1>3. pc'[p] = "commit" /\ reply'[p] = answer
    BY <1>2 DEF TurnsInv, ProcTypes
<1>4. Load(n)' = Load(n)
    BY <1>2 DEF Load
<1>5. Approves(n, t) /\ RunsMarked(p)
    BY <1>1 DEF Approved
<1>6. Approves(n, t)'
    BY <1>2, <1>4, <1>5 DEF Approves, Untouched
<1>7. RunsMarked(p)'
    BY <1>2, <1>3, <1>4, <1>5 DEF RunsMarked, Untouched, Running
<1> QED BY <1>1, <1>2, <1>6, <1>7, SameUndisturbed, StepApproved DEF Locked

LEMMA SuspendsApproved ==
    ASSUME TurnsInv, Approved, NEW p \in Procs, pc[p] \in {"respond", "resumed"},
           Work(p), NEW k \in 1..MaxCalls, Suspends(p, k),
           Load(job[p].name).start = 0 =>
              Untouched(<<job[p].name, job[p].chat.turn>>, k)
    PROVE  Approved'
<1> DEFINE n == job[p].name  t == job[p].chat.turn
<1>1. n \in Names /\ t \in Turns
    BY JobFacts
<1>2. /\ job' = job /\ conv' = conv /\ effects' = effects
      /\ continuation' = [continuation EXCEPT ![<<n, t>>] = k]
      /\ pc' = [pc EXCEPT ![p] = "idle"]
    BY DEF Suspends, Goto
<1>3. pc'[p] = "idle"
    BY <1>2 DEF TurnsInv, ProcTypes
<1>4. Load(n)' = Load(n)
    BY <1>2 DEF Load
<1>5. Approves(n, t) /\ (Load(n).start = 0 => Marked(Load(n), t))
    BY <1>1 DEF Approved, RunsMarked, Running
<1>6. continuation'[<<n, t>>] = k
    BY <1>1, <1>2 DEF TurnsInv, DaemonTypes
<1>7. ASSUME NEW m \in Names, NEW u \in Turns, <<m, u>> # <<n, t>>
      PROVE  continuation'[<<m, u>>] = continuation[<<m, u>>]
    BY <1>1, <1>2, <1>7 DEF TurnsInv, DaemonTypes
<1>8. Approves(n, t)'
    BY <1>2, <1>4, <1>5, <1>6 DEF Approves, Untouched
<1>9. RunsMarked(p)'
    BY <1>3 DEF RunsMarked, Running
<1> QED BY <1>1, <1>2, <1>7, <1>8, <1>9, SameUndisturbed, StepApproved DEF Locked

LEMMA RunFailsApproved ==
    ASSUME TurnsInv, Approved, NEW p \in Procs, Work(p), RunFails(p)
    PROVE  Approved'
<1>1. /\ conv' = conv /\ effects' = effects /\ continuation' = continuation
      /\ job' = job /\ reply' = reply /\ pc' = [pc EXCEPT ![p] = "idle"]
    BY DEF RunFails, Fails, Goto
<1>2. \A q \in Procs : pc'[q] \in Running => pc'[q] = pc[q]
    BY <1>1 DEF TurnsInv, ProcTypes, Running
<1> QED BY <1>1, <1>2, IdleApproved

\* A run from the start has executed nothing and waits for nothing.
LEMMA RunFreshApproved ==
    ASSUME TurnsInv, Approved, NEW p \in Procs, Work(p), RunFresh(p)
    PROVE  Approved'
<1>1. /\ pc[p] = "respond" /\ RunsMarked(p) /\ job[p].chat.call = 0
      /\ answers \in Nat
    BY DEF RunFresh, Approved, TurnsInv, CountTypes
<1>2. Load(job[p].name).start = 0 =>
         /\ continuation[<<job[p].name, job[p].chat.turn>>] = 0
         /\ Untouched(<<job[p].name, job[p].chat.turn>>, 1)
    BY <1>1 DEF RunsMarked, Running
<1>3. ASSUME NEW answer, Replies(p, answer) PROVE Approved'
    BY <1>1, <1>2, <1>3, RepliesApproved
<1>4. CASE MaxCalls > 0 /\ Suspends(p, 1)
  <2>1. 1 \in 1..MaxCalls
    BY <1>4, BoundsAssumption
  <2> QED BY <1>1, <1>2, <1>4, <2>1, SuspendsApproved
<1>5. CASE RunFails(p)
    BY <1>5, RunFailsApproved
<1> QED BY <1>3, <1>4, <1>5 DEF RunFresh

\* A resolution is for a lane with an endpoint, so this is a run from the start.
LEMMA RespondUnconfiguredApproved ==
    ASSUME TurnsInv, Approved, NEW p \in Procs, Work(p), RespondUnconfigured(p)
    PROVE  Approved'
<1>1. /\ pc[p] = "respond" /\ RunsMarked(p) /\ p \in Unconfigured
      /\ Replies(p, LocalAnswer)
    BY DEF RespondUnconfigured, Approved
<1>2. job[p].chat.call = 0
    BY <1>1, ProcsAssumption DEF TurnsInv, Resolved
<1>3. Load(job[p].name).start = 0 =>
         /\ continuation[<<job[p].name, job[p].chat.turn>>] = 0
         /\ Untouched(<<job[p].name, job[p].chat.turn>>, 1)
    BY <1>1, <1>2 DEF RunsMarked, Running
<1> QED BY <1>1, <1>3, RepliesApproved

LEMMA AskAgainApproved ==
    ASSUME TurnsInv, Approved, NEW p \in Procs, Work(p), AskAgain(p)
    PROVE  Approved'
<1> DEFINE n == job[p].name  t == job[p].chat.turn  k == ContinuationOf(p)
<1>1. /\ pc[p] = "respond" /\ k # 0 /\ Suspends(p, k) /\ n \in Names /\ t \in Turns
    BY JobFacts DEF AskAgain
<1>2. k = continuation[<<n, t>>]
    BY <1>1 DEF ContinuationOf
<1>3. k \in 1..MaxCalls
  <2>1. continuation[<<n, t>>] \in 0..MaxCalls
    BY <1>1 DEF TurnsInv, DaemonTypes
  <2> HIDE DEF k
  <2> QED BY <1>1, <1>2, <2>1, BoundsAssumption
<1>4. Load(n).start = 0 => Untouched(<<n, t>>, k)
    BY <1>1, <1>2 DEF Approved, Approves
<1> HIDE DEF k
<1> QED BY <1>1, <1>3, <1>4, SuspendsApproved

\* A continuation is taken before its call is executed, by one run.
LEMMA ResumeApproved ==
    ASSUME TurnsInv, Approved, NEW p \in Procs, NEW approved \in BOOLEAN, Work(p),
           Resume(p, approved)
    PROVE  Approved'
<1> DEFINE n == job[p].name  t == job[p].chat.turn  k == ContinuationOf(p)  id == <<n, t>>
<1>1. pc[p] = "respond" /\ n \in Names /\ t \in Turns /\ k # 0
    BY JobFacts DEF Resume
<1>2. p \in Names /\ continuation[id] = k /\ k \in Calls
  <2>1. p \notin Locals /\ continuation[id] = k
    BY <1>1 DEF ContinuationOf
  <2>2. continuation[id] \in 0..MaxCalls
    BY <1>1 DEF TurnsInv, DaemonTypes
  <2> HIDE DEF k
  <2> QED BY <1>1, <2>1, <2>2, BoundsAssumption DEF Calls, Procs
<1>3. /\ job' = [job EXCEPT ![p].chat.call = k] /\ conv' = conv /\ reply' = reply
      /\ continuation' = [continuation EXCEPT ![id] = 0]
      /\ effects' = effects \/ effects' = [effects EXCEPT ![id][k] = @ + 1]
      /\ pc' = [pc EXCEPT ![p] = "resumed"]
    BY DEF Resume, Taken, Goto
<1>4. /\ pc'[p] = "resumed" /\ id \in Names \X Turns
      /\ job'[p].name = n /\ job'[p].chat.turn = t /\ job'[p].chat.call = k
    BY <1>1, <1>3 DEF TurnsInv, ProcTypes, Jobs, Chats
<1>5. /\ continuation'[id] = 0
      /\ \A m \in Names, u \in Turns : <<m, u>> # id =>
            continuation'[<<m, u>>] = continuation[<<m, u>>]
    BY <1>3, <1>4 DEF TurnsInv, DaemonTypes
<1>6. /\ \A m \in Names, u \in Turns : <<m, u>> # id =>
            effects'[<<m, u>>] = effects[<<m, u>>]
      /\ \A j \in Calls : j # k => effects'[id][j] = effects[id][j]
      /\ effects'[id][k] \in {effects[id][k], effects[id][k] + 1}
  <2>1. effects \in [Names \X Turns -> [Calls -> Nat]]
    BY DEF TurnsInv, StoreTypes
  <2> HIDE DEF k, id
  <2>2. CASE effects' = effects
    BY <2>2
  <2>3. CASE effects' = [effects EXCEPT ![id][k] = @ + 1]
    <3>1. effects'[id] = [effects[id] EXCEPT ![k] = @ + 1]
      BY <1>4, <2>1, <2>3
    <3>2. effects[id] \in [Calls -> Nat]
      BY <1>4, <2>1
    <3> QED BY <1>2, <1>4, <2>1, <2>3, <3>1, <3>2
  <2> QED BY <1>3, <2>2, <2>3
<1>7. Load(n)' = Load(n)
    BY <1>3 DEF Load
<1>8. Load(n).start = 0 => /\ Untouched(id, k) /\ Marked(Load(n), t) /\ ~Stored(Load(n), t)
                           /\ \A j \in Calls : effects[id][j] <= 1
    BY <1>1, <1>2 DEF Approved, Approves
<1>9. Load(n).start = 0 => effects[id][k] = 0
    BY <1>2, <1>8 DEF Untouched, Calls
<1>10. \A j \in Calls : j >= k + 1 => j # k /\ j >= k
    BY <1>2 DEF Calls
<1> HIDE DEF id, k
<1>11. Approves(n, t)'
    BY <1>3, <1>4, <1>5, <1>6, <1>7, <1>8, <1>9 DEF Approves, id
<1>12. RunsMarked(p)'
    BY <1>3, <1>4, <1>5, <1>6, <1>7, <1>8, <1>10 DEF RunsMarked, Untouched, id
<1> QED BY <1>1, <1>3, <1>4, <1>5, <1>6, <1>11, <1>12, SameUndisturbed, StepApproved DEF Locked, id

\* A one-shot process has no resolutions, so its run is one from the start.
LEMMA ApproveInTerminalApproved ==
    ASSUME TurnsInv, Approved, NEW p \in Procs, Work(p), ApproveInTerminal(p)
    PROVE  Approved'
<1> DEFINE n == job[p].name  t == job[p].chat.turn  id == <<n, t>>
<1>1. /\ pc[p] = "respond" /\ n \in Names /\ t \in Turns /\ p \notin Names /\ 1 \in Calls
    BY JobFacts, ProcsAssumption, BoundsAssumption DEF ApproveInTerminal, Calls
<1>2. job[p].chat.call = 0
    BY <1>1 DEF TurnsInv, Resolved
<1>3. /\ job' = job /\ conv' = conv /\ reply' = reply /\ continuation' = continuation
      /\ effects' = [effects EXCEPT ![id][1] = @ + 1]
      /\ pc' = [pc EXCEPT ![p] = "resumed"]
    BY DEF ApproveInTerminal, Goto, daemonVars
<1>4. pc'[p] = "resumed" /\ id \in Names \X Turns
    BY <1>1, <1>3 DEF TurnsInv, ProcTypes
<1>5. /\ \A m \in Names, u \in Turns : <<m, u>> # id =>
            effects'[<<m, u>>] = effects[<<m, u>>]
      /\ \A j \in Calls : j # 1 => effects'[id][j] = effects[id][j]
      /\ effects'[id][1] = effects[id][1] + 1
    BY <1>1, <1>3, <1>4 DEF TurnsInv, StoreTypes
<1>6. Load(n)' = Load(n)
    BY <1>3 DEF Load
<1>7. Load(n).start = 0 => /\ Marked(Load(n), t) /\ Untouched(id, 1) /\ continuation[id] = 0
    BY <1>1, <1>2 DEF Approved, RunsMarked, Running
<1>8. Load(n).start = 0 => ~Stored(Load(n), t) /\ \A j \in Calls : effects[id][j] = 0
    BY <1>1, <1>7 DEF Approved, Approves, Untouched, Calls
<1> HIDE DEF id
<1>9. Approves(n, t)'
    BY <1>3, <1>5, <1>6, <1>7, <1>8 DEF Approves, id
<1>10. RunsMarked(p)'
    BY <1>1, <1>3, <1>4, <1>6, <1>7 DEF RunsMarked, id
<1> QED BY <1>1, <1>3, <1>5, <1>9, <1>10, SameUndisturbed, StepApproved DEF Locked, id

LEMMA AfterResumeApproved ==
    ASSUME TurnsInv, Approved, NEW p \in Procs, Work(p), AfterResume(p)
    PROVE  Approved'
<1>1. /\ pc[p] \in {"respond", "resumed"} /\ pc[p] = "resumed" /\ RunsMarked(p)
      /\ answers \in Nat /\ job[p].chat.call \in 0..MaxCalls
    BY JobFacts DEF AfterResume, Approved, TurnsInv, CountTypes
<1>2. Load(job[p].name).start = 0 =>
         /\ continuation[<<job[p].name, job[p].chat.turn>>] = 0
         /\ p \in Names =>
               Untouched(<<job[p].name, job[p].chat.turn>>, job[p].chat.call + 1)
    BY <1>1 DEF RunsMarked, Running
<1>3. ASSUME NEW answer, answer \in {answers + 1, FailureAnswer}, Replies(p, answer)
      PROVE  Approved'
  <2>1. answer # LocalAnswer
    BY <1>1, <1>3 DEF LocalAnswer, FailureAnswer
  <2> QED BY <1>1, <1>2, <1>3, <2>1, RepliesApproved
<1>4. CASE p \in Names /\ job[p].chat.call < MaxCalls /\ Suspends(p, job[p].chat.call + 1)
  <2>1. job[p].chat.call + 1 \in 1..MaxCalls
    BY <1>1, <1>4, BoundsAssumption
  <2> QED BY <1>1, <1>2, <1>4, <2>1, SuspendsApproved
<1>5. CASE RunFails(p)
    BY <1>5, RunFailsApproved
<1> QED BY <1>3, <1>4, <1>5 DEF AfterResume

\* A turn that has its reply has no marker, unless the conversation was cut.
LEMMA ReuseApproved ==
    ASSUME TurnsInv, Approved, NEW p \in Procs, Work(p), Reuse(p)
    PROVE  Approved'
<1> DEFINE n == job[p].name  t == job[p].chat.turn  s == Load(n)  later == Load(n)'
<1>1. /\ n \in Names /\ t \in Turns /\ s \in Conversations /\ pc[p] = "begin"
    BY JobFacts DEF Reuse
<1>2. /\ job' = job /\ effects' = effects /\ continuation' = continuation
      /\ conv' = [conv EXCEPT ![n] = Finished(s, t)] \/ conv' = conv
      /\ pc' = [pc EXCEPT ![p] = "publish"] \/ pc' = [pc EXCEPT ![p] = "idle"]
    BY DEF Reuse, Fails, Goto
<1>3. Stored(s, t)
    BY DEF Reuse, Completed, HasReply, Positions, Stored
<1>4. s.start = 0 => ~Marked(s, t)
    BY <1>1, <1>3 DEF Approved, Approves
<1>5. later = Finished(s, t) \/ later = s
  <2>1. Finished(s, t) # Absent
    BY <1>1, FinishedFacts, AbsentAssumption
  <2> QED BY <1>1, <1>2, <2>1, StoredTypes DEF Load
<1>6. /\ later.messages = s.messages /\ later.start = s.start
      /\ later.pending = s.pending \/ later.pending = {m \in s.pending : m.turn # t}
    BY <1>1, <1>5, FinishedFacts
<1> HIDE DEF s, later
<1>7. s.start = 0 => ~Marked(later, t)
    BY <1>4, <1>6 DEF Marked
<1>8. \A u \in Turns : u # t => Undisturbed(s, later, u)
    BY <1>6 DEF Undisturbed, Marked, Stored, Replied
<1>9. Approves(n, t)'
  <2>1. Approves(n, t)
    BY <1>1 DEF Approved
  <2>2. Replied(later, t) <=> Replied(s, t)
    BY <1>6 DEF Replied
  <2> QED BY <1>2, <1>4, <1>6, <1>7, <2>1, <2>2 DEF Approves, Untouched, s, later
<1>10. RunsMarked(p)'
    BY <1>2 DEF RunsMarked, Running, TurnsInv, ProcTypes
<1>11. \A m \in Names : m # n => conv'[m] = conv[m]
    BY <1>1, <1>2, StoredTypes
<1> QED BY <1>1, <1>2, <1>8, <1>9, <1>10, <1>11, StepApproved DEF Locked, s, later

\* A new attempt marks its turn, and an unfinished one is run only to resume it.
LEMMA BeginApproved ==
    ASSUME TurnsInv, Paired, Approved, NEW p \in Procs, Work(p), Begin(p)
    PROVE  Approved'
<1> DEFINE n == job[p].name  t == job[p].chat.turn  i == job[p].chat.input  s == Load(n)
           later == Load(n)'
<1>1. /\ n \in Names /\ t \in Turns /\ i \in Inputs /\ s \in Conversations
      /\ pc[p] = "begin"
    BY JobFacts DEF Begin
<1>2. job' = job /\ effects' = effects /\ continuation' = continuation /\ reply' = reply
    BY DEF Begin
<1>3. s.start = 0 => ~Stored(s, t)
    BY <1>1 DEF Begin, Paired, Completed, HasReply, Positions, Stored, Heard
<1>4. CASE pc' = [pc EXCEPT ![p] = "idle"] /\ conv' = conv
  <2>1. \A q \in Procs : pc'[q] \in Running => pc'[q] = pc[q]
    BY <1>4 DEF TurnsInv, ProcTypes, Running
  <2> QED BY <1>2, <1>4, <2>1, IdleApproved
<1>5. CASE /\ ~(~HasReply(s, t) /\ \E m \in {m \in s.pending : m.turn = t} :
                                   m.input # i \/ job[p].chat.call = 0)
           /\ conv' = IF HasReply(s, t) \/ {m \in s.pending : m.turn = t} # {} THEN conv
                      ELSE [conv EXCEPT ![n] = Began(s, t, i)]
           /\ pc' = [pc EXCEPT ![p] = "respond"]
  <2>1. s.start = 0 /\ Marked(s, t) => conv' = conv /\ job[p].chat.call # 0
    BY <1>3, <1>5 DEF HasReply, Positions, Stored, Marked
  <2>2. s.start = 0 /\ ~Marked(s, t) => later = Began(s, t, i)
    <3>1. Began(s, t, i) # Absent
      BY <1>1, BeganFacts, AbsentAssumption
    <3>2. s.start = 0 /\ ~Marked(s, t) => conv' = [conv EXCEPT ![n] = Began(s, t, i)]
      BY <1>3, <1>5 DEF HasReply, Positions, Stored, Marked
    <3> QED BY <1>1, <1>2, <3>1, <3>2, StoredTypes DEF Load
  <2>3. later = s \/ later = Began(s, t, i)
    <3>1. Began(s, t, i) # Absent
      BY <1>1, BeganFacts, AbsentAssumption
    <3> QED BY <1>1, <1>2, <1>5, <3>1, StoredTypes DEF Load
  <2>4. /\ later.messages = s.messages /\ later.start = s.start
        /\ later.pending = s.pending \/ later.pending = s.pending \cup {[turn |-> t, input |-> i]}
    BY <1>1, <2>3, BeganFacts
  <2>5. s.start = 0 => Marked(later, t)
    <3> DEFINE marker == [turn |-> t, input |-> i]
    <3>1. marker \in Began(s, t, i).pending /\ marker.turn = t
      BY <1>1, BeganFacts
    <3>2. Marked(Began(s, t, i), t)
      BY <3>1 DEF Marked
    <3> QED BY <1>2, <2>1, <2>2, <3>2 DEF Load
  <2>6. Approves(n, t)
    BY <1>1 DEF Approved
  <2> HIDE DEF s, later
  <2>7. \A u \in Turns : u # t => Undisturbed(s, later, u)
    BY <2>4 DEF Undisturbed, Marked, Stored, Replied
  <2>8. s.start = 0 /\ ~Marked(s, t) => /\ Untouched(<<n, t>>, 1)
                                        /\ continuation[<<n, t>>] = 0
    BY <1>3, <2>6 DEF Approves, Replied, Stored, s
  <2>9. Stored(later, t) <=> Stored(s, t)
    BY <2>4 DEF Stored
  <2>10. Approves(n, t)'
    BY <1>2, <1>3, <2>4, <2>5, <2>6, <2>9 DEF Approves, Untouched, s, later
  <2>11. pc'[p] = "respond"
    BY <1>5 DEF TurnsInv, ProcTypes
  <2>12. RunsMarked(p)'
    BY <1>2, <2>1, <2>4, <2>5, <2>8, <2>11 DEF RunsMarked, Untouched, s, later
  <2>13. \A m \in Names : m # n => conv'[m] = conv[m]
    BY <1>1, <1>5, StoredTypes
  <2> QED BY <1>1, <1>2, <2>7, <2>10, <2>12, <2>13, StepApproved DEF Locked, s, later
<1> QED BY <1>4, <1>5, Zenon DEF Begin, Fails, Goto

\* The marker goes with the write of a reply that is a model's if anything was executed.
LEMMA CommitApproved ==
    ASSUME TurnsInv, Approved, NEW p \in Procs, Work(p), Commit(p)
    PROVE  Approved'
<1> DEFINE n == job[p].name  t == job[p].chat.turn  i == job[p].chat.input  s == Load(n)
           later == Load(n)'  after == Answered(s, t, i, reply[p])
<1>1. /\ n \in Names /\ t \in Turns /\ i \in Inputs /\ s \in Conversations /\ Tidy(s)
      /\ pc[p] = "commit" /\ reply[p] \in Nat
    BY JobFacts DEF Commit, TurnsInv, ProcTypes
<1>2. conv[n] = original[p]
    BY <1>1 DEF TurnsInv, UpdatesSerialized, Running
<1>3. /\ job' = job /\ effects' = effects /\ continuation' = continuation
      /\ conv' = [conv EXCEPT ![n] = Finished(after, t)]
      /\ pc' = [pc EXCEPT ![p] = "publish"]
    BY <1>2 DEF Commit, Goto
<1>4. after \in Conversations /\ after.start >= s.start /\ after.pending = s.pending
  <2>1. after \in Conversations /\ after.pending = s.pending
    BY <1>1, AnsweredFacts
  <2>2. Succeeds(s, after)
    BY <1>1, AnsweredSucceeds
  <2> QED BY <2>1, <2>2 DEF Succeeds
<1>5. /\ reply[p] # LocalAnswer => Replied(after, t)
      /\ \A u \in Turns : /\ Stored(after, u) => u = t \/ Stored(s, u)
                          /\ Replied(s, u) => Replied(after, u)
    BY <1>1, AnsweredTurns
<1> HIDE DEF after
<1>6. later = Finished(after, t)
  <2>1. Finished(after, t) # Absent
    BY <1>1, <1>4, FinishedFacts, AbsentAssumption
  <2> QED BY <1>1, <1>3, <2>1, StoredTypes DEF Load
<1>7. /\ later.messages = after.messages /\ later.start = after.start
      /\ later.pending = {m \in s.pending : m.turn # t}
    BY <1>1, <1>4, <1>6, FinishedFacts
<1>8. s.start \in Nat /\ after.start \in Nat
    BY <1>1, <1>4 DEF Conversations
<1>9. Approves(n, t) /\ RunsMarked(p)
    BY <1>1 DEF Approved
<1>10. s.start = 0 => /\ continuation[<<n, t>>] = 0
                      /\ reply[p] = LocalAnswer => Untouched(<<n, t>>, 1)
    BY <1>1, <1>9 DEF RunsMarked, Running
<1> HIDE DEF s, later
<1>11. later.start = 0 => s.start = 0
    BY <1>4, <1>7, <1>8
<1>12. ~Marked(later, t) /\ (Replied(later, t) <=> Replied(after, t))
    BY <1>7 DEF Marked, Replied
<1>13. \A u \in Turns : u # t => Undisturbed(s, later, u)
    BY <1>5, <1>7, <1>11 DEF Undisturbed, Marked, Stored, Replied
<1>14. Approves(n, t)'
  <2>1. later.start = 0 => Untouched(<<n, t>>, 1) \/ Replied(later, t)
    BY <1>5, <1>10, <1>11, <1>12
  <2>2. later.start = 0 => /\ \A k \in Calls : effects[<<n, t>>][k] <= 1
                           /\ continuation[<<n, t>>] = 0
    BY <1>9, <1>10, <1>11 DEF Approves, s
  <2> QED BY <1>3, <1>12, <2>1, <2>2 DEF Approves, Untouched, later
<1>15. RunsMarked(p)'
    BY <1>3 DEF RunsMarked, Running, TurnsInv, ProcTypes
<1>16. \A m \in Names : m # n => conv'[m] = conv[m]
    BY <1>1, <1>3, StoredTypes
<1> QED BY <1>1, <1>3, <1>13, <1>14, <1>15, <1>16, StepApproved DEF Locked, s, later

\* A compression either cuts the conversation or changes nothing.
LEMMA CompressApproved ==
    ASSUME TurnsInv, Approved, NEW p \in Procs, Work(p), Compress(p)
    PROVE  Approved'
<1> DEFINE n == job[p].name  t == job[p].chat.turn  s == Load(n)  later == Load(n)'
<1>1. /\ n \in Names /\ t \in Turns /\ s \in Conversations /\ pc[p] = "begin"
    BY JobFacts DEF Compress
<1>2. /\ job' = job /\ effects' = effects /\ continuation' = continuation
      /\ conv' = [conv EXCEPT ![n] = Compressed(s)]
      /\ pc' = [pc EXCEPT ![p] = "idle"]
    BY DEF Compress, Goto
<1>3. later = Compressed(s) /\ Compressed(s) \in Conversations /\ later.pending = s.pending
  <2>1. Compressed(s) \in Conversations /\ Compressed(s).pending = s.pending
    BY <1>1, CompressedFacts
  <2>2. Compressed(s) # Absent
    BY <2>1, AbsentAssumption
  <2>3. later = Compressed(s)
    BY <1>1, <1>2, <2>2, StoredTypes DEF Load
  <2> QED BY <2>1, <2>3
<1>4. Succeeds(s, later)
    BY <1>1, <1>3, CompressedSucceeds
<1>5. later.start = 0 =>
         \A u \in Turns : /\ Stored(later, u) => Stored(s, u)
                          /\ Replied(s, u) => Replied(later, u)
    BY <1>1, <1>3, CompressedRemembers DEF Remembers
<1>6. s.start \in Nat /\ later.start \in Nat
    BY <1>1, <1>3 DEF Conversations
<1> HIDE DEF s, later
<1>7. later.start = 0 => s.start = 0
    BY <1>4, <1>6 DEF Succeeds
<1>8. \A u \in Turns : Undisturbed(s, later, u)
    BY <1>3, <1>5, <1>7 DEF Undisturbed, Marked
<1>9. Approves(n, t)
    BY <1>1 DEF Approved
<1>10. Approves(n, t)'
    BY <1>1, <1>2, <1>8, <1>9 DEF Undisturbed, Approves, Untouched, s, later
<1>11. RunsMarked(p)'
    BY <1>2 DEF RunsMarked, Running, TurnsInv, ProcTypes
<1>12. \A m \in Names : m # n => conv'[m] = conv[m]
    BY <1>1, <1>2, StoredTypes
<1> QED BY <1>1, <1>2, <1>8, <1>10, <1>11, <1>12, StepApproved DEF Locked, s, later

LEMMA WorkApproved ==
    ASSUME TurnsInv, Paired, Approved, NEW p \in Procs, Work(p)
    PROVE  Approved'
<1>1. CASE Acquire(p) \/ PublishFails(p) \/ \E admitted \in BOOLEAN : Publish(p, admitted)
  <2>1. /\ conv' = conv /\ effects' = effects /\ continuation' = continuation
        /\ \E step \in {"begin", "idle", "lock"} : pc' = [pc EXCEPT ![p] = step]
    BY <1>1 DEF Acquire, PublishFails, Publish, Goto, daemonVars
  <2>2. ASSUME NEW q \in Procs, pc'[q] \in Running PROVE q # p
    BY <2>1, <2>2 DEF TurnsInv, ProcTypes, Running
  <2> QED BY <2>1, <2>2, WorkAlone, IdleApproved
<1>2. CASE ContinuationLost(p)
    BY <1>2, RunFailsApproved DEF ContinuationLost
<1> QED BY <1>1, <1>2, ReuseApproved, BeginApproved, RunFreshApproved,
           RespondUnconfiguredApproved, AskAgainApproved, ApproveInTerminalApproved,
           AfterResumeApproved, ResumeApproved, CommitApproved, CompressApproved DEF Work

LEMMA ApprovedGoesOn ==
    ASSUME TurnsInv, ClaimsInv, ApprovedInv, [Next]_vars
    PROVE  ApprovedInv'
<1> SUFFICES ASSUME managed' = 0 PROVE Approved'
    BY DEF ApprovedInv
<1>1. ASSUME NEW changed, Managed(changed) PROVE FALSE
    BY <1>1 DEF Managed, TurnsInv, CountTypes
<1>2. \/ \E p \in Procs : Work(p)
      \/ \E n \in Names : LaneRuns(n)
      \/ \E p \in Locals, n \in Names, t \in Turns, i \in Inputs : LocalChat(p, n, t, i)
      \/ CrashDaemon \/ \E p \in Locals : CrashLocal(p)
      \/ UNCHANGED <<conv, effects, continuation, procVars, managed>>
    BY <1>1 DEF Next, vars, bounds, daemonVars, Ask, Resend, Request, GiveUp, Scan, Rename,
       Branch, SetArchived, Delete
<1>3. managed = 0
  <2>1. ASSUME NEW p \in Procs, Work(p) PROVE managed' = managed
    BY <2>1 DEF Work, Acquire, Reuse, Begin, RunFresh, RespondUnconfigured, ContinuationLost,
       AskAgain, ApproveInTerminal, AfterResume, Resume, Commit, Compress, PublishFails,
       Publish, Replies, Suspends, RunFails, bounds
  <2> QED BY <1>2, <2>1 DEF LaneRuns, LocalChat, CrashDaemon, CrashLocal, bounds
<1>4. Paired /\ Approved
    BY <1>3 DEF ClaimsInv, ApprovedInv
<1>5. /\ pc \in [Procs -> Steps] /\ job \in [Procs -> Jobs]
      /\ Names \subseteq Procs /\ Locals \subseteq Procs
    BY DEF TurnsInv, ProcTypes, Procs
<1>6. ASSUME NEW p \in Procs, Work(p) PROVE Approved'
    BY <1>4, <1>6, WorkApproved
<1>7. ASSUME NEW n \in Names, LaneRuns(n) PROVE Approved'
  <2>1. /\ conv' = conv /\ effects' = effects /\ continuation' = continuation
        /\ reply' = reply /\ pc' = [pc EXCEPT ![n] = "lock"]
    BY <1>7 DEF LaneRuns, Goto, daemonVars
  <2>2. \A q \in Procs : q # n => job'[q] = job[q]
    BY <1>5, <1>7 DEF LaneRuns
  <2>3. \A q \in Procs : pc'[q] \in Running =>
           pc'[q] = pc[q] /\ job'[q] = job[q] /\ reply'[q] = reply[q]
    BY <1>5, <2>1, <2>2 DEF Running
  <2> QED BY <1>4, <2>1, <2>3, IdleApproved
<1>8. ASSUME NEW p \in Locals, NEW n \in Names, NEW t \in Turns, NEW i \in Inputs,
             LocalChat(p, n, t, i)
      PROVE  Approved'
  <2>1. /\ conv' = conv /\ effects' = effects /\ continuation' = continuation
        /\ reply' = reply /\ pc' = [pc EXCEPT ![p] = "lock"]
        /\ \A q \in Procs : q # p => job'[q] = job[q]
    BY <1>5, <1>8 DEF LocalChat, Goto, daemonVars
  <2>2. \A q \in Procs : pc'[q] \in Running =>
           pc'[q] = pc[q] /\ job'[q] = job[q] /\ reply'[q] = reply[q]
    BY <1>5, <2>1 DEF Running
  <2> QED BY <1>4, <2>1, <2>2, IdleApproved
<1>9. CASE CrashDaemon
  <2>1. /\ conv' = conv /\ effects' = effects /\ reply' = reply /\ job' = job
        /\ \A n \in Names, t \in Turns : continuation'[<<n, t>>] = 0
    BY <1>9 DEF CrashDaemon, TurnsInv, DaemonTypes
  <2>2. \A q \in Procs : pc'[q] \in Running => pc'[q] = pc[q]
    BY <1>9 DEF CrashDaemon, Running
  <2> QED BY <1>4, <2>1, <2>2, IdleApproved
<1>10. ASSUME NEW p \in Locals, CrashLocal(p) PROVE Approved'
  <2>1. /\ conv' = conv /\ effects' = effects /\ continuation' = continuation
        /\ reply' = reply /\ job' = job /\ pc' = [pc EXCEPT ![p] = "idle"]
    BY <1>10 DEF CrashLocal, Goto, daemonVars
  <2>2. \A q \in Procs : pc'[q] \in Running => pc'[q] = pc[q]
    BY <1>5, <2>1 DEF Running
  <2> QED BY <1>4, <2>1, <2>2, IdleApproved
<1>11. CASE UNCHANGED <<conv, effects, continuation, procVars, managed>>
    BY <1>4, <1>11, IdleApproved DEF procVars
<1> QED BY <1>2, <1>6, <1>7, <1>8, <1>9, <1>10, <1>11

\* A call that needs approval is executed at most once per turn, whoever sends, joins,
\* resumes or retries the turn and whoever dies, until the conversation is cut or managed
\* (_begin_turn_attempt, the continuation registry and the effects of the agent runs).
THEOREM CallsAreApprovedOnce == Spec => []ApprovedOnce
<1>1. Init => ApprovedInv
  <2> SUFFICES ASSUME Init PROVE Approved
    BY DEF ApprovedInv
  <2>1. \A n \in Names : Load(n) = Empty
    BY DEF Init, Load
  <2>2. \A n \in Names, t \in Turns :
           continuation[<<n, t>>] = 0 /\ \A k \in Calls : effects[<<n, t>>][k] = 0
    BY DEF Init
  <2>3. ASSUME NEW n \in Names, NEW t \in Turns PROVE Approves(n, t)
    BY <2>1, <2>2 DEF Approves, Untouched, Marked, Empty
  <2>4. \A p \in Procs : RunsMarked(p)
    BY DEF Init, RunsMarked, Running
  <2> QED BY <2>3, <2>4 DEF Approved
<1>2. TurnsInv /\ ClaimsInv /\ ApprovedInv /\ [Next]_vars => ApprovedInv'
    BY ApprovedGoesOn
<1>3. ApprovedInv => ApprovedOnce
  <2> SUFFICES ASSUME ApprovedInv, managed = 0, NEW n \in Names, NEW t \in Turns,
                      conv[n] # Absent, conv[n].start = 0, NEW k \in Calls
               PROVE  effects[<<n, t>>][k] <= 1
    BY DEF ApprovedOnce
  <2> QED BY DEF ApprovedInv, Approved, Approves, Load
<1> QED BY <1>1, <1>2, <1>3, TurnsInvAlways, ClaimsInvAlways, PTL DEF Spec

=============================================================================
