---------------------------- MODULE Intake_proofs ----------------------------
(***************************************************************************)
(* Proofs about the intake of messages, for any people and any number of   *)
(* messages.  A message has one place at a time: the queue, the batch or   *)
(* the group in hand (which count as one place), or a task.  Every action  *)
(* that handles messages moves those of a person to other places without   *)
(* changing the order of the places, and that is why none is lost, none is *)
(* worked on twice, and none overtakes another of the same person.         *)
(***************************************************************************)
EXTENDS Intake, Ordered_proofs

(* The tasks are the first places, in the order of their ids.              *)
Busy    == MaxMessages + MaxEvents + MaxGoalTasks + 1
Waiting == Busy + 1
Place   == 1..Waiting

QueuedMessage == [n : Message, from : Sender]

Carries(group, m, s)   == group.from = s /\ m \in Range(group.msgs)
InGroups(groups, m, s) == \E k \in DOMAIN groups : Carries(groups[k], m, s)
Queued(queue, m, s)    == \E i \in DOMAIN queue : queue[i].from = s /\ queue[i].n = m

(* The message m of the sender s is at the place p.                        *)
At(m, s, p) ==
    \/ p \in TaskId /\ Carries(asked[p], m, s)
    \/ p = Busy /\ (Carries(hand, m, s) \/ InGroups(batch, m, s))
    \/ p = Waiting /\ Queued(pending, m, s)

OnePlace ==
    \A m \in Message, s, z \in Sender, p, q \in Place :
      At(m, s, p) /\ At(m, z, q) => s = z /\ p = q

Covered ==
    \A m \in Message :
      m <= arrived <=> \E s \in Sender, p \in Place : At(m, s, p)

InOrder ==
    \A m, n \in Message, s \in Sender, p, q \in Place :
      At(m, s, p) /\ At(n, s, q) /\ p < q => m < n

(* One group per person, in the batch and in hand.                         *)
Distinct(groups) ==
    \A k, l \in DOMAIN groups : k # l => groups[k].from # groups[l].from

Apart == Distinct(batch) /\ \A k \in DOMAIN batch : batch[k].from # hand.from

(* Where the loop is when it has groups to handle; ids not given out yet   *)
(* stand for no messages.                                                  *)
LoopOK ==
    /\ fpc # "triaging" => hand = NoGroup
    /\ fpc \notin {"triaging", "replying"} => batch = << >>
    /\ \A t \in TaskId : t > created => asked[t] = NoGroup
    /\ created \in Nat

MessageTypes ==
    /\ asked \in [TaskId -> Group \cup {NoGroup}]
    /\ arrived \in 0..MaxMessages
    /\ pending \in Seq(QueuedMessage)
    /\ batch \in Seq(Group)
    /\ hand \in Group \cup {NoGroup}

Orderly == OnePlace /\ Covered /\ InOrder

MessageInv == MessageTypes /\ LoopOK /\ Apart /\ Orderly

-----------------------------------------------------------------------------
(* The order of the places.                                                *)
LEMMA Numbers ==
  /\ Busy \in Nat /\ Waiting = Busy + 1
  /\ Busy \notin TaskId /\ Waiting \notin TaskId
  /\ TaskId \subseteq Nat \ {0} /\ \A t \in TaskId : t < Busy
  /\ Place = TaskId \cup {Busy, Waiting} /\ Place \subseteq Nat
  /\ Message \subseteq Nat
BY BoardAssumption DEF Busy, Waiting, Place, TaskId, Message

(* Messages that change places in step, with no two changing their order,  *)
(* are still in one place each, and in order.                              *)
LEMMA MoveKeeps ==
  ASSUME Orderly, arrived' = arrived,
         NEW move \in [Sender -> [Place -> Place]],
         \A s \in Sender : \A p, q \in Place : p <= q => move[s][p] <= move[s][q],
         \A m \in Message, s \in Sender, q \in Place :
           At(m, s, q)' <=> \E p \in Place : At(m, s, p) /\ move[s][p] = q
  PROVE  Orderly'
<1>1. ASSUME NEW m \in Message, NEW s \in Sender, NEW z \in Sender,
             NEW p \in Place, NEW q \in Place, At(m, s, p)', At(m, z, q)'
      PROVE  s = z /\ p = q
  <2>1. PICK a \in Place : At(m, s, a) /\ move[s][a] = p
    BY <1>1
  <2>2. PICK b \in Place : At(m, z, b) /\ move[z][b] = q
    BY <1>1
  <2>3. s = z /\ a = b
    BY <2>1, <2>2 DEF Orderly, OnePlace
  <2> QED
    BY <2>1, <2>2, <2>3
<1>2. ASSUME NEW m \in Message
      PROVE  (m <= arrived') <=> \E s \in Sender, p \in Place : At(m, s, p)'
  <2>1. (m <= arrived') <=> \E s \in Sender, p \in Place : At(m, s, p)
    BY DEF Orderly, Covered
  <2>2. \A s \in Sender, p \in Place : move[s][p] \in Place
    OBVIOUS
  <2>3. (\E s \in Sender, p \in Place : At(m, s, p))
          <=> \E s \in Sender, q \in Place : At(m, s, q)'
    BY <2>2
  <2> QED
    BY <2>1, <2>3
<1>3. ASSUME NEW m \in Message, NEW n \in Message, NEW s \in Sender,
             NEW p \in Place, NEW q \in Place, At(m, s, p)', At(n, s, q)', p < q
      PROVE  m < n
  <2>1. PICK a \in Place : At(m, s, a) /\ move[s][a] = p
    BY <1>3
  <2>2. PICK b \in Place : At(n, s, b) /\ move[s][b] = q
    BY <1>3
  <2>3. a \in Nat /\ b \in Nat /\ p \in Nat /\ q \in Nat
    BY Numbers
  <2>4. ~ (b <= a)
    BY <1>3, <2>1, <2>2, <2>3
  <2> QED
    BY <2>1, <2>2, <2>3, <2>4 DEF Orderly, InOrder
<1> QED
  BY <1>1, <1>2, <1>3 DEF Orderly, OnePlace, Covered, InOrder

-----------------------------------------------------------------------------
(* The operators of the FastLoop *)

(* bySender joins the messages of each person into one group, and leaves   *)
(* none out (fast-loop.ts, 226-232).                                       *)
LEMMA GroupsJoin ==
  ASSUME NEW queue \in Seq(QueuedMessage)
  PROVE  /\ GroupsOf(queue) \in Seq(Group)
         /\ Distinct(GroupsOf(queue))
         /\ \A m \in Message, s \in Sender :
              InGroups(GroupsOf(queue), m, s) <=> Queued(queue, m, s)
<1> DEFINE places == [s \in Sender |-> {i \in DOMAIN queue : queue[i].from = s}]
           numbers == [i \in DOMAIN queue |-> queue[i].n]
           bySender == [s \in Sender |->
                          [from |-> s, msgs |-> Filtered(numbers, places[s])]]
           first == {i \in DOMAIN queue : \A j \in places[queue[i].from] : i <= j}
           firsts == Filtered(queue, first)
           groups == GroupsOf(queue)
<1>1. groups = [k \in DOMAIN firsts |-> bySender[firsts[k].from]]
  BY Zenon DEF GroupsOf
<1>2. /\ DOMAIN queue = 1..Len(queue) /\ Len(queue) \in Nat
      /\ \A i \in DOMAIN queue : queue[i] \in QueuedMessage
  OBVIOUS
<1>3. \A i \in DOMAIN queue : queue[i].from \in Sender /\ queue[i].n \in Message
  BY <1>2 DEF QueuedMessage
<1>4. numbers \in Seq(Message) /\ DOMAIN numbers = DOMAIN queue
  BY <1>2, <1>3
<1>5. ASSUME NEW s \in Sender
      PROVE  /\ places[s] \in SUBSET (DOMAIN numbers)
             /\ bySender[s] \in Group /\ bySender[s].from = s
             /\ Range(bySender[s].msgs) = {numbers[i] : i \in places[s]}
  <2>1. places[s] \in SUBSET (DOMAIN numbers)
    BY <1>4
  <2>2. /\ Filtered(numbers, places[s]) \in Seq(Message)
        /\ Range(Filtered(numbers, places[s])) = {numbers[i] : i \in places[s]}
    <3> HIDE DEF numbers, places
    <3> QED
      BY <1>4, <2>1, FilteredKeeps
  <2> QED
    BY <2>1, <2>2 DEF Group
<1>6. /\ firsts \in Seq(QueuedMessage)
      /\ DOMAIN firsts = 1..Len(firsts) /\ Len(firsts) \in Nat
      /\ \E o \in [DOMAIN firsts -> first] :
           /\ \A k \in DOMAIN o : firsts[k] = queue[o[k]]
           /\ \A j, k \in DOMAIN o : j < k => o[j] < o[k]
           /\ \A i \in first : \E k \in DOMAIN o : o[k] = i
  <2>1. first \in SUBSET (DOMAIN queue)
    OBVIOUS
  <2> HIDE DEF first
  <2>2. firsts \in Seq(QueuedMessage)
    BY <2>1, FilteredKeeps
  <2>3. InOrderFrom(firsts, queue, first)
    BY <2>1, FilteredKeeps
  <2> HIDE DEF firsts
  <2> QED
    BY <2>2, <2>3 DEF InOrderFrom
<1>7. PICK o \in [DOMAIN firsts -> first] :
        /\ \A k \in DOMAIN o : firsts[k] = queue[o[k]]
        /\ \A j, k \in DOMAIN o : j < k => o[j] < o[k]
        /\ \A i \in first : \E k \in DOMAIN o : o[k] = i
  BY <1>6
<1> HIDE DEF firsts, bySender, groups, numbers
<1>8. \A k \in DOMAIN firsts : /\ o[k] \in first /\ o[k] \in DOMAIN queue
                               /\ firsts[k].from = queue[o[k]].from
                               /\ firsts[k].from \in Sender
                               /\ groups[k] = bySender[firsts[k].from]
                               /\ groups[k].from = firsts[k].from
  BY <1>1, <1>3, <1>5, <1>7
<1>9. groups \in Seq(Group) /\ DOMAIN groups = DOMAIN firsts
  BY <1>1, <1>5, <1>6, <1>8
<1>10. ASSUME NEW k \in DOMAIN firsts, NEW l \in DOMAIN firsts, k < l
       PROVE  groups[k].from # groups[l].from
  <2>1. o[k] < o[l] /\ o[k] \in Nat /\ o[l] \in Nat
    BY <1>2, <1>7, <1>8, <1>10
  <2>2. \A j \in places[firsts[l].from] : o[l] <= j
    BY <1>8
  <2>3. o[k] \in places[firsts[k].from]
    BY <1>8
  <2> QED
    BY <1>8, <2>1, <2>2, <2>3
<1>11. Distinct(groups)
  <2> SUFFICES ASSUME NEW k \in DOMAIN groups, NEW l \in DOMAIN groups, k # l
               PROVE  groups[k].from # groups[l].from
    BY DEF Distinct
  <2>1. k < l \/ l < k
    BY <1>6, <1>9
  <2> QED
    BY <1>9, <1>10, <2>1
<1>12. ASSUME NEW m \in Message, NEW s \in Sender, InGroups(groups, m, s)
       PROVE  Queued(queue, m, s)
  <2>1. PICK k \in DOMAIN firsts : groups[k].from = s /\ m \in Range(groups[k].msgs)
    BY <1>9, <1>12 DEF InGroups, Carries
  <2>2. m \in {numbers[i] : i \in places[s]}
    <3>1. firsts[k].from = s /\ groups[k] = bySender[s]
      BY <1>8, <2>1
    <3>2. Range(bySender[s].msgs) = {numbers[i] : i \in places[s]}
      BY <1>5
    <3> QED
      BY <2>1, <3>1, <3>2, Zenon
  <2> QED
    BY <2>2 DEF Queued, numbers
<1>13. ASSUME NEW m \in Message, NEW s \in Sender, Queued(queue, m, s)
       PROVE  InGroups(groups, m, s)
  <2>1. PICK i \in DOMAIN queue : queue[i].from = s /\ queue[i].n = m
    BY <1>13 DEF Queued
  <2>2. i \in places[s] /\ places[s] \in SUBSET Nat
    BY <1>2, <2>1
  <2>3. PICK j \in places[s] : \A l \in places[s] : j <= l
    <3> HIDE DEF places
    <3> QED
      BY <2>2, LeastElement
  <2>4. j \in first /\ queue[j].from = s
    BY <2>3
  <2>5. PICK k \in DOMAIN firsts : o[k] = j
    BY <1>7, <2>4
  <2>6. groups[k] = bySender[s]
    BY <1>8, <2>4, <2>5
  <2>7. m \in Range(bySender[s].msgs)
    <3>1. Range(bySender[s].msgs) = {numbers[i_1] : i_1 \in places[s]}
      BY <1>5
    <3>2. m = numbers[i]
      BY <2>1 DEF numbers
    <3> QED
      BY <2>2, <3>1, <3>2, Zenon
  <2> QED
    BY <1>5, <1>9, <2>6, <2>7 DEF InGroups, Carries
<1> QED
  BY <1>9, <1>11, <1>12, <1>13 DEF groups

(* The messages of a group that goes back to the queue.                    *)
LEMMA PutBackKeeps ==
  ASSUME NEW group \in Group
  PROVE  /\ PutBack(group) \in Seq(QueuedMessage)
         /\ \A m \in Message, s \in Sender :
              (\E e \in Range(PutBack(group)) : e.from = s /\ e.n = m)
                <=> Carries(group, m, s)
<1>1. group.msgs \in Seq(Message) /\ group.from \in Sender
  BY DEF Group
<1>2. \A i \in DOMAIN group.msgs : group.msgs[i] \in Message
  BY <1>1
<1>3. PutBack(group) \in Seq(QueuedMessage)
  <2> DEFINE N == Len(group.msgs)
             message(i) == [n |-> group.msgs[i], from |-> group.from]
  <2>1. DOMAIN group.msgs = 1..N /\ N \in Nat
    BY <1>1
  <2>2. \A i \in 1..N : message(i) \in QueuedMessage
    BY <1>1, <1>2, <2>1 DEF QueuedMessage
  <2>3. PutBack(group) = [i \in 1..N |-> message(i)]
    BY <2>1, Zenon DEF PutBack
  <2> HIDE DEF N, message
  <2> QED
    BY <2>1, <2>2, <2>3
<1>4. Range(PutBack(group)) =
        {[n |-> group.msgs[i], from |-> group.from] : i \in DOMAIN group.msgs}
  BY DEF PutBack, Range
<1>5. Range(group.msgs) = {group.msgs[i] : i \in DOMAIN group.msgs}
  BY DEF Range
<1>6. ASSUME NEW m \in Message, NEW s \in Sender,
             NEW e \in Range(PutBack(group)), e.from = s, e.n = m
      PROVE  Carries(group, m, s)
  <2>1. PICK i \in DOMAIN group.msgs : e = [n |-> group.msgs[i], from |-> group.from]
    BY <1>4, <1>6
  <2> QED
    BY <1>5, <1>6, <2>1 DEF Carries
<1>7. ASSUME NEW m \in Message, NEW s \in Sender, Carries(group, m, s)
      PROVE  \E e \in Range(PutBack(group)) : e.from = s /\ e.n = m
  <2>1. group.from = s /\ m \in {group.msgs[i] : i \in DOMAIN group.msgs}
    BY <1>5, <1>7 DEF Carries
  <2>2. PICK i \in DOMAIN group.msgs : m = group.msgs[i]
    BY <2>1
  <2>3. [n |-> group.msgs[i], from |-> group.from] \in Range(PutBack(group))
    BY <1>4
  <2> QED
    BY <2>1, <2>2, <2>3
<1> QED
  BY <1>3, <1>6, <1>7

(* What a queue holds depends on its elements only.                        *)
LEMMA QueuedInRange ==
  ASSUME NEW queue, NEW m, NEW s
  PROVE  Queued(queue, m, s) <=> \E e \in Range(queue) : e.from = s /\ e.n = m
BY DEF Queued, Range

(* From one group to the next, the groups of some people go back to the    *)
(* queue, and what the others wrote stays in the batch or is taken in hand *)
(* (fast-loop.ts, 234-249).                                                *)
LEMMA NextGroupMoves ==
  ASSUME NEW queue \in Seq(QueuedMessage), NEW groups \in Seq(Group), NEW cut,
         Distinct(groups), NextGroup(queue, groups, cut)
  PROVE  /\ pending' \in Seq(QueuedMessage)
         /\ batch' \in Seq(Group)
         /\ hand' \in Group \cup {NoGroup}
         /\ Apart'
         /\ fpc' \in {"idle", "triaging"}
         /\ fpc' = "idle" => hand' = NoGroup /\ batch' = << >>
         /\ cutoff' \in {0, cut}
         /\ \E back \in SUBSET Sender : \A m \in Message, s \in Sender :
              /\ Queued(pending', m, s)
                   <=> Queued(queue, m, s) \/ (s \in back /\ InGroups(groups, m, s))
              /\ (Carries(hand', m, s) \/ InGroups(batch', m, s))
                   <=> (s \notin back /\ InGroups(groups, m, s))
<1> DEFINE k == SelectInSeq(groups, LAMBDA g : Ready(g, cut))
           N == Len(groups)
           w == IF k = 0 THEN N ELSE k - 1
           waits == IF k = 0 THEN groups ELSE SubSeq(groups, 1, k - 1)
           backs == [i \in DOMAIN waits |-> PutBack(waits[i])]
           back == {groups[i].from : i \in 1..w}
<1>1. N \in Nat /\ DOMAIN groups = 1..N /\ \A i \in 1..N : groups[i] \in Group
  OBVIOUS
<1>2. k \in 0..N
  <2> DEFINE I == {i \in 1..Len(groups) : Ready(groups[i], cut)}
  <2>1. k = IF I # {} THEN Min(I) ELSE 0
    BY DEF SelectInSeq
  <2>2. I \in SUBSET Nat /\ I \subseteq 1..N
    BY <1>1
  <2> HIDE DEF I
  <2>3. I # {} => Min(I) \in I
    BY <2>2, LeastElement DEF Min
  <2> QED
    BY <1>1, <2>1, <2>2, <2>3
<1>3. /\ pending' = queue \o FlattenSeq(backs)
      /\ batch' = IF k = 0 THEN << >> ELSE SubSeq(groups, k + 1, N)
      /\ hand' = IF k = 0 THEN NoGroup ELSE groups[k]
      /\ cutoff' = IF k = 0 THEN 0 ELSE cut
      /\ fpc' = IF k = 0 THEN "idle" ELSE "triaging"
  BY Zenon DEF NextGroup
<1> HIDE DEF k, N
<1>4. /\ waits \in Seq(Group) /\ DOMAIN waits = 1..w
      /\ w \in 0..N
      /\ \A i \in 1..w : i \in 1..N /\ waits[i] = groups[i]
  <2>1. CASE k = 0
    BY <1>1, <2>1 DEF N
  <2>2. CASE k # 0
    BY <1>1, <1>2, <2>2
  <2> QED
    BY <2>1, <2>2
<1> HIDE DEF waits, w
<1>5. /\ backs \in Seq(Seq(QueuedMessage)) /\ DOMAIN backs = 1..w
      /\ \A i \in 1..w : backs[i] = PutBack(groups[i])
  <2>1. \A i \in 1..w : PutBack(groups[i]) \in Seq(QueuedMessage)
    BY <1>1, <1>4, PutBackKeeps
  <2> QED
    BY <1>4, <2>1
<1> HIDE DEF backs
<1>6. /\ FlattenSeq(backs) \in Seq(QueuedMessage)
      /\ Range(FlattenSeq(backs)) = UNION {Range(PutBack(groups[i])) : i \in 1..w}
  <2>1. /\ FlattenSeq(backs) \in Seq(QueuedMessage)
        /\ Range(FlattenSeq(backs)) = UNION {Range(backs[i]) : i \in DOMAIN backs}
    BY <1>5, FlattenKeeps
  <2>2. {Range(backs[i]) : i \in DOMAIN backs} = {Range(PutBack(groups[i])) : i \in 1..w}
    BY <1>5
  <2> QED
    BY <2>1, <2>2
<1>7. /\ pending' \in Seq(QueuedMessage)
      /\ Range(pending') = Range(queue) \cup UNION {Range(PutBack(groups[i])) : i \in 1..w}
  BY <1>3, <1>6, ConcatRange
<1>8. ASSUME NEW m \in Message, NEW s \in Sender
      PROVE  /\ Queued(pending', m, s)
                  <=> Queued(queue, m, s) \/ \E i \in 1..w : Carries(groups[i], m, s)
  <2>1. Queued(pending', m, s) <=> \E e \in Range(pending') : e.from = s /\ e.n = m
    BY QueuedInRange
  <2>2. Queued(queue, m, s) <=> \E e \in Range(queue) : e.from = s /\ e.n = m
    BY QueuedInRange
  <2>3. (\E e \in Range(pending') : e.from = s /\ e.n = m)
          <=> \/ \E e \in Range(queue) : e.from = s /\ e.n = m
              \/ \E i \in 1..w : \E e \in Range(PutBack(groups[i])) : e.from = s /\ e.n = m
    BY <1>7, Zenon
  <2>4. \A i \in 1..w : (\E e \in Range(PutBack(groups[i])) : e.from = s /\ e.n = m)
                          <=> Carries(groups[i], m, s)
    BY <1>1, <1>4, PutBackKeeps
  <2> QED
    BY <2>1, <2>2, <2>3, <2>4, Zenon
<1>9. /\ batch' \in Seq(Group) /\ hand' \in Group \cup {NoGroup}
      /\ k = 0 => batch' = << >> /\ hand' = NoGroup /\ w = N
      /\ k # 0 => /\ DOMAIN batch' = 1..(N - k) /\ hand' = groups[k] /\ w = k - 1
                  /\ \A i \in 1..(N - k) : batch'[i] = groups[k + i]
  <2>1. CASE k = 0
    BY <1>3, <2>1 DEF w
  <2>2. CASE k # 0
    <3>1. k \in 1..N /\ k + 1 \in Int /\ N \in Int /\ batch' = SubSeq(groups, k + 1, N)
      BY <1>1, <1>2, <1>3, <2>2
    <3>2. \A i \in (k + 1)..N : groups[i] \in Group
      BY <1>1, <3>1
    <3>3. /\ batch' \in Seq(Group) /\ DOMAIN batch' = 1..(N - k)
          /\ \A i \in 1..(N - k) : batch'[i] = groups[k + i]
      BY <1>1, <3>1, <3>2
    <3> QED
      BY <1>1, <1>3, <2>2, <3>1, <3>3 DEF w
  <2> QED
    BY <2>1, <2>2
<1>10. \A i, j \in 1..N : groups[i].from = groups[j].from => i = j
  BY <1>1 DEF Distinct
<1>11. Apart'
  <2>1. CASE k = 0
    BY <1>9, <2>1 DEF Apart, Distinct
  <2>2. CASE k # 0
    <3>1. /\ k \in 1..N
          /\ \A i \in DOMAIN batch' : /\ i \in Nat /\ i # 0 /\ k + i \in 1..N
                                      /\ batch'[i] = groups[k + i]
          /\ hand' = groups[k]
      BY <1>1, <1>2, <1>9, <2>2
    <3>2. ASSUME NEW i \in DOMAIN batch', NEW j \in DOMAIN batch', i # j
          PROVE  batch'[i].from # batch'[j].from
      <4>1. k \in Nat /\ i \in Nat /\ j \in Nat
        BY <3>1, <3>2
      <4>2. k + i # k + j
        BY <3>2, <4>1
      <4> QED
        BY <1>10, <3>1, <3>2, <4>2
    <3>3. ASSUME NEW i \in DOMAIN batch'
          PROVE  batch'[i].from # hand'.from
      <4>1. k + i # k /\ k + i \in 1..N
        BY <3>1, <3>3
      <4> QED
        BY <1>10, <3>1, <3>3, <4>1
    <3> QED
      BY <3>2, <3>3 DEF Apart, Distinct
  <2> QED
    BY <2>1, <2>2
<1>12. back \in SUBSET Sender
  BY <1>1, <1>4 DEF Group
<1>13. ASSUME NEW m \in Message, NEW s \in Sender
       PROVE  (\E i \in 1..w : Carries(groups[i], m, s))
                <=> (s \in back /\ InGroups(groups, m, s))
  <2>1. ASSUME NEW i \in 1..w, Carries(groups[i], m, s)
        PROVE  s \in back /\ InGroups(groups, m, s)
    BY <1>1, <1>4, <2>1 DEF Carries, InGroups
  <2>2. ASSUME NEW i \in 1..w, groups[i].from = s, NEW j \in 1..N, Carries(groups[j], m, s)
        PROVE  Carries(groups[i], m, s)
    BY <1>4, <1>10, <2>2 DEF Carries
  <2> QED
    BY <1>1, <2>1, <2>2 DEF InGroups
<1>14. ASSUME NEW m \in Message, NEW s \in Sender
       PROVE  (Carries(hand', m, s) \/ InGroups(batch', m, s))
                <=> (s \notin back /\ InGroups(groups, m, s))
  <2>1. InGroups(groups, m, s) <=> \E j \in 1..N : Carries(groups[j], m, s)
    BY <1>1 DEF InGroups
  <2>2. CASE k = 0
    <3>1. ~Carries(hand', m, s) /\ ~InGroups(batch', m, s)
      BY <1>9, <2>2 DEF Carries, InGroups, NoGroup, Range
    <3>2. InGroups(groups, m, s) => s \in back
      BY <1>9, <2>1, <2>2 DEF Carries
    <3> QED
      BY <3>1, <3>2
  <2>3. CASE k # 0
    <3>1. /\ k \in 1..N /\ k \in Nat /\ hand' = groups[k] /\ w = k - 1
          /\ DOMAIN batch' = 1..(N - k)
          /\ \A i \in DOMAIN batch' : /\ k + i \in k..N
                                      /\ batch'[i] = groups[k + i]
          /\ \A j \in (k + 1)..N : j - k \in 1..(N - k) /\ k + (j - k) = j
      BY <1>1, <1>2, <1>9, <2>3
    <3>2. (Carries(hand', m, s) \/ InGroups(batch', m, s))
            <=> \E j \in k..N : Carries(groups[j], m, s)
      <4>1. ASSUME NEW i \in DOMAIN batch', Carries(batch'[i], m, s)
            PROVE  \E j \in k..N : Carries(groups[j], m, s)
        BY <3>1, <4>1
      <4>2. Carries(hand', m, s) => \E j \in k..N : Carries(groups[j], m, s)
        BY <1>1, <3>1
      <4>3. ASSUME NEW j \in k..N, Carries(groups[j], m, s)
            PROVE  Carries(hand', m, s) \/ InGroups(batch', m, s)
        <5>1. CASE j = k
          BY <3>1, <4>3, <5>1
        <5>2. CASE j # k
          <6>1. j - k \in DOMAIN batch' /\ batch'[j - k] = groups[j]
            BY <1>1, <3>1, <5>2
          <6> QED
            BY <4>3, <6>1 DEF InGroups
        <5> QED
          BY <5>1, <5>2
      <4> QED
        BY <4>1, <4>2, <4>3 DEF InGroups
    <3>3. \A j \in 1..N : j \in k..N <=> j \notin 1..w
      BY <1>1, <3>1
    <3>4. \A j \in k..N : j \in 1..N
      BY <1>1, <3>1
    <3>5. ASSUME NEW j \in 1..N
          PROVE  groups[j].from \in back <=> j \in 1..w
      BY <1>4, <1>10
    <3>6. (\E j \in k..N : Carries(groups[j], m, s))
            <=> (s \notin back /\ InGroups(groups, m, s))
      BY <2>1, <3>3, <3>4, <3>5 DEF Carries
    <3> QED
      BY <3>2, <3>6
  <2> QED
    BY <2>2, <2>3
<1>15. \A m \in Message, s \in Sender :
         /\ Queued(pending', m, s)
              <=> Queued(queue, m, s) \/ (s \in back /\ InGroups(groups, m, s))
         /\ (Carries(hand', m, s) \/ InGroups(batch', m, s))
              <=> (s \notin back /\ InGroups(groups, m, s))
  BY <1>8, <1>13, <1>14
<1>16. /\ fpc' \in {"idle", "triaging"} /\ cutoff' \in {0, cut}
       /\ fpc' = "idle" => hand' = NoGroup /\ batch' = << >>
  BY <1>3
<1> HIDE DEF back
<1> QED
  BY <1>7, <1>9, <1>11, <1>12, <1>15, <1>16

-----------------------------------------------------------------------------
(* The actions that handle messages keep MessageInv *)

(* Nobody's message is where no group is.                                  *)
LEMMA NoGroupIsEmpty ==
  /\ NoGroup \notin Group
  /\ Range(NoGroup.msgs) = {}
  /\ \A m, s : ~Carries(NoGroup, m, s)
  /\ \A group \in Group : group.from # NoGroup.from
BY BoardAssumption DEF NoGroup, Group, Carries, Range

(* What the other actions of the loops leave alone.                        *)
LEMMA QuietKeepsMessages ==
  ASSUME MessageInv,
         UNCHANGED <<asked, created, arrived, pending, batch, hand>>,
         \/ fpc' = fpc
         \/ {fpc, fpc'} \cap {"triaging", "replying"} = {}
  PROVE  MessageInv'
<1>1. /\ asked' = asked /\ created' = created /\ arrived' = arrived
      /\ pending' = pending /\ batch' = batch /\ hand' = hand
  OBVIOUS
<1>2. \A m, s, p : At(m, s, p)' <=> At(m, s, p)
  BY <1>1 DEF At, Carries, InGroups, Queued
<1>3. Orderly'
  BY <1>1, <1>2 DEF MessageInv, Orderly, OnePlace, Covered, InOrder
<1>4. MessageTypes' /\ Apart'
  BY <1>1 DEF MessageInv, MessageTypes, Apart, Distinct
<1>5. LoopOK'
  BY <1>1 DEF MessageInv, LoopOK
<1> QED
  BY <1>3, <1>4, <1>5 DEF MessageInv

(* A message arrives: the newest of all, behind all others of its sender.  *)
LEMMA EnqueueKeepsMessages ==
  ASSUME MessageInv, NEW z \in Sender, Enqueue(z)
  PROVE  MessageInv'
<1> DEFINE new == arrived + 1
           entry == [n |-> new, from |-> z]
<1>1. /\ arrived \in 0..MaxMessages /\ arrived < MaxMessages
      /\ new \in Message /\ arrived' = new /\ MaxMessages \in Nat
      /\ entry \in QueuedMessage
  BY BoardAssumption DEF MessageInv, MessageTypes, Enqueue, Message, QueuedMessage
<1>2. /\ asked' = asked /\ created' = created /\ batch' = batch
      /\ hand' = hand /\ fpc' = fpc
      /\ pending' = Append(pending, entry)
      /\ pending \in Seq(QueuedMessage)
  BY DEF Enqueue, boardVars, MessageInv, MessageTypes
<1>3. ASSUME NEW m \in Message, NEW s \in Sender
      PROVE  Queued(pending', m, s) <=> Queued(pending, m, s) \/ (m = new /\ s = z)
  <2> DEFINE N == Len(pending)
  <2>1. /\ N \in Nat /\ DOMAIN pending = 1..N /\ DOMAIN pending' = 1..(N + 1)
        /\ \A i \in 1..N : pending'[i] = pending[i]
        /\ pending'[N + 1] = entry
    BY <1>1, <1>2
  <2>2. \A i \in 1..(N + 1) : i \in 1..N \/ i = N + 1
    BY <2>1
  <2>3. N + 1 \in 1..(N + 1) /\ 1..N \subseteq 1..(N + 1)
    BY <2>1
  <2>4. entry.from = z /\ entry.n = new
    OBVIOUS
  <2> HIDE DEF N, entry, new
  <2> QED
    BY <2>1, <2>2, <2>3, <2>4 DEF Queued
<1>4. ASSUME NEW m \in Message, NEW s \in Sender, NEW p \in Place
      PROVE  At(m, s, p)' <=> At(m, s, p) \/ (m = new /\ s = z /\ p = Waiting)
  BY <1>2, <1>3, Numbers DEF At
<1>5. \A s \in Sender, p \in Place : ~At(new, s, p)
  BY <1>1 DEF MessageInv, Orderly, Covered
<1>6. \A m \in Message, s \in Sender, p \in Place : At(m, s, p) => m < new
  BY <1>1 DEF MessageInv, Orderly, Covered, Message
<1>7. Waiting \in Place /\ \A p \in Place : p <= Waiting /\ p \in Nat /\ Waiting \in Nat
  BY Numbers DEF Place
<1> HIDE DEF new
<1>8. OnePlace'
  BY <1>4, <1>5 DEF OnePlace, MessageInv, Orderly
<1>9. Covered'
  <2> SUFFICES ASSUME NEW m \in Message
               PROVE  m <= arrived' <=> \E s \in Sender, p \in Place : At(m, s, p)'
    BY DEF Covered
  <2>1. m <= arrived' <=> m <= arrived \/ m = new
    BY <1>1 DEF new, Message
  <2>2. m <= arrived <=> \E s \in Sender, p \in Place : At(m, s, p)
    BY DEF MessageInv, Orderly, Covered
  <2> QED
    BY <1>4, <1>7, <2>1, <2>2
<1>10. InOrder'
  <2> SUFFICES ASSUME NEW m \in Message, NEW n \in Message, NEW s \in Sender,
                      NEW p \in Place, NEW q \in Place,
                      At(m, s, p)', At(n, s, q)', p < q
               PROVE  m < n
    BY DEF InOrder
  <2>1. At(m, s, p)
    BY <1>4, <1>7
  <2>2. CASE At(n, s, q)
    BY <2>1, <2>2 DEF MessageInv, Orderly, InOrder
  <2>3. CASE n = new
    BY <1>6, <2>1, <2>3
  <2> QED
    BY <1>4, <2>2, <2>3
<1>11. MessageTypes'
  <2>1. pending' \in Seq(QueuedMessage)
    BY <1>1, <1>2
  <2>2. arrived' \in 0..MaxMessages
    BY <1>1 DEF new
  <2> QED
    BY <1>2, <2>1, <2>2 DEF MessageInv, MessageTypes
<1>12. LoopOK' /\ Apart'
  BY <1>2 DEF MessageInv, LoopOK, Apart, Distinct
<1> QED
  BY <1>8, <1>9, <1>10, <1>11, <1>12 DEF MessageInv, Orderly

(* The groups of a batch move between the queue and the batch: those ready *)
(* are taken out of the queue when the batch starts, and those not ready   *)
(* go back to it.                                                          *)
LEMMA NextGroupKeepsMessages ==
  ASSUME MessageInv, hand = NoGroup,
         NEW queue, NEW groups, NEW cut,
         \/ queue = pending /\ groups = batch
         \/ queue = << >> /\ groups = GroupsOf(pending) /\ batch = << >>,
         NextGroup(queue, groups, cut),
         asked' = asked, arrived' = arrived, created' = created
  PROVE  MessageInv'
<1>1. /\ queue \in Seq(QueuedMessage) /\ groups \in Seq(Group) /\ Distinct(groups)
  BY GroupsJoin DEF MessageInv, MessageTypes, Apart
<1>2. /\ pending' \in Seq(QueuedMessage)
      /\ batch' \in Seq(Group)
      /\ hand' \in Group \cup {NoGroup}
      /\ Apart'
      /\ fpc' \in {"idle", "triaging"}
      /\ fpc' = "idle" => hand' = NoGroup /\ batch' = << >>
  BY <1>1, NextGroupMoves, Zenon
<1>3. PICK back \in SUBSET Sender : \A m \in Message, s \in Sender :
        /\ Queued(pending', m, s)
             <=> Queued(queue, m, s) \/ (s \in back /\ InGroups(groups, m, s))
        /\ (Carries(hand', m, s) \/ InGroups(batch', m, s))
             <=> (s \notin back /\ InGroups(groups, m, s))
  BY <1>1, NextGroupMoves, Zenon
<1>4. \A m \in Message, s \in Sender, p \in Place :
        /\ p \in TaskId => (At(m, s, p)' <=> At(m, s, p))
        /\ p = Busy => (At(m, s, p)' <=> Carries(hand', m, s) \/ InGroups(batch', m, s))
        /\ p = Waiting => (At(m, s, p)' <=> Queued(pending', m, s))
        /\ p = Busy => (At(m, s, p) <=> InGroups(batch, m, s))
        /\ p = Waiting => (At(m, s, p) <=> Queued(pending, m, s))
  BY Numbers, NoGroupIsEmpty DEF At
<1>5. ASSUME queue = pending, groups = batch
      PROVE  Orderly'
  <2> DEFINE move == [s \in Sender |-> [p \in Place |->
                        IF p = Busy /\ s \in back THEN Waiting ELSE p]]
  <2>1. move \in [Sender -> [Place -> Place]]
    BY Numbers
  <2>2. \A s \in Sender : \A p, q \in Place : p <= q => move[s][p] <= move[s][q]
    BY Numbers
  <2>3. ASSUME NEW m \in Message, NEW s \in Sender, NEW q \in Place
        PROVE  At(m, s, q)' <=> \E p \in Place : At(m, s, p) /\ move[s][p] = q
    <3>1. \A p \in Place : move[s][p] = IF p = Busy /\ s \in back THEN Waiting ELSE p
      OBVIOUS
    <3> HIDE DEF move
    <3>2. Busy \in Place /\ Waiting \in Place /\ Busy # Waiting
      BY Numbers
    <3>3. CASE q \in TaskId
      BY <1>4, <3>1, <3>2, <3>3, Numbers
    <3>4. CASE q = Busy
      BY <1>3, <1>4, <1>5, <3>1, <3>2, <3>4
    <3>5. CASE q = Waiting
      BY <1>3, <1>4, <1>5, <3>1, <3>2, <3>5
    <3> QED
      BY <3>3, <3>4, <3>5, Numbers
  <2> HIDE DEF move
  <2> QED
    BY <2>1, <2>2, <2>3, MoveKeeps DEF MessageInv
<1>6. ASSUME queue = << >>, groups = GroupsOf(pending), batch = << >>
      PROVE  Orderly'
  <2> DEFINE move == [s \in Sender |-> [p \in Place |->
                        IF p = Waiting /\ s \notin back THEN Busy ELSE p]]
  <2>1. move \in [Sender -> [Place -> Place]]
    BY Numbers
  <2>2. \A s \in Sender : \A p, q \in Place : p <= q => move[s][p] <= move[s][q]
    BY Numbers
  <2>3. ASSUME NEW m \in Message, NEW s \in Sender, NEW q \in Place
        PROVE  At(m, s, q)' <=> \E p \in Place : At(m, s, p) /\ move[s][p] = q
    <3>1. \A p \in Place : move[s][p] = IF p = Waiting /\ s \notin back THEN Busy ELSE p
      OBVIOUS
    <3> HIDE DEF move
    <3>2. Busy \in Place /\ Waiting \in Place /\ Busy # Waiting
      BY Numbers
    <3>3. InGroups(groups, m, s) <=> Queued(pending, m, s)
      BY <1>6, GroupsJoin DEF MessageInv, MessageTypes
    <3>4. ~Queued(queue, m, s) /\ ~InGroups(batch, m, s)
      BY <1>6 DEF Queued, InGroups
    <3>5. CASE q \in TaskId
      BY <1>4, <3>1, <3>2, <3>5, Numbers
    <3>6. CASE q = Busy
      BY <1>3, <1>4, <3>1, <3>2, <3>3, <3>4, <3>6
    <3>7. CASE q = Waiting
      BY <1>3, <1>4, <3>1, <3>2, <3>3, <3>4, <3>7
    <3> QED
      BY <3>5, <3>6, <3>7, Numbers
  <2> HIDE DEF move
  <2> QED
    BY <2>1, <2>2, <2>3, MoveKeeps DEF MessageInv
<1>7. MessageTypes' /\ LoopOK'
  BY <1>2 DEF MessageInv, MessageTypes, LoopOK
<1> QED
  BY <1>2, <1>5, <1>6, <1>7 DEF MessageInv

(* A batch starts with the loop idle, so nothing is in hand; a reply is    *)
(* awaited with no group in hand.                                          *)
LEMMA BatchKeepsMessages ==
  ASSUME MessageInv, StartBatch \/ Replied
  PROVE  MessageInv'
<1>1. CASE StartBatch
  <2>1. PICK cut \in 1..arrived : NextGroup(<< >>, GroupsOf(pending), cut)
    BY <1>1 DEF StartBatch
  <2>2. hand = NoGroup /\ batch = << >>
    BY <1>1 DEF StartBatch, MessageInv, LoopOK
  <2>3. asked' = asked /\ arrived' = arrived /\ created' = created
    BY <1>1 DEF StartBatch, boardVars
  <2> QED
    BY <2>1, <2>2, <2>3, NextGroupKeepsMessages
<1>2. CASE Replied
  <2>1. NextGroup(pending, batch, cutoff) /\ hand = NoGroup
    BY <1>2 DEF Replied, MessageInv, LoopOK
  <2>2. asked' = asked /\ arrived' = arrived /\ created' = created
    BY <1>2 DEF Replied, boardVars
  <2> QED
    BY <2>1, <2>2, NextGroupKeepsMessages
<1> QED
  BY <1>1, <1>2

(* The group in hand becomes the next task; all tasks before it are from   *)
(* messages handled before.                                                *)
LEMMA TaskKeepsMessages ==
  ASSUME MessageInv, fpc = "triaging", NEW task, Create(1, task, hand),
         hand' = NoGroup, fpc' = "replying",
         UNCHANGED <<arrived, pending, batch>>
  PROVE  MessageInv'
<1> DEFINE t0 == created + 1
<1>1. /\ t0 \in TaskId /\ created' = t0
      /\ arrived' = arrived /\ pending' = pending /\ batch' = batch
      /\ asked' = [t \in TaskId |-> IF t \in t0..t0 THEN hand ELSE asked[t]]
  BY DEF Create
<1>2. \A t \in TaskId : asked'[t] = IF t = t0 THEN hand ELSE asked[t]
  BY <1>1, Numbers
<1>3. \A t \in TaskId : t >= t0 => asked[t] = NoGroup
  BY Numbers DEF MessageInv, LoopOK
<1>4. MessageTypes'
  BY <1>1 DEF MessageInv, MessageTypes
<1>5. LoopOK'
  <2>1. t0 \in Nat /\ \A t \in TaskId : t > t0 => t >= t0 /\ t # t0
    BY <1>1, Numbers
  <2>2. \A t \in TaskId : t > t0 => asked'[t] = NoGroup
    BY <1>2, <1>3, <2>1
  <2> QED
    BY <1>1, <2>1, <2>2 DEF LoopOK
<1>6. Apart'
  <2>1. \A k \in DOMAIN batch : batch[k].from # NoGroup.from
    BY NoGroupIsEmpty DEF MessageInv, MessageTypes
  <2> QED
    BY <1>1, <2>1 DEF MessageInv, Apart, Distinct
<1> HIDE DEF t0
<1>7. ASSUME NEW m \in Message, NEW s \in Sender, NEW p \in Place
      PROVE  /\ p \in TaskId => (At(m, s, p) <=> Carries(asked[p], m, s))
             /\ p \in TaskId => (At(m, s, p)' <=> Carries(asked'[p], m, s))
             /\ p = Busy => (At(m, s, p) <=> Carries(hand, m, s) \/ InGroups(batch, m, s))
             /\ p = Busy => (At(m, s, p)' <=> InGroups(batch, m, s))
             /\ p = Waiting => (At(m, s, p)' <=> At(m, s, p))
  BY <1>1, Numbers, NoGroupIsEmpty DEF At
<1>8. ASSUME NEW m \in Message, NEW s \in Sender
      PROVE  /\ Carries(hand, m, s) => s = hand.from
             /\ InGroups(batch, m, s) => s # hand.from
  BY DEF Carries, InGroups, MessageInv, Apart
<1> DEFINE move == [s \in Sender |-> [p \in Place |->
                      IF s = hand.from /\ p >= t0 /\ p <= Busy THEN t0 ELSE p]]
<1>9. /\ t0 \in Place /\ Busy \in Place /\ Waiting \in Place /\ Busy # Waiting
      /\ t0 < Busy /\ t0 \in Nat /\ Busy \in Nat
  BY <1>1, Numbers
<1>10. move \in [Sender -> [Place -> Place]]
  BY <1>9
<1>11. \A s \in Sender : \A p, q \in Place : p <= q => move[s][p] <= move[s][q]
  BY <1>9, Numbers
<1>12. ASSUME NEW m \in Message, NEW s \in Sender, NEW q \in Place
       PROVE  At(m, s, q)' <=> \E p \in Place : At(m, s, p) /\ move[s][p] = q
  <2>1. \A p \in Place : move[s][p] = IF s = hand.from /\ p >= t0 /\ p <= Busy THEN t0 ELSE p
    OBVIOUS
  <2> HIDE DEF move
  <2>2. \A p \in TaskId : p >= t0 => ~At(m, s, p)
    BY <1>3, <1>7, NoGroupIsEmpty, Numbers
  <2>3. \A p \in Place : p >= t0 /\ p <= Busy /\ p # Busy => p \in TaskId
    BY Numbers
  <2>4. CASE q \in TaskId /\ q # t0
    <3>1. At(m, s, q)' <=> At(m, s, q)
      BY <1>2, <1>7, <2>4, Numbers
    <3>2. At(m, s, q) => move[s][q] = q
      BY <2>1, <2>2, <2>4
    <3>3. \A p \in Place : move[s][p] = q => p = q
      BY <2>1, <2>4
    <3> QED
      BY <3>1, <3>2, <3>3
  <2>5. CASE q = t0
    <3>1. At(m, s, q)' <=> Carries(hand, m, s)
      BY <1>1, <1>2, <1>7, <2>5
    <3>2. Carries(hand, m, s) => At(m, s, Busy) /\ move[s][Busy] = q
      BY <1>7, <1>8, <1>9, <2>1, <2>5
    <3>3. ASSUME NEW p \in Place, At(m, s, p), move[s][p] = q
          PROVE  Carries(hand, m, s)
      <4>1. p # t0
        BY <1>1, <2>2, <3>3, <1>9
      <4>2. s = hand.from /\ p >= t0 /\ p <= Busy
        BY <2>1, <2>5, <3>3, <4>1
      <4>3. p = Busy
        BY <2>2, <2>3, <3>3, <4>2
      <4> QED
        BY <1>7, <1>8, <3>3, <4>2, <4>3
    <3> QED
      BY <1>9, <3>1, <3>2, <3>3
  <2>6. CASE q = Busy
    <3>1. At(m, s, q)' <=> InGroups(batch, m, s)
      BY <1>7, <2>6
    <3>2. InGroups(batch, m, s) => At(m, s, Busy) /\ move[s][Busy] = q
      BY <1>7, <1>8, <1>9, <2>1, <2>6
    <3>3. ASSUME NEW p \in Place, At(m, s, p), move[s][p] = q
          PROVE  InGroups(batch, m, s)
      BY <1>7, <1>8, <1>9, <2>1, <2>6, <3>3
    <3> QED
      BY <1>9, <3>1, <3>2, <3>3
  <2>7. CASE q = Waiting
    <3>1. move[s][q] = q
      BY <1>9, <2>1, <2>7, Numbers
    <3>2. \A p \in Place : move[s][p] = q => p = q
      BY <1>9, <2>1, <2>7, Numbers
    <3> QED
      BY <1>7, <2>7, <3>1, <3>2
  <2> QED
    BY <2>4, <2>5, <2>6, <2>7, Numbers
<1> HIDE DEF move
<1>13. Orderly'
  BY <1>1, <1>10, <1>11, <1>12, MoveKeeps DEF MessageInv
<1> QED
  BY <1>4, <1>5, <1>6, <1>13 DEF MessageInv

(* Both outcomes of a triage make a task of the group in hand.             *)
LEMMA TriageKeepsMessages ==
  ASSUME MessageInv, AnswerDirectly \/ Escalate
  PROVE  MessageInv'
BY TaskKeepsMessages DEF AnswerDirectly, Escalate

(* Tasks nobody asked for have no messages.                                *)
LEMMA OtherTasksKeepMessages ==
  ASSUME MessageInv, NEW n \in Nat, NEW task, Create(n, task, NoGroup),
         UNCHANGED fastVars
  PROVE  MessageInv'
<1>1. /\ created + n \in TaskId /\ created' = created + n
      /\ asked' = [t \in TaskId |-> IF t \in (created + 1)..(created + n)
                                    THEN NoGroup ELSE asked[t]]
  BY DEF Create
<1>2. \A t \in TaskId : t \in (created + 1)..(created + n) => asked[t] = NoGroup
  BY Numbers DEF MessageInv, LoopOK
<1>3. asked' = asked
  BY <1>1, <1>2 DEF MessageInv, MessageTypes
<1>4. /\ arrived' = arrived /\ pending' = pending /\ batch' = batch
      /\ hand' = hand /\ fpc' = fpc
  BY DEF fastVars
<1>5. \A m, s, p : At(m, s, p)' <=> At(m, s, p)
  BY <1>3, <1>4 DEF At, Carries, InGroups, Queued
<1>6. Orderly'
  BY <1>4, <1>5 DEF MessageInv, Orderly, OnePlace, Covered, InOrder
<1>7. MessageTypes' /\ Apart'
  BY <1>3, <1>4 DEF MessageInv, MessageTypes, Apart, Distinct
<1>8. LoopOK'
  <2>1. created + n \in Nat /\ \A t \in TaskId : t > created + n => t > created
    BY Numbers DEF MessageInv, LoopOK
  <2> QED
    BY <1>1, <1>3, <1>4, <2>1 DEF MessageInv, LoopOK
<1> QED
  BY <1>6, <1>7, <1>8 DEF MessageInv

(* At the start there are no messages.                                     *)
LEMMA InitMessages ==
  ASSUME BoardInit, FastInit
  PROVE  MessageInv
<1>1. \A m \in Message, s \in Sender, p \in Place : ~At(m, s, p)
  BY NoGroupIsEmpty DEF BoardInit, FastInit, At, InGroups, Queued
<1>2. Orderly
  BY <1>1, Numbers DEF Orderly, OnePlace, Covered, InOrder, FastInit, Message
<1>3. MessageTypes
  BY BoardAssumption DEF MessageTypes, BoardInit, FastInit
<1> QED
  BY <1>2, <1>3 DEF MessageInv, LoopOK, Apart, Distinct, BoardInit, FastInit

-----------------------------------------------------------------------------
(* What MessageInv says of the messages *)

(* A message that arrived is at one place; the batch and the group in hand *)
(* do not hold it both, because their people are different ones.           *)
LEMMA MessagesInOnePlace == MessageInv => NoMessageLost
<1> SUFFICES ASSUME MessageInv, NEW m \in 1..arrived
             PROVE  Places(m) = 1
  BY DEF NoMessageLost
<1>1. m \in Message /\ m <= arrived
  BY BoardAssumption DEF MessageInv, MessageTypes, Message
<1>2. PICK s \in Sender, p \in Place : At(m, s, p)
  BY <1>1 DEF MessageInv, Orderly, Covered
<1>3. \A z \in Sender, q \in Place : At(m, z, q) => z = s /\ q = p
  BY <1>1, <1>2 DEF MessageInv, Orderly, OnePlace
<1>4. \A t \in TaskId : t \in InTask(m) <=> \E z \in Sender : At(m, z, t)
  <2> SUFFICES ASSUME NEW t \in TaskId
               PROVE  m \in Range(asked[t].msgs) <=> \E z \in Sender : At(m, z, t)
    BY DEF InTask
  <2>1. \A z : At(m, z, t) <=> Carries(asked[t], m, z)
    BY Numbers DEF At
  <2>2. m \in Range(asked[t].msgs) => asked[t].from \in Sender
    BY NoGroupIsEmpty DEF MessageInv, MessageTypes, Group
  <2> QED
    BY <2>1, <2>2 DEF Carries
<1>5. InQueue(m) <=> \E z \in Sender : At(m, z, Waiting)
  <2>1. \A i \in DOMAIN pending : pending[i].from \in Sender
    <3>1. \A i \in DOMAIN pending : pending[i] \in QueuedMessage
      BY DEF MessageInv, MessageTypes
    <3> QED
      BY <3>1 DEF QueuedMessage
  <2>2. \A z : At(m, z, Waiting) <=> Queued(pending, m, z)
    BY Numbers DEF At
  <2> QED
    BY <2>1, <2>2 DEF InQueue, Queued
<1>6. InBatch(m) <=> \E z \in Sender : InGroups(batch, m, z)
  <2>1. \A k \in DOMAIN batch : batch[k].from \in Sender
    <3>1. \A k \in DOMAIN batch : batch[k] \in Group
      BY DEF MessageInv, MessageTypes
    <3> QED
      BY <3>1 DEF Group
  <2> QED
    BY <2>1 DEF InBatch, InGroups, Carries
<1>7. InHand(m) <=> \E z \in Sender : Carries(hand, m, z)
  <2>1. m \in Range(hand.msgs) => hand.from \in Sender
    BY NoGroupIsEmpty DEF MessageInv, MessageTypes, Group
  <2> QED
    BY <2>1 DEF InHand, Carries
<1>8. \A z : At(m, z, Busy) <=> Carries(hand, m, z) \/ InGroups(batch, m, z)
  BY Numbers DEF At
<1>9. Busy \in Place /\ Waiting \in Place /\ Busy # Waiting
  BY Numbers
<1>10. ~(Carries(hand, m, s) /\ InGroups(batch, m, s))
  BY DEF MessageInv, Apart, Carries, InGroups
<1>11. \A S : S = {} => Cardinality(S) = 0
  BY FS_EmptySet
<1>12. ASSUME NEW t
       PROVE  Cardinality({t}) = 1
  BY FS_Singleton
<1>13. CASE p \in TaskId
  <2>1. InTask(m) = {p}
    BY <1>2, <1>3, <1>4, <1>13, Numbers DEF InTask
  <2>2. ~InQueue(m) /\ ~InBatch(m) /\ ~InHand(m)
    BY <1>3, <1>5, <1>6, <1>7, <1>8, <1>9, <1>13, Numbers
  <2>3. Cardinality(InTask(m)) = 1
    BY <1>12, <2>1
  <2> QED
    BY <2>2, <2>3 DEF Places
<1>14. CASE p \notin TaskId
  <2>1. InTask(m) = {}
    BY <1>3, <1>4, <1>14, Numbers DEF InTask
  <2>2. Cardinality(InTask(m)) = 0
    BY <1>11, <2>1
  <2>3. CASE p = Waiting
    <3>1. InQueue(m) /\ ~InBatch(m) /\ ~InHand(m)
      BY <1>2, <1>3, <1>5, <1>6, <1>7, <1>8, <1>9, <2>3
    <3> QED
      BY <2>2, <3>1 DEF Places
  <2>4. CASE p = Busy
    <3>1. ~InQueue(m) /\ (InBatch(m) <=> ~InHand(m))
      BY <1>2, <1>3, <1>5, <1>6, <1>7, <1>8, <1>9, <1>10, <2>4
    <3> QED
      BY <2>2, <3>1 DEF Places
  <2> QED
    BY <1>14, <2>3, <2>4, Numbers
<1> QED
  BY <1>13, <1>14

(* The places of one person's messages are in the order of the messages.   *)
LEMMA MessagesInOrder == MessageInv => NotOvertaken
<1> SUFFICES ASSUME MessageInv, NEW t \in TaskId, NEW u \in TaskId, t < u,
                    asked[t].from = asked[u].from,
                    NEW m \in Range(asked[t].msgs), NEW n \in Range(asked[u].msgs)
             PROVE  m < n
  BY DEF NotOvertaken
<1>1. asked[t] \in Group /\ asked[u] \in Group
  BY NoGroupIsEmpty DEF MessageInv, MessageTypes
<1>2. m \in Message /\ n \in Message
  BY <1>1 DEF Group, Range
<1>3. /\ At(m, asked[t].from, t) /\ At(n, asked[t].from, u)
      /\ asked[t].from \in Sender /\ t \in Place /\ u \in Place
  BY <1>1, Numbers DEF At, Carries, Group
<1> QED
  BY <1>2, <1>3 DEF MessageInv, Orderly, InOrder

(* IntakeSpec keeps MessageInv.                                            *)
LEMMA IntakeMessages == IntakeSpec => []MessageInv
<1>1. IntakeInit => MessageInv
  BY InitMessages DEF IntakeInit
<1>2. MessageInv /\ [IntakeNext]_intakeVars => MessageInv'
  <2> SUFFICES ASSUME MessageInv, [IntakeNext]_intakeVars
               PROVE  MessageInv'
    OBVIOUS
  <2>1. CASE \E s \in Sender : Enqueue(s)
    BY <2>1, EnqueueKeepsMessages
  <2>2. CASE StartBatch \/ Replied
    BY <2>2, BatchKeepsMessages
  <2>3. CASE AnswerDirectly \/ Escalate
    BY <2>3, TriageKeepsMessages
  <2>4. CASE UNCHANGED intakeVars
    BY <2>4, QuietKeepsMessages DEF intakeVars, boardVars, fastVars
  <2> QED
    BY <2>1, <2>2, <2>3, <2>4 DEF IntakeNext, IntakeTurn
<1> QED
  BY <1>1, <1>2, PTL DEF IntakeSpec

(* For any people and any number of messages, every message that arrived   *)
(* is in exactly one place, whatever arrives while a batch is handled      *)
(* across its awaits (fast-loop.ts, 221-249).                              *)
THEOREM EveryMessageKept == IntakeSpec => []NoMessageLost
BY IntakeMessages, MessagesInOnePlace, PTL

(* What a person wrote is never overtaken by something they wrote later,   *)
(* although groups are put back behind newer messages (fast-loop.ts,       *)
(* 226-241).                                                               *)
THEOREM NobodyOvertaken == IntakeSpec => []NotOvertaken
BY IntakeMessages, MessagesInOrder, PTL

=============================================================================
