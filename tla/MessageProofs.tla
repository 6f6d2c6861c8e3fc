---------------------------- MODULE MessageProofs ---------------------------
(***************************************************************************)
(* Messages that are lost, repeated or overtaken.  For any number of       *)
(* messages, keys, dispatchers and clerks: a notice is posted once, what   *)
(* is marked sent is what was posted, and a message goes where it was      *)
(* queued for.  For any number of messages of a teacher, tasks, students   *)
(* and requests of the web: an OK settles what was last shown, a confirmed *)
(* list is the register, and what was submitted changes by amendment.      *)
(***************************************************************************)
EXTENDS Outbox, TeacherChat, FiniteSetTheorems, SequenceTheorems, WellFoundedInduction, TLAPS

-----------------------------------------------------------------------------
(* The invariant.                                                          *)

\* A dispatcher that has claimed a message.
Working(d) == dispatcher[d].pc # "free"

\* The message in hand is still queued, and posted once if its dispatcher says so: whoever
\* would write it waits for the lock.
InHand(d) == Working(d) =>
    LET m == dispatcher[d].id
    IN /\ m \in Ids /\ row[m].state = "queued"
       /\ ~row[m].mishap => row[m].posts = (IF dispatcher[d].pc = "posted" THEN 1 ELSE 0)

\* A message is in the hands of one dispatcher.
OneHolder == \A d, e \in Dispatchers :
    Working(d) /\ Working(e) /\ dispatcher[d].id = dispatcher[e].id => d = e

\* The partial unique index.
OneRowPerKey == \A m, n \in Present :
    row[m].key = row[n].key /\ row[m].key \in Notices \cup Alerts => m = n

\* The chat id that is stored, or read, is that of the link it is used for.
ChatFits == group.raced \/ /\ group.chat \in {0, group.link}
                           /\ \A d \in Dispatchers : Working(d) =>
                                 dispatcher[d].chat \in {0, row[dispatcher[d].id].link}

IInv == /\ TypeOK /\ OneHolder /\ OneRowPerKey /\ HistoryIsTrue
        /\ \A d \in Dispatchers : InHand(d)

Routed == ChatFits /\ PostedWhereQueued

LEMMA Constants ==
  /\ Limit \in Nat \ {0} /\ MaxRows \in Nat /\ MaxLinks \in Nat \ {0} /\ MaxCrashes \in Nat
  /\ MaxRequests \in Nat
  /\ Notices \cap Alerts = {} /\ Free \notin Notices \cup Alerts
  /\ Ids \subseteq Nat /\ 0 \notin Ids /\ 1 \in Links /\ Links \subseteq 0..MaxLinks
  BY OutboxConstants DEF OutboxConstants, Ids, Links

LEMMA LockedIsInHand == ASSUME TypeOK, NEW m
                        PROVE Locked(m) <=> \E d \in Dispatchers : Working(d) /\ dispatcher[d].id = m
  BY DEF Locked, Working, TypeOK, Dispatcher

LEMMA RestingType == /\ Resting \in Dispatcher /\ Resting.pc = "free" /\ Resting.todo = <<>>
                     /\ Resting.id = 0
  BY Constants DEF Resting, Dispatcher

LEMMA WrittenType ==
  ASSUME TypeOK, NEW k \in Keys
  PROVE  /\ Written(k) \in Message /\ Written(k).state = "queued" /\ Written(k).key = k
         /\ Written(k).posts = 0 /\ ~Written(k).mishap /\ ~Written(k).astray
  <1>1. NoMessage \in Message
    BY Constants DEF NoMessage, Message, Keys
  <1>2. PICK link \in 0..MaxLinks : link = IF k \in Alerts THEN 0 ELSE group.link
    <2>1. group.link \in Links
      BY DEF TypeOK, Group
    <2>2. MaxLinks \in Nat /\ Links = 1..MaxLinks
      BY Constants DEF Links
    <2>3. group.link \in 0..MaxLinks /\ 0 \in 0..MaxLinks
      BY <2>1, <2>2
    <2> QED BY <2>3
  <1>3. Written(k) = [NoMessage EXCEPT !.state = "queued", !.key = k, !.link = link]
    BY <1>2 DEF Written
  <1> QED BY <1>1, <1>2, <1>3 DEF NoMessage, Message

\* The oldest messages of a set, in order: there is one for each place.
LEMMA OldestType ==
  ASSUME NEW S \in SUBSET Ids
  PROVE  Oldest(S) \in Seq(Ids)
  <1> DEFINE before(m) == {n \in S : n < m}
             older(m) == Cardinality(before(m))
             first == {m \in S : older(m) < Limit}
             size == Cardinality(first)
             f == [m \in first |-> older(m)]
  <1>n. \A m \in S : m \in Nat
    BY Constants
  <1>0. Oldest(S) = [i \in 1..size |-> CHOOSE m \in first : older(m) = i - 1]
    BY DEF Oldest
  <1>1. IsFiniteSet(S)
    <2>1. 1 \in Int /\ MaxRows \in Int
      BY Constants
    <2>2. IsFiniteSet(1..MaxRows)
      BY <2>1, FS_Interval
    <2> QED BY <2>2, FS_Subset DEF Ids
  <1>2. /\ first \subseteq S /\ IsFiniteSet(first) /\ size \in Nat
        /\ \A m : IsFiniteSet(before(m)) /\ older(m) \in Nat /\ before(m) \subseteq S
    <2>1. \A T \in SUBSET S : IsFiniteSet(T) /\ Cardinality(T) \in Nat
      BY <1>1, FS_Subset, FS_CardinalityType
    <2>2. first \in SUBSET S /\ \A m : before(m) \in SUBSET S
      OBVIOUS
    <2> QED BY <2>1, <2>2
  <1>b. \A m, n : n \in before(m) <=> n \in S /\ n < m
    OBVIOUS
  <1>f. \A m : m \in first <=> m \in S /\ older(m) < Limit
    OBVIOUS
  <1> HIDE DEF before
\* One that is younger has more of them before it.
  <1>3. ASSUME NEW m \in S, NEW n \in S, n < m
        PROVE  older(n) < older(m)
    <2>1. before(n) \subseteq before(m) \ {n}
      BY <1>3, <1>n, <1>b
    <2>2. n \in before(m)
      BY <1>3, <1>b
    <2>3. /\ IsFiniteSet(before(m) \ {n})
          /\ Cardinality(before(m) \ {n}) = older(m) - 1
      BY <1>2, <2>2, FS_RemoveElement
    <2>4. Cardinality(before(n)) <= Cardinality(before(m) \ {n})
      BY <2>1, <2>3, FS_Subset
    <2> QED BY <1>2, <2>3, <2>4
  <1>4. ASSUME NEW m \in first PROVE older(m) \in 0..(size - 1)
    <2>1. before(m) \subseteq first \ {m}
      <3>1. ASSUME NEW x \in before(m) PROVE x \in first \ {m}
        <4>1. x \in S /\ x < m /\ m \in S
          BY <3>1, <1>b, <1>f
        <4>2. older(x) < older(m) /\ older(m) < Limit
          BY <4>1, <1>3, <1>f
        <4>3. older(x) \in Nat /\ older(m) \in Nat /\ Limit \in Nat
          BY <1>2, Constants
        <4>4. x \in first
          BY <4>1, <4>2, <4>3, <1>f
        <4>5. x # m
          BY <4>1, <1>n
        <4> QED BY <4>4, <4>5
      <3> QED BY <3>1
    <2> HIDE DEF first
    <2>2. IsFiniteSet(first \ {m}) /\ Cardinality(first \ {m}) = size - 1
      BY <1>2, FS_RemoveElement
    <2>3. Cardinality(before(m)) <= Cardinality(first \ {m})
      BY <2>1, <2>2, FS_Subset
    <2> QED BY <1>2, <2>2, <2>3
  <1> HIDE DEF older
  <1>5. f \in Injection(first, 0..(size - 1))
    <2>1. f \in [first -> 0..(size - 1)]
      BY <1>4
    <2>2. \A m, n \in first : f[m] = f[n] => m = n
      <3>1. ASSUME NEW m \in first, NEW n \in first, f[m] = f[n], m # n PROVE FALSE
        <4>1. older(m) = older(n) /\ older(m) \in Nat /\ m \in S /\ n \in S
          BY <1>2, <1>f, <3>1
        <4>2. m < n \/ n < m
          BY <3>1, <4>1, <1>n
        <4>3. ~(older(m) < older(n)) /\ ~(older(n) < older(m))
          BY <4>1
        <4> QED BY <1>3, <4>1, <4>2, <4>3
      <3> QED BY <3>1
    <2> QED BY <2>1, <2>2 DEF Injection, IsInjective
  <1>6. \A j \in 0..(size - 1) : \E m \in first : older(m) = j
    <2>1. IsFiniteSet(0..(size - 1)) /\ Cardinality(0..(size - 1)) = size
      <3>1. 0 \in Int /\ size - 1 \in Int
        BY <1>2
      <3>2. /\ IsFiniteSet(0..(size - 1))
            /\ Cardinality(0..(size - 1)) = IF 0 > size - 1 THEN 0 ELSE size - 1 - 0 + 1
        BY <3>1, FS_Interval
      <3> QED BY <1>2, <3>2
    <2>2. f \in Surjection(first, 0..(size - 1))
      <3> HIDE DEF f, first
      <3>1. Cardinality(first) = Cardinality(0..(size - 1))
        BY <2>1
      <3> QED BY <1>5, <1>2, <2>1, <3>1, FS_Injection
    <2>3. \A j \in 0..(size - 1) : \E m \in first : f[m] = j
      BY <2>2 DEF Surjection
    <2> QED BY <2>3
  <1> HIDE DEF f, first, size
  <1>7. ASSUME NEW i \in 1..size PROVE (CHOOSE m \in first : older(m) = i - 1) \in Ids
    <2>1. i - 1 \in 0..(size - 1)
      BY <1>2
    <2>2. PICK m \in first : older(m) = i - 1
      BY <1>6, <2>1
    <2>3. (CHOOSE x \in first : older(x) = i - 1) \in first
      BY <2>2
    <2> QED BY <2>3, <1>2
  <1> DEFINE place(i) == CHOOSE m \in first : older(m) = i - 1
  <1>8. \A i \in 1..size : place(i) \in Ids
    BY <1>7
  <1>9. Oldest(S) = [i \in 1..size |-> place(i)]
    BY <1>0
  <1> HIDE DEF place
  <1> QED BY <1>9, <1>8, <1>2

-----------------------------------------------------------------------------
(* The office and the queue: what the dispatchers hold stays as it is.     *)

\* The messages in hand are the same, and so are their rows.
HandsStay == \A d \in Dispatchers : /\ dispatcher'[d].pc = dispatcher[d].pc
                                    /\ dispatcher'[d].id = dispatcher[d].id
                                    /\ dispatcher'[d].chat = dispatcher[d].chat

\* A row is rewritten only when no dispatcher holds it, and then agrees with its history.
RowsFit == \A m \in Ids :
    \/ row'[m] = row[m]
    \/ /\ ~Locked(m)
       /\ row'[m].astray => row[m].astray
       /\ ~row'[m].mishap => row'[m].posts = (IF row'[m].state = "sent" THEN 1 ELSE 0)

LEMMA HandsStayLocked ==
  ASSUME HandsStay
  PROVE  /\ \A d \in Dispatchers : Working(d)' <=> Working(d)
         /\ \A m : Locked(m)' <=> Locked(m)
  BY DEF HandsStay, Working, Locked

LEMMA FramePreserves ==
  ASSUME IInv, HandsStay, RowsFit
  PROVE  /\ OneHolder' /\ HistoryIsTrue' /\ \A d \in Dispatchers : InHand(d)'
         /\ (PostedWhereQueued /\ (group.raced => group'.raced) => PostedWhereQueued')
  <1>1. OneHolder'
    BY HandsStayLocked DEF IInv, OneHolder, HandsStay
  <1>2. HistoryIsTrue'
    <2> SUFFICES ASSUME NEW m \in Ids, ~row'[m].mishap, ~Locked(m)'
                 PROVE  row'[m].posts = (IF row'[m].state = "sent" THEN 1 ELSE 0)
      BY DEF HistoryIsTrue
    <2>1. ~Locked(m)
      BY HandsStayLocked
    <2>2. CASE row'[m] = row[m]
      BY <2>1, <2>2 DEF IInv, HistoryIsTrue
    <2>3. CASE row'[m] # row[m]
      BY <2>3 DEF RowsFit
    <2> QED BY <2>2, <2>3
  <1>3. ASSUME NEW d \in Dispatchers PROVE InHand(d)'
    <2> SUFFICES ASSUME Working(d)'
                 PROVE  /\ dispatcher'[d].id \in Ids /\ row'[dispatcher'[d].id].state = "queued"
                        /\ ~row'[dispatcher'[d].id].mishap =>
                              row'[dispatcher'[d].id].posts
                                  = (IF dispatcher'[d].pc = "posted" THEN 1 ELSE 0)
      BY DEF InHand
    <2>1. Working(d) /\ InHand(d)
      BY HandsStayLocked DEF IInv
    <2>2. dispatcher[d].id \in Ids /\ Locked(dispatcher[d].id)
      BY <2>1, LockedIsInHand DEF InHand, IInv
    <2>3. row'[dispatcher[d].id] = row[dispatcher[d].id]
      BY <2>2 DEF RowsFit
    <2> QED BY <2>1, <2>3 DEF HandsStay, InHand
  <1>4. ASSUME PostedWhereQueued, group.raced => group'.raced PROVE PostedWhereQueued'
    BY <1>4 DEF PostedWhereQueued, RowsFit
  <1> QED BY <1>1, <1>2, <1>3, <1>4

\* The chat ids read stay those of their messages while the rows in hand do not change.
LEMMA FrameChats ==
  ASSUME IInv, HandsStay, RowsFit, ChatFits, NEW d \in Dispatchers, Working(d)', ~group.raced
  PROVE  dispatcher'[d].chat \in {0, row'[dispatcher'[d].id].link}
  <1>1. Working(d) /\ InHand(d)
    BY HandsStayLocked DEF IInv
  <1>2. dispatcher[d].id \in Ids /\ Locked(dispatcher[d].id)
    BY <1>1, LockedIsInHand DEF InHand, IInv
  <1>3. row'[dispatcher[d].id] = row[dispatcher[d].id]
    BY <1>2 DEF RowsFit
  <1> QED BY <1>1, <1>3 DEF HandsStay, ChatFits

\* Without a new message, no key is taken twice.
LEMMA KeysStay ==
  ASSUME OneRowPerKey,
         \A m \in Ids : row'[m].key = row[m].key
                        /\ (row'[m].state \notin {"none", "gone"} => row[m].state \notin {"none", "gone"})
  PROVE  OneRowPerKey'
  BY DEF OneRowPerKey, Present

\* A message that the office cancels, or queues again.
LEMMA Rewritten ==
  ASSUME TypeOK, NEW m \in Ids, NEW s \in {"queued", "gone"}
  PROVE  LET made == [row[m] EXCEPT !.state = s, !.mishap = @ \/ row[m].state = "sent"]
         IN /\ made \in Message /\ made.state = s /\ made.key = row[m].key
            /\ made.posts = row[m].posts /\ made.astray = row[m].astray
            /\ made.link = row[m].link
            /\ made.mishap <=> (row[m].mishap \/ row[m].state = "sent")
  <1> DEFINE made == [row[m] EXCEPT !.state = s, !.mishap = @ \/ row[m].state = "sent"]
  <1>1. row[m] \in Message
    BY DEF TypeOK
  <1>2. PICK marked \in BOOLEAN : marked = (row[m].mishap \/ row[m].state = "sent")
    OBVIOUS
  <1>3. made = [row[m] EXCEPT !.state = s, !.mishap = marked]
    BY <1>2
  <1>4. /\ made \in Message /\ made.state = s /\ made.key = row[m].key
        /\ made.posts = row[m].posts /\ made.astray = row[m].astray /\ made.link = row[m].link
    BY <1>1, <1>3 DEF Message
  <1>5. made.mishap = marked
    BY <1>1, <1>3 DEF Message
  <1> HIDE DEF made
  <1>6. made.mishap <=> (row[m].mishap \/ row[m].state = "sent")
    BY <1>2, <1>5
  <1> QED BY <1>4, <1>6 DEF made

\* A new message takes a free place, and its key is free where it must be.
LEMMA AddKeeps ==
  ASSUME IInv, HandsStay, NEW k \in Keys, NEW m \in Ids, Unused(m),
         k \in Notices \cup Alerts => \A n \in Present : row[n].key # k,
         row' = [row EXCEPT ![m] = Written(k)]
  PROVE  row' \in [Ids -> Message] /\ RowsFit /\ OneRowPerKey'
  <1>1. /\ Written(k) \in Message /\ Written(k).state = "queued" /\ Written(k).key = k
        /\ Written(k).posts = 0 /\ ~Written(k).astray
    BY WrittenType DEF IInv
  <1>2. row \in [Ids -> Message]
    BY DEF IInv, TypeOK
  <1>3. row[m].state = "none" /\ ~Locked(m)
    <2>1. row[m].state = "none"
      BY Constants DEF Unused
    <2>2. \A d \in Dispatchers : Working(d) => row[dispatcher[d].id].state = "queued"
      BY DEF IInv, InHand
    <2>3. ~Locked(m)
      BY <2>1, <2>2, LockedIsInHand DEF IInv
    <2> QED BY <2>1, <2>3
  <1>4. row' \in [Ids -> Message] /\ \A n \in Ids : row'[n] = IF n = m THEN Written(k) ELSE row[n]
    BY <1>1, <1>2
  <1>5. RowsFit
    BY <1>1, <1>3, <1>4 DEF RowsFit
  <1>6. OneRowPerKey'
    <2> SUFFICES ASSUME NEW a \in Ids, NEW b \in Ids,
                        row'[a].state \notin {"none", "gone"}, row'[b].state \notin {"none", "gone"},
                        row'[a].key = row'[b].key, row'[a].key \in Notices \cup Alerts
                 PROVE  a = b
      BY DEF OneRowPerKey, Present
    <2>1. CASE a # m /\ b # m
      BY <2>1, <1>4 DEF OneRowPerKey, Present, IInv
    <2>2. CASE a = m /\ b # m
      BY <2>2, <1>1, <1>4 DEF Present
    <2>3. CASE a # m /\ b = m
      BY <2>3, <1>1, <1>4 DEF Present
    <2> QED BY <2>1, <2>2, <2>3
  <1> QED BY <1>4, <1>5, <1>6

\* A row that was not there, or is out of the way, leaves what is in hand alone.
LEMMA FrameKeeps ==
  ASSUME IInv, HandsStay, RowsFit, OneRowPerKey', TypeOK'
  PROVE  IInv'
  BY FramePreserves DEF IInv

\* The routes stay while the group does.
LEMMA RoutesStay ==
  ASSUME IInv, Routed, HandsStay, RowsFit, UNCHANGED group
  PROVE  Routed'
  <1>1. PostedWhereQueued'
    BY FramePreserves DEF Routed
  <1>2. ChatFits'
    BY FrameChats DEF Routed, ChatFits
  <1> QED BY <1>1, <1>2 DEF Routed

LEMMA QueueKeeps ==
  ASSUME IInv,
         \/ QueueCustom
         \/ \E k \in Notices \cup Alerts : QueueOnce(k)
         \/ \E d \in Dispatchers : QueueDiary(d)
  PROVE  IInv' /\ (Routed => Routed')
  <1> USE DEF HandsStay
  <1>f. Free \in Keys /\ Free \notin Notices \cup Alerts /\ Notices \cup Alerts \subseteq Keys
    BY Constants DEF Keys
  <1>t. TypeOK
    BY DEF IInv
  <1>1. CASE QueueCustom
    <2>1. PICK m \in Ids : Unused(m) /\ row' = [row EXCEPT ![m] = Written(Free)]
      BY <1>1 DEF QueueCustom
    <2>2. UNCHANGED <<group, dispatcher, clerk, requests, crashes>> /\ HandsStay
      BY <1>1 DEF QueueCustom
    <2>3. row' \in [Ids -> Message] /\ RowsFit /\ OneRowPerKey'
      BY <2>1, <2>2, <1>f, AddKeeps
    <2>4. TypeOK'
      BY <2>2, <2>3, <1>t DEF TypeOK
    <2> QED BY <2>2, <2>3, <2>4, FrameKeeps, RoutesStay
  <1>2. ASSUME NEW k \in Notices \cup Alerts, QueueOnce(k) PROVE IInv' /\ (Routed => Routed')
    <2>1. PICK m \in Ids : Unused(m) /\ row' = [row EXCEPT ![m] = Written(k)]
      BY <1>2 DEF QueueOnce
    <2>2. /\ UNCHANGED <<group, dispatcher, clerk, requests, crashes>> /\ HandsStay
          /\ \A n \in Present : row[n].key # k
      BY <1>2 DEF QueueOnce
    <2>3. row' \in [Ids -> Message] /\ RowsFit /\ OneRowPerKey'
      BY <2>1, <2>2, <1>f, AddKeeps
    <2>4. TypeOK'
      BY <2>2, <2>3, <1>t DEF TypeOK
    <2> QED BY <2>2, <2>3, <2>4, FrameKeeps, RoutesStay
  <1>3. ASSUME NEW d \in Dispatchers, QueueDiary(d) PROVE IInv' /\ (Routed => Routed')
    <2>1. PICK m \in Ids : /\ Unused(m) /\ row' = [row EXCEPT ![m] = Written(Free)]
                           /\ dispatcher' = [dispatcher EXCEPT ![d].todo = <<m>>]
      BY <1>3 DEF QueueDiary
    <2>2. UNCHANGED <<group, clerk, requests, crashes>>
      BY <1>3 DEF QueueDiary
    <2>3. dispatcher' \in [Dispatchers -> Dispatcher] /\ HandsStay
      <3>1. <<m>> \in Seq(Ids)
        OBVIOUS
      <3> QED BY <3>1, <2>1, <1>t DEF TypeOK, Dispatcher
    <2>4. row' \in [Ids -> Message] /\ RowsFit /\ OneRowPerKey'
      BY <2>1, <2>3, <1>f, AddKeeps
    <2>5. TypeOK'
      BY <2>2, <2>3, <2>4, <1>t DEF TypeOK
    <2> QED BY <2>2, <2>3, <2>4, <2>5, FrameKeeps, RoutesStay
  <1> QED BY <1>1, <1>2, <1>3

LEMMA ListsKeeps ==
  ASSUME IInv, NEW d \in Dispatchers, Lists(d)
  PROVE  IInv' /\ (Routed => Routed')
  <1>t. TypeOK
    BY DEF IInv
  <1>1. /\ UNCHANGED <<row, group, clerk, requests, crashes>>
        /\ dispatcher' = [dispatcher EXCEPT ![d].todo = Oldest(Queued)]
    BY DEF Lists
  <1>2. Oldest(Queued) \in Seq(Ids)
    BY OldestType DEF Queued
  <1>3. dispatcher' \in [Dispatchers -> Dispatcher] /\ HandsStay
    BY <1>1, <1>2, <1>t DEF TypeOK, Dispatcher, HandsStay
  <1>4. RowsFit /\ OneRowPerKey' /\ TypeOK'
    <2>1. OneRowPerKey'
      BY <1>1, KeysStay DEF IInv
    <2> QED BY <2>1, <1>1, <1>3, <1>t DEF RowsFit, TypeOK
  <1> QED BY <1>1, <1>3, <1>4, FrameKeeps, RoutesStay

-----------------------------------------------------------------------------
(* The office.                                                             *)

LEMMA WaitingType == Waiting \in Clerk /\ Nothing \in Seen
  BY Constants DEF Waiting, Clerk, Seen, Nothing

LEMMA StoredType == ASSUME TypeOK PROVE AsStored \in Seen /\ group.link \in 1..MaxLinks
  <1>1. group.link \in 1..MaxLinks /\ group.chat \in 0..MaxLinks /\ MaxLinks \in Nat
    BY Constants DEF TypeOK, Group, Links
  <1>2. group.link \in 0..MaxLinks
    BY <1>1
  <1> QED BY <1>1, <1>2 DEF AsStored, Seen

LEMMA BeginsKeeps ==
  ASSUME IInv, NEW c \in Clerks, NEW request \in Clerk, Begins(c, request)
  PROVE  IInv' /\ (Routed => Routed')
  <1>t. TypeOK
    BY DEF IInv
  <1>1. /\ UNCHANGED <<row, group, dispatcher, crashes>>
        /\ clerk' = [clerk EXCEPT ![c] = request]
        /\ requests < MaxRequests /\ requests' = requests + 1
    BY DEF Begins
  <1>2. TypeOK'
    <2>1. clerk' \in [Clerks -> Clerk]
      BY <1>1, <1>t DEF TypeOK
    <2>2. requests' \in 0..MaxRequests
      BY <1>1, <1>t, Constants DEF TypeOK
    <2> QED BY <2>1, <2>2, <1>1, <1>t DEF TypeOK
  <1>3. HandsStay /\ RowsFit /\ OneRowPerKey'
    <2>1. OneRowPerKey'
      BY <1>1, KeysStay DEF IInv
    <2> QED BY <2>1, <1>1 DEF RowsFit, HandsStay
  <1> QED BY <1>1, <1>2, <1>3, FrameKeeps, RoutesStay

LEMMA ReadsKeeps ==
  ASSUME IInv, NEW c \in Clerks, NEW pc \in {"cancel", "retry", "unlink"},
         NEW ids \in SUBSET Ids, Reads(c, pc, ids)
  PROVE  IInv' /\ (Routed => Routed')
  <1>1. [Waiting EXCEPT !.pc = pc, !.ids = ids] \in Clerk
    BY WaitingType DEF Waiting, Clerk
  <1> QED BY <1>1, BeginsKeeps DEF Reads

LEMMA ReadsGroupKeeps ==
  ASSUME IInv, NEW c \in Clerks, NEW pc, NEW link, ReadsGroup(c, pc, link),
         (pc = "look" /\ link = 0) \/ (pc = "relink" /\ link \in Links)
  PROVE  IInv' /\ (Routed => Routed')
  <1>1. PICK seen \in Seen : seen = AsStored
    BY StoredType DEF IInv
  <1>2. [Waiting EXCEPT !.pc = pc, !.link = link, !.seen = seen] \in Clerk
    BY DEF Waiting, Clerk
  <1>3. Begins(c, [Waiting EXCEPT !.pc = pc, !.link = link, !.seen = seen])
    BY <1>1 DEF ReadsGroup
  <1> QED BY <1>2, <1>3, BeginsKeeps

LEMMA OfficeReadsKeeps ==
  ASSUME IInv, NEW c \in Clerks,
         \/ UnlinkReads(c) \/ LookReads(c) \/ RelinkReads(c)
         \/ \E m \in Ids : CancelReads(c, m) \/ RetryReads(c, m)
  PROVE  IInv' /\ (Routed => Routed')
  <1>1. CASE UnlinkReads(c)
    <2>1. PICK ids \in SUBSET Ids : ids = ToGroup
      BY DEF ToGroup, Queued
    <2>2. Reads(c, "unlink", ids)
      BY <1>1, <2>1 DEF UnlinkReads
    <2> QED BY <2>2, ReadsKeeps
  <1>2. CASE LookReads(c)
    BY <1>2, ReadsGroupKeeps DEF LookReads
  <1>3. CASE RelinkReads(c)
    BY <1>3, ReadsGroupKeeps DEF RelinkReads
  <1>4. ASSUME NEW m \in Ids, CancelReads(c, m) PROVE IInv' /\ (Routed => Routed')
    BY <1>4, ReadsKeeps DEF CancelReads
  <1>5. ASSUME NEW m \in Ids, RetryReads(c, m) PROVE IInv' /\ (Routed => Routed')
    BY <1>5, ReadsKeeps DEF RetryReads
  <1> QED BY <1>1, <1>2, <1>3, <1>4, <1>5

\* What a write leaves to the other parts of the state.
LEMMA WritesFrame ==
  ASSUME IInv, NEW c \in Clerks, NEW pc, Writes(c, pc)
  PROVE  /\ clerk' \in [Clerks -> Clerk] /\ UNCHANGED <<dispatcher, requests, crashes>> /\ HandsStay
         /\ clerk[c].ids \in SUBSET Ids /\ \A m \in clerk[c].ids : ~Locked(m)
  <1>1. Waiting \in Clerk
    BY WaitingType
  <1>2. clerk[c] \in Clerk
    BY DEF IInv, TypeOK
  <1> QED BY <1>1, <1>2 DEF Writes, IInv, TypeOK, HandsStay, Clerk

\* A message that no dispatcher holds is cancelled or queued again.
LEMMA RewriteKeeps ==
  ASSUME IInv, HandsStay, NEW S \in SUBSET Ids, NEW s \in {"queued", "gone"},
         \A m \in S : ~Locked(m),
         row' = [m \in Ids |-> IF m \in S \cap Present
                               THEN [row[m] EXCEPT !.state = s,
                                                   !.mishap = @ \/ row[m].state = "sent"]
                               ELSE row[m]]
  PROVE  row' \in [Ids -> Message] /\ RowsFit /\ OneRowPerKey'
  <1> DEFINE made(m) == [row[m] EXCEPT !.state = s, !.mishap = @ \/ row[m].state = "sent"]
  <1>t. TypeOK
    BY DEF IInv
  <1>1. \A m \in Ids : /\ made(m) \in Message /\ made(m).state = s /\ made(m).key = row[m].key
                       /\ made(m).posts = row[m].posts /\ made(m).astray = row[m].astray
                       /\ made(m).mishap <=> (row[m].mishap \/ row[m].state = "sent")
    BY <1>t, Rewritten
  <1>2. \A m \in Ids : row'[m] = IF m \in S \cap Present THEN made(m) ELSE row[m]
    OBVIOUS
  <1>3. row' = [m \in Ids |-> IF m \in S \cap Present THEN made(m) ELSE row[m]]
    OBVIOUS
  <1> HIDE DEF made
  <1>4. row' \in [Ids -> Message]
    BY <1>1, <1>3, <1>t DEF TypeOK
  <1>5. ASSUME NEW m \in Ids
        PROVE  \/ row'[m] = row[m]
               \/ /\ ~Locked(m)
                  /\ row'[m].astray => row[m].astray
                  /\ ~row'[m].mishap => row'[m].posts = (IF row'[m].state = "sent" THEN 1 ELSE 0)
    <2>1. CASE m \notin S \cap Present
      BY <2>1, <1>2
    <2>2. CASE m \in S \cap Present
      <3>1. ~Locked(m) /\ row'[m] = made(m)
        BY <2>2, <1>2
      <3>2. row'[m].astray => row[m].astray
        BY <3>1, <1>1
      <3>3. ASSUME ~row'[m].mishap
            PROVE  row'[m].posts = (IF row'[m].state = "sent" THEN 1 ELSE 0)
        <4>1. ~row[m].mishap /\ row[m].state # "sent"
          BY <3>1, <3>3, <1>1
        <4>2. row[m].posts = 0
          BY <4>1, <3>1 DEF IInv, HistoryIsTrue
        <4>3. row'[m].posts = row[m].posts /\ row'[m].state = s
          BY <3>1, <1>1
        <4> QED BY <4>2, <4>3
      <3> QED BY <3>1, <3>2, <3>3
    <2> QED BY <2>1, <2>2
  <1>6. RowsFit
    BY <1>5 DEF RowsFit
  <1>7. OneRowPerKey'
    <2>1. ASSUME NEW m \in Ids PROVE row'[m].key = row[m].key
      <3>1. row'[m] \in {made(m), row[m]} /\ made(m).key = row[m].key
        BY <1>1, <1>2
      <3> QED BY <3>1
    <2>2. \A m \in Ids : row'[m].state \notin {"none", "gone"} => row[m].state \notin {"none", "gone"}
      BY <1>2 DEF Present
    <2> QED BY <2>1, <2>2, KeysStay DEF IInv
  <1> QED BY <1>4, <1>6, <1>7

LEMMA OfficeWritesKeeps ==
  ASSUME IInv, NEW c \in Clerks,
         CancelWrites(c) \/ RetryWrites(c) \/ UnlinkWrites(c)
  PROVE  IInv' /\ (Routed => Routed')
  <1>t. TypeOK
    BY DEF IInv
  <1>1. PICK s \in {"queued", "gone"} :
          row' = [m \in Ids |-> IF m \in clerk[c].ids \cap Present
                                THEN [row[m] EXCEPT !.state = s,
                                                    !.mishap = @ \/ row[m].state = "sent"]
                                ELSE row[m]]
    BY DEF CancelWrites, RetryWrites, UnlinkWrites, Deleted
  <1>2. PICK pc : Writes(c, pc)
    BY DEF CancelWrites, RetryWrites, UnlinkWrites
  <1>3. /\ clerk' \in [Clerks -> Clerk] /\ UNCHANGED <<dispatcher, requests, crashes>> /\ HandsStay
        /\ clerk[c].ids \in SUBSET Ids /\ \A m \in clerk[c].ids : ~Locked(m)
    BY <1>2, WritesFrame
  <1>4. group' = group \/ group' = [group EXCEPT !.there = FALSE]
    BY DEF CancelWrites, RetryWrites, UnlinkWrites
  <1>5. row' \in [Ids -> Message] /\ RowsFit /\ OneRowPerKey'
    <2>1. PICK S \in SUBSET Ids : S = clerk[c].ids
      BY <1>3
    <2> QED BY <2>1, <1>1, <1>3, RewriteKeeps
  <1>6. /\ group' \in Group /\ group'.chat = group.chat /\ group'.link = group.link
        /\ group'.raced = group.raced
    BY <1>4, <1>t DEF TypeOK, Group
  <1>7. IInv'
    BY <1>3, <1>5, <1>6, <1>t, FrameKeeps DEF TypeOK
  <1>8. ASSUME Routed PROVE Routed'
    <2>1. PostedWhereQueued'
      BY <1>8, <1>3, <1>5, <1>6, FramePreserves DEF Routed
    <2>2. ChatFits'
      BY <1>8, <1>3, <1>5, <1>6, FrameChats DEF Routed, ChatFits
    <2> QED BY <2>1, <2>2 DEF Routed
  <1> QED BY <1>7, <1>8

LEMMA GroupKeeps ==
  ASSUME IInv, NEW c \in Clerks, LookWrites(c) \/ RelinkWrites(c)
  PROVE  IInv' /\ (Routed => Routed')
  <1>t. TypeOK
    BY DEF IInv
  <1>1. /\ UNCHANGED <<row, dispatcher, requests, crashes>> /\ HandsStay /\ RowsFit /\ OneRowPerKey'
        /\ clerk' \in [Clerks -> Clerk]
    <2>1. UNCHANGED <<row, dispatcher, requests, crashes>> /\ clerk' \in [Clerks -> Clerk]
      BY WritesFrame DEF RelinkWrites, LookWrites
    <2>2. OneRowPerKey'
      BY <2>1, KeysStay DEF IInv
    <2> QED BY <2>1, <2>2 DEF RowsFit, HandsStay
  <1>2. /\ group' \in Group
        /\ group.raced => group'.raced
        /\ ChatFits => group'.raced \/ group'.chat \in {0, group'.link}
    <2>t. group \in Group /\ clerk[c] \in Clerk /\ clerk[c].seen \in Seen
      BY <1>t DEF TypeOK, Clerk
    <2>1. CASE ~group.there
      <3>1. group' = group
        BY <2>1 DEF LookWrites, RelinkWrites
      <3> QED BY <3>1, <2>t DEF ChatFits
    <2>2. CASE group.there /\ LookWrites(c)
      <3>1. PICK from \in 0..MaxLinks : from = clerk[c].seen.link
        BY <2>t DEF Seen
      <3>2. PICK marked \in BOOLEAN : marked = (group.raced \/ from # group.link)
        OBVIOUS
      <3>3. group' = [group EXCEPT !.chat = from, !.raced = marked]
        BY <2>2, <3>1, <3>2 DEF LookWrites
      <3>4. /\ group' \in Group /\ group'.chat = from /\ group'.link = group.link
            /\ group'.raced = marked
        BY <2>t, <3>3 DEF Group
      <3> QED BY <3>2, <3>4
    <2>3. CASE group.there /\ RelinkWrites(c)
      <3>1. PICK to \in Links : to = Flushed(c).link
        <4>1. clerk[c].pc = "relink"
          BY <2>3 DEF RelinkWrites, Writes
        <4>2. clerk[c].link \in Links /\ group.link \in Links
          BY <4>1, <2>t DEF Clerk, Group
        <4> QED BY <4>2 DEF Flushed
      <3>2. PICK kept \in 0..MaxLinks : kept = Flushed(c).chat
        <4>1. 0 \in 0..MaxLinks /\ group.chat \in 0..MaxLinks
          BY <2>t, Constants DEF Group
        <4> QED BY <4>1 DEF Flushed
      <3>3. PICK chat \in (IF kept = 0 THEN {0, to} ELSE {kept}) :
              group' = [group EXCEPT !.link = to, !.chat = chat,
                                     !.raced = @ \/ clerk[c].seen # AsStored]
        BY <2>3, <3>1, <3>2 DEF RelinkWrites
      <3>4. chat \in 0..MaxLinks
        BY <3>1, <3>2, Constants
      <3>5. PICK marked \in BOOLEAN : marked = (group.raced \/ clerk[c].seen # AsStored)
        OBVIOUS
      <3>6. group' = [group EXCEPT !.link = to, !.chat = chat, !.raced = marked]
        BY <3>3, <3>5
      <3>7. /\ group' \in Group /\ group'.chat = chat /\ group'.link = to
            /\ group'.raced = marked
        BY <2>t, <3>4, <3>6 DEF Group
      <3>8. group.raced => group'.raced
        BY <3>5, <3>7
\* What was read is still so: a new link leaves no chat id, another keeps what fitted.
      <3>9. ASSUME ChatFits PROVE group'.raced \/ group'.chat \in {0, group'.link}
        <4>1. CASE marked
          BY <4>1, <3>7
        <4>2. CASE ~marked
          <5>0. ~group.raced /\ clerk[c].seen = AsStored
            BY <4>2, <3>5
          <5>1. ~group.raced /\ clerk[c].seen.link = group.link /\ clerk[c].seen.chat = group.chat
            BY <5>0 DEF AsStored
          <5>2. group.chat \in {0, group.link}
            BY <5>1, <3>9 DEF ChatFits
          <5>3. kept \in {0, to}
            BY <5>1, <5>2, <3>1, <3>2 DEF Flushed
          <5> QED BY <5>3, <3>3, <3>7
        <4> QED BY <4>1, <4>2
      <3> QED BY <3>7, <3>8, <3>9
    <2> QED BY <2>1, <2>2, <2>3 DEF ChatFits
  <1>3. IInv'
    BY <1>1, <1>2, <1>t, FrameKeeps DEF TypeOK
  <1>4. ASSUME Routed PROVE Routed'
    <2>1. PostedWhereQueued'
      BY <1>4, <1>1, <1>2, FramePreserves DEF Routed
    <2>2. ChatFits'
      BY <1>4, <1>1, <1>2, FrameChats DEF Routed, ChatFits
    <2> QED BY <2>1, <2>2 DEF Routed
  <1> QED BY <1>3, <1>4

-----------------------------------------------------------------------------
(* The dispatchers.                                                        *)

\* One dispatcher goes on with the message in its hands, or lets it go: the others keep
\* theirs, for no two hold the same.
LEMMA MoveKeeps ==
  ASSUME IInv, NEW d \in Dispatchers,
         \A e \in Dispatchers \ {d} : dispatcher'[e] = dispatcher[e],
         Working(d)' => Working(d) /\ dispatcher'[d].id = dispatcher[d].id /\ InHand(d)',
         \A n \in Ids : row'[n] = row[n] \/ (Working(d) /\ n = dispatcher[d].id),
         \A n \in Ids : row'[n].key = row[n].key,
         \A n \in Ids : row'[n].state \notin {"none", "gone"}
                        => row[n].state \notin {"none", "gone"},
         Working(d) /\ ~Working(d)' /\ ~row'[dispatcher[d].id].mishap
            => row'[dispatcher[d].id].posts
                  = (IF row'[dispatcher[d].id].state = "sent" THEN 1 ELSE 0)
  PROVE  OneHolder' /\ OneRowPerKey' /\ HistoryIsTrue' /\ \A e \in Dispatchers : InHand(e)'
  <1>t. TypeOK
    BY DEF IInv
  <1>1. \A e \in Dispatchers : Working(e)' => Working(e) /\ dispatcher'[e].id = dispatcher[e].id
    BY DEF Working
  <1>2. OneHolder'
    BY <1>1 DEF IInv, OneHolder
  <1>3. OneRowPerKey'
    BY KeysStay DEF IInv
  <1>4. ASSUME NEW e \in Dispatchers, e # d, Working(e)' PROVE InHand(e)'
    <2>1. Working(e) /\ InHand(e) /\ dispatcher'[e] = dispatcher[e]
      BY <1>1, <1>4 DEF IInv
    <2>2. dispatcher[e].id \in Ids /\ row'[dispatcher[e].id] = row[dispatcher[e].id]
      BY <2>1, <1>4 DEF IInv, OneHolder, InHand
    <2> QED BY <2>1, <2>2 DEF InHand
  <1>5. \A e \in Dispatchers : InHand(e)'
    BY <1>4 DEF InHand
  <1>6. HistoryIsTrue'
    <2> SUFFICES ASSUME NEW m \in Ids, ~row'[m].mishap, ~Locked(m)'
                 PROVE  row'[m].posts = (IF row'[m].state = "sent" THEN 1 ELSE 0)
      BY DEF HistoryIsTrue
    <2>1. \A e \in Dispatchers \ {d} : ~(Working(e) /\ dispatcher[e].id = m)
      <3> SUFFICES ASSUME NEW e \in Dispatchers \ {d}, Working(e), dispatcher[e].id = m
                   PROVE  FALSE
        OBVIOUS
      <3>1. dispatcher'[e] = dispatcher[e] /\ dispatcher[e] \in Dispatcher
        BY <1>t DEF TypeOK
      <3>2. Locked(m)'
        BY <3>1 DEF Locked, Working, Dispatcher
      <3> QED BY <3>2
    <2>2. CASE Working(d) /\ dispatcher[d].id = m
      <3>1. CASE Working(d)'
        <4>1. dispatcher'[d].id = m /\ dispatcher'[d].pc # "free"
          BY <2>2, <3>1 DEF Working
        <4>2. InHand(d)'
          BY <3>1
        <4>3. dispatcher'[d].pc \notin {"claimed", "posted", "refused"}
          BY <4>1 DEF Locked
        <4>4. row'[m].state = "queued" /\ row'[m].posts = 0
          BY <4>1, <4>2, <4>3, <3>1 DEF InHand
        <4> QED BY <4>4
      <3>2. CASE ~Working(d)'
        BY <2>2, <3>2
      <3> QED BY <3>1, <3>2
    <2>3. CASE ~(Working(d) /\ dispatcher[d].id = m)
      <3>1. ~Locked(m)
        BY <2>1, <2>3, <1>t, LockedIsInHand
      <3>2. row'[m] = row[m]
        BY <2>3
      <3> QED BY <3>1, <3>2 DEF IInv, HistoryIsTrue
    <2> QED BY <2>2, <2>3
  <1> QED BY <1>2, <1>3, <1>5, <1>6

\* The routes hold while the messages in hand and their links are the same.
LEMMA MoveRoutes ==
  ASSUME IInv, Routed, NEW d \in Dispatchers, UNCHANGED group,
         \A e \in Dispatchers \ {d} : dispatcher'[e] = dispatcher[e],
         Working(d)' => /\ Working(d) /\ dispatcher'[d].id = dispatcher[d].id
                        /\ dispatcher'[d].chat = dispatcher[d].chat,
         \A n \in Ids : row'[n].link = row[n].link,
         \A n \in Ids : row'[n].astray => row[n].astray \/ group.raced
  PROVE  Routed'
  <1>1. PostedWhereQueued'
    BY DEF Routed, PostedWhereQueued
  <1>2. ASSUME ~group.raced, NEW e \in Dispatchers, Working(e)'
        PROVE  dispatcher'[e].chat \in {0, row'[dispatcher'[e].id].link}
    <2>1. Working(e) /\ dispatcher'[e].id = dispatcher[e].id /\ dispatcher'[e].chat = dispatcher[e].chat
      BY <1>2 DEF Working
    <2>2. dispatcher[e].id \in Ids
      BY <2>1 DEF IInv, InHand
    <2> QED BY <1>2, <2>1, <2>2 DEF Routed, ChatFits
  <1>3. ChatFits'
    BY <1>2 DEF Routed, ChatFits
  <1> QED BY <1>1, <1>3 DEF Routed

LEMMA ClaimKeeps ==
  ASSUME IInv, NEW d \in Dispatchers, Claim(d)
  PROVE  IInv' /\ (Routed => Routed')
  <1>t. TypeOK
    BY DEF IInv
  <1>0. /\ UNCHANGED <<row, group, clerk, requests, crashes>>
        /\ dispatcher[d].pc = "free" /\ dispatcher[d].todo # <<>>
    BY DEF Claim
  <1>1. PICK m : m = Head(dispatcher[d].todo)
    OBVIOUS
  <1>2. PICK rest : rest = Tail(dispatcher[d].todo)
    OBVIOUS
  <1>3. m \in Ids /\ rest \in Seq(Ids)
    <2>1. dispatcher[d].todo \in Seq(Ids)
      BY <1>t DEF TypeOK, Dispatcher
    <2>2. PICK s \in Seq(Ids) : s = dispatcher[d].todo
      BY <2>1
    <2>3. s # <<>> => Head(s) \in Ids /\ Tail(s) \in Seq(Ids)
      BY HeadTailProperties
    <2> QED BY <2>2, <2>3, <1>0, <1>1, <1>2
  <1>4. CASE Claimable(m)
    <2>1. PICK chat : chat = ChatOf(m)
      OBVIOUS
    <2>2. dispatcher' = [dispatcher EXCEPT ![d] =
                           [pc |-> "claimed", todo |-> rest, id |-> m, chat |-> chat]]
      BY <1>1, <1>2, <1>4, <2>1 DEF Claim
    <2>3. chat \in 0..MaxLinks
      BY <2>1, <1>t, Constants DEF ChatOf, TypeOK, Group
    <2>4. TypeOK'
      <3>1. m \in 0..MaxRows
        BY <1>3, Constants DEF Ids
      <3> QED BY <1>0, <1>3, <1>t, <2>2, <2>3, <3>1 DEF TypeOK, Dispatcher
    <2>5. row[m].state = "queued" /\ ~Locked(m)
      BY <1>4 DEF Claimable
    <2>6. /\ dispatcher'[d].pc = "claimed" /\ dispatcher'[d].id = m /\ dispatcher'[d].chat = chat
          /\ \A e \in Dispatchers \ {d} : dispatcher'[e] = dispatcher[e]
      BY <2>2, <1>t DEF TypeOK
    <2>7. \A e \in Dispatchers \ {d} : Working(e) => dispatcher[e].id # m
      BY <2>5, <1>t, LockedIsInHand
    <2>8. OneHolder'
      <3>1. \A e \in Dispatchers \ {d} : Working(e)' <=> Working(e)
        BY <2>6 DEF Working
      <3> QED BY <3>1, <2>6, <2>7 DEF IInv, OneHolder
    <2>9. \A e \in Dispatchers : InHand(e)'
      <3>1. ASSUME NEW e \in Dispatchers, e # d PROVE InHand(e)'
        <4>1. InHand(e) /\ dispatcher'[e] = dispatcher[e]
          BY <3>1, <2>6 DEF IInv
        <4> QED BY <4>1, <1>0 DEF InHand, Working
      <3>2. InHand(d)'
        BY <1>0, <1>3, <2>5, <2>6 DEF IInv, HistoryIsTrue, InHand
      <3> QED BY <3>1, <3>2
    <2>10. HistoryIsTrue'
      <3>1. \A n : Locked(n) => Locked(n)'
        BY <1>0, <2>6 DEF Locked
      <3> QED BY <1>0, <3>1 DEF IInv, HistoryIsTrue
    <2>11. IInv'
      <3>1. OneRowPerKey'
        BY <1>0, KeysStay DEF IInv
      <3> QED BY <2>4, <2>8, <2>9, <2>10, <3>1 DEF IInv
    <2>12. ASSUME Routed PROVE Routed'
      <3>1. PostedWhereQueued'
        BY <1>0, <2>12 DEF Routed, PostedWhereQueued
      <3>2. CASE group.raced
        BY <1>0, <3>1, <3>2 DEF Routed, ChatFits
      <3>3. CASE ~group.raced
        <4>1. chat \in {0, row[m].link}
          BY <2>1, <2>12, <3>3 DEF ChatOf, Routed, ChatFits
        <4>2. ASSUME NEW e \in Dispatchers, Working(e)'
              PROVE  dispatcher'[e].chat \in {0, row'[dispatcher'[e].id].link}
          <5>1. CASE e = d
            BY <5>1, <4>1, <2>6, <1>0
          <5>2. CASE e # d
            BY <5>2, <4>2, <2>6, <1>0, <2>12, <3>3 DEF Working, Routed, ChatFits
          <5> QED BY <5>1, <5>2
        <4>3. group'.chat \in {0, group'.link}
          BY <1>0, <2>12, <3>3 DEF Routed, ChatFits
        <4> QED BY <3>1, <4>2, <4>3 DEF Routed, ChatFits
      <3> QED BY <3>2, <3>3
    <2> QED BY <2>11, <2>12
  <1>5. CASE ~Claimable(m)
    <2>1. dispatcher' = [dispatcher EXCEPT ![d] = [dispatcher[d] EXCEPT !.todo = rest]]
      BY <1>1, <1>2, <1>5 DEF Claim
    <2>2. dispatcher' \in [Dispatchers -> Dispatcher] /\ HandsStay
      BY <2>1, <1>3, <1>t DEF TypeOK, Dispatcher, HandsStay
    <2>3. TypeOK'
      BY <2>2, <1>0, <1>t DEF TypeOK
    <2>4. RowsFit /\ OneRowPerKey'
      BY <1>0, KeysStay DEF IInv, RowsFit
    <2> QED BY <1>0, <2>2, <2>3, <2>4, FrameKeeps, RoutesStay
  <1> QED BY <1>4, <1>5

\* The row of a message that was posted, and whether the answer came.
LEMMA PostedRow ==
  ASSUME TypeOK, NEW d \in Dispatchers, dispatcher[d].id \in Ids, NEW lost \in BOOLEAN
  PROVE  LET m == dispatcher[d].id
             made == IF lost THEN [PostedBy(d) EXCEPT !.mishap = TRUE] ELSE PostedBy(d)
         IN /\ made \in Message /\ made.state = row[m].state /\ made.key = row[m].key
            /\ made.link = row[m].link /\ made.posts = row[m].posts + 1
            /\ made.astray => row[m].astray \/ dispatcher[d].chat \notin {0, row[m].link}
            /\ made.mishap <=> (row[m].mishap \/ lost)
  <1> DEFINE m == dispatcher[d].id
             made == IF lost THEN [PostedBy(d) EXCEPT !.mishap = TRUE] ELSE PostedBy(d)
  <1>1. row[m] \in Message
    BY DEF TypeOK
  <1>2. PICK far \in BOOLEAN :
           far = (row[m].astray \/ dispatcher[d].chat \notin {0, row[m].link})
    OBVIOUS
  <1>3. PICK mis \in BOOLEAN : mis = IF lost THEN TRUE ELSE row[m].mishap
    BY <1>1 DEF Message
  <1>4. PostedBy(d) = [row[m] EXCEPT !.posts = @ + 1, !.astray = far]
    BY <1>2 DEF PostedBy
  <1>p. PICK posts \in Nat : posts = row[m].posts + 1
    BY <1>1 DEF Message
  <1>5. made = [row[m] EXCEPT !.posts = posts, !.astray = far, !.mishap = mis]
    BY <1>1, <1>3, <1>4, <1>p DEF Message
  <1> HIDE DEF made, m
  <1>6. /\ made \in Message /\ made.state = row[m].state /\ made.key = row[m].key
        /\ made.link = row[m].link /\ made.posts = row[m].posts + 1
    BY <1>1, <1>5, <1>p DEF Message
  <1>7. made.astray = far /\ made.mishap = mis
    BY <1>1, <1>5 DEF Message
  <1>8. made.astray => row[m].astray \/ dispatcher[d].chat \notin {0, row[m].link}
    BY <1>2, <1>7
  <1>9. mis <=> (row[m].mishap \/ lost)
    BY <1>1, <1>3 DEF Message
  <1>10. made.mishap <=> (row[m].mishap \/ lost)
    BY <1>7, <1>9
  <1> QED BY <1>6, <1>8, <1>10 DEF made, m

\* The dispatcher posts, and learns of it or not.
LEMMA PostKeeps ==
  ASSUME IInv, NEW d \in Dispatchers, Posts(d) \/ AnswerLost(d)
  PROVE  IInv' /\ (Routed => Routed')
  <1> DEFINE m == dispatcher[d].id
  <1>t. TypeOK
    BY DEF IInv
  <1>0. /\ dispatcher[d].pc = "claimed" /\ Working(d) /\ InHand(d)
        /\ UNCHANGED <<group, clerk, requests>> /\ crashes' \in 0..MaxCrashes
    BY <1>t, Constants DEF IInv, Posts, AnswerLost, Working, TypeOK
  <1>1. m \in Ids /\ row[m].state = "queued" /\ (~row[m].mishap => row[m].posts = 0)
    BY <1>0 DEF InHand
  <1>2. PICK lost \in BOOLEAN : (lost => AnswerLost(d)) /\ (~lost => Posts(d))
    OBVIOUS
  <1> DEFINE made == IF lost THEN [PostedBy(d) EXCEPT !.mishap = TRUE] ELSE PostedBy(d)
  <1>3. row' = [row EXCEPT ![m] = made]
    BY <1>2 DEF Posts, AnswerLost
  <1>4. /\ made \in Message /\ made.state = row[m].state /\ made.key = row[m].key
        /\ made.link = row[m].link /\ made.posts = row[m].posts + 1
        /\ made.astray => row[m].astray \/ dispatcher[d].chat \notin {0, row[m].link}
        /\ made.mishap <=> (row[m].mishap \/ lost)
    BY <1>1, <1>t, PostedRow
  <1>5. PICK pc \in {"posted", "refused"} :
          dispatcher' = [dispatcher EXCEPT ![d].pc = pc] /\ (pc = "posted" \/ lost)
    BY <1>2 DEF Posts, AnswerLost
  <1> HIDE DEF made
  <1>6. /\ \A n \in Ids : row'[n] = IF n = m THEN made ELSE row[n]
        /\ row' \in [Ids -> Message]
    BY <1>1, <1>3, <1>4, <1>t DEF TypeOK
  <1>7. /\ dispatcher' \in [Dispatchers -> Dispatcher]
        /\ dispatcher'[d].pc = pc /\ dispatcher'[d].id = m
        /\ dispatcher'[d].chat = dispatcher[d].chat
        /\ \A e \in Dispatchers \ {d} : dispatcher'[e] = dispatcher[e]
    BY <1>5, <1>t DEF TypeOK, Dispatcher
  <1>8. Working(d)' /\ InHand(d)'
    BY <1>1, <1>4, <1>5, <1>6, <1>7 DEF Working, InHand
  <1>9. TypeOK'
    BY <1>0, <1>6, <1>7, <1>t DEF TypeOK
  <1>10. IInv'
    BY <1>0, <1>4, <1>6, <1>7, <1>8, <1>9, MoveKeeps DEF IInv
  <1>11. ASSUME Routed PROVE Routed'
    <2>1. dispatcher[d].chat \notin {0, row[m].link} => group.raced
      BY <1>0, <1>11 DEF Routed, ChatFits
    <2>2. \A n \in Ids : row'[n].astray => row[n].astray \/ group.raced
      BY <2>1, <1>4, <1>6
    <2>3. \A n \in Ids : row'[n].link = row[n].link
      BY <1>4, <1>6
    <2> QED BY <2>2, <2>3, <1>0, <1>7, <1>11, MoveRoutes
  <1> QED BY <1>10, <1>11

LEMMA RefusedKeeps ==
  ASSUME IInv, NEW d \in Dispatchers, Refused(d)
  PROVE  IInv' /\ (Routed => Routed')
  <1>t. TypeOK
    BY DEF IInv
  <1>0. /\ dispatcher[d].pc = "claimed" /\ Working(d) /\ InHand(d)
        /\ UNCHANGED <<row, group, clerk, requests, crashes>>
        /\ dispatcher' = [dispatcher EXCEPT ![d].pc = "refused"]
    BY DEF IInv, Refused, Working
  <1>1. /\ dispatcher' \in [Dispatchers -> Dispatcher]
        /\ dispatcher'[d].pc = "refused" /\ dispatcher'[d].id = dispatcher[d].id
        /\ dispatcher'[d].chat = dispatcher[d].chat
        /\ \A e \in Dispatchers \ {d} : dispatcher'[e] = dispatcher[e]
    BY <1>0, <1>t DEF TypeOK, Dispatcher
  <1>2. Working(d)' /\ InHand(d)'
    BY <1>0, <1>1 DEF Working, InHand
  <1>3. TypeOK'
    BY <1>0, <1>1, <1>t DEF TypeOK
  <1>4. IInv'
    BY <1>0, <1>1, <1>2, <1>3, MoveKeeps DEF IInv
  <1> QED BY <1>0, <1>1, <1>4, MoveRoutes

\* The outcome is committed.
LEMMA RecordsKeeps ==
  ASSUME IInv, NEW d \in Dispatchers, Records(d)
  PROVE  IInv' /\ (Routed => Routed')
  <1> DEFINE m == dispatcher[d].id
  <1>t. TypeOK
    BY DEF IInv
  <1>0. /\ dispatcher[d].pc \in {"posted", "refused"} /\ Working(d) /\ InHand(d)
        /\ UNCHANGED <<group, clerk, requests, crashes>>
        /\ dispatcher' = [dispatcher EXCEPT ![d] = [Resting EXCEPT !.todo = dispatcher[d].todo]]
    BY DEF IInv, Records, Working
  <1>1. m \in Ids /\ row[m] \in Message /\ row[m].state = "queued"
        /\ (~row[m].mishap => row[m].posts = (IF dispatcher[d].pc = "posted" THEN 1 ELSE 0))
    BY <1>0, <1>t DEF InHand, TypeOK
  <1>2. PICK s \in {"sent", "failed"} : s = IF dispatcher[d].pc = "posted" THEN "sent" ELSE "failed"
    OBVIOUS
  <1> DEFINE made == [row[m] EXCEPT !.state = s]
  <1>3. row' = [row EXCEPT ![m] = made]
    BY <1>2 DEF Records
  <1>4. /\ made \in Message /\ made.state = s /\ made.key = row[m].key
        /\ made.link = row[m].link /\ made.posts = row[m].posts
        /\ made.astray = row[m].astray /\ made.mishap = row[m].mishap
    BY <1>1 DEF Message
  <1> HIDE DEF made
  <1>5. /\ \A n \in Ids : row'[n] = IF n = m THEN made ELSE row[n]
        /\ row' \in [Ids -> Message]
    BY <1>1, <1>3, <1>4, <1>t DEF TypeOK
  <1>6. /\ dispatcher' \in [Dispatchers -> Dispatcher]
        /\ dispatcher'[d].pc = "free"
        /\ \A e \in Dispatchers \ {d} : dispatcher'[e] = dispatcher[e]
    <2>1. dispatcher[d].todo \in Seq(Ids)
      BY <1>t DEF TypeOK, Dispatcher
    <2>2. [Resting EXCEPT !.todo = dispatcher[d].todo] \in Dispatcher
      BY <2>1, RestingType DEF Dispatcher
    <2>3. [Resting EXCEPT !.todo = dispatcher[d].todo].pc = "free"
      BY RestingType DEF Resting
    <2> QED BY <1>0, <1>t, <2>2, <2>3 DEF TypeOK
  <1>7. ~Working(d)'
    BY <1>6 DEF Working
  <1>8. TypeOK'
    BY <1>0, <1>5, <1>6, <1>t DEF TypeOK
  <1>9. ~row'[m].mishap => row'[m].posts = (IF row'[m].state = "sent" THEN 1 ELSE 0)
    BY <1>0, <1>1, <1>2, <1>4, <1>5
  <1>10. IInv'
    <2>1. \A n \in Ids : /\ row'[n].key = row[n].key
                         /\ row'[n].state \notin {"none", "gone"} => row[n].state \notin {"none", "gone"}
      BY <1>1, <1>4, <1>5
    <2> QED BY <2>1, <1>0, <1>5, <1>6, <1>7, <1>8, <1>9, MoveKeeps DEF IInv
  <1>11. ASSUME Routed PROVE Routed'
    <2>1. \A n \in Ids : row'[n].link = row[n].link /\ (row'[n].astray => row[n].astray)
      BY <1>4, <1>5
    <2> QED BY <2>1, <1>0, <1>6, <1>7, <1>11, MoveRoutes
  <1> QED BY <1>10, <1>11

\* The process dies.
LEMMA CrashKeeps ==
  ASSUME IInv, NEW d \in Dispatchers, Crash(d)
  PROVE  IInv' /\ (Routed => Routed')
  <1> DEFINE m == dispatcher[d].id
  <1>t. TypeOK
    BY DEF IInv
  <1>0. /\ UNCHANGED <<group, clerk, requests>> /\ crashes' \in 0..MaxCrashes /\ InHand(d)
        /\ dispatcher' = [dispatcher EXCEPT ![d] = Resting]
        /\ row' = IF dispatcher[d].pc = "posted" THEN [row EXCEPT ![m].mishap = TRUE] ELSE row
    BY <1>t, Constants DEF IInv, Crash, TypeOK
  <1>1. /\ dispatcher' \in [Dispatchers -> Dispatcher]
        /\ dispatcher'[d].pc = "free"
        /\ \A e \in Dispatchers \ {d} : dispatcher'[e] = dispatcher[e]
    BY <1>0, <1>t, RestingType DEF TypeOK
  <1>2. ~Working(d)'
    BY <1>1 DEF Working
  <1>3. Working(d) => /\ m \in Ids /\ row[m] \in Message /\ row[m].state = "queued"
                      /\ (~row[m].mishap
                          => row[m].posts = (IF dispatcher[d].pc = "posted" THEN 1 ELSE 0))
    BY <1>0, <1>t DEF InHand, TypeOK
  <1>4. /\ row' \in [Ids -> Message]
        /\ \A n \in Ids : /\ row'[n] = row[n] \/ (Working(d) /\ n = m)
                          /\ row'[n].key = row[n].key /\ row'[n].link = row[n].link
                          /\ row'[n].state = row[n].state /\ row'[n].posts = row[n].posts
                          /\ row'[n].astray = row[n].astray
        /\ Working(d) /\ ~row'[m].mishap => row[m].posts = 0 /\ row'[m].posts = 0
    <2>1. CASE dispatcher[d].pc # "posted"
      BY <2>1, <1>0, <1>3, <1>t DEF TypeOK
    <2>2. CASE dispatcher[d].pc = "posted"
      <3> DEFINE made == [row[m] EXCEPT !.mishap = TRUE]
      <3>1. Working(d) /\ m \in Ids /\ row[m] \in Message
        BY <2>2, <1>3 DEF Working
      <3>2. /\ made \in Message /\ made.state = row[m].state /\ made.key = row[m].key
            /\ made.link = row[m].link /\ made.posts = row[m].posts
            /\ made.astray = row[m].astray /\ made.mishap
        BY <3>1 DEF Message
      <3>3. row' = [row EXCEPT ![m] = made]
        BY <2>2, <1>0
      <3> HIDE DEF made
      <3>4. /\ row' \in [Ids -> Message] /\ row'[m] = made
            /\ \A n \in Ids : n # m => row'[n] = row[n]
        BY <3>1, <3>2, <3>3, <1>t DEF TypeOK
      <3> QED BY <3>1, <3>2, <3>4
    <2> QED BY <2>1, <2>2
  <1>5. TypeOK'
    BY <1>0, <1>1, <1>4, <1>t DEF TypeOK
  <1>6. IInv'
    <2>1. Working(d) => row'[m].state = "queued"
      BY <1>3, <1>4
    <2> QED BY <2>1, <1>1, <1>2, <1>4, <1>5, MoveKeeps DEF IInv
  <1>7. ASSUME Routed PROVE Routed'
    BY <1>0, <1>1, <1>2, <1>4, <1>7, MoveRoutes
  <1> QED BY <1>6, <1>7

-----------------------------------------------------------------------------
(* The invariant holds, and with it what the outbox promises.              *)

LEMMA InitIInv == Init => IInv /\ Routed
  <1> SUFFICES ASSUME Init PROVE IInv /\ Routed
    OBVIOUS
  <1>1. NoMessage \in Message /\ Waiting \in Clerk
    BY Constants, WaitingType DEF NoMessage, Message, Keys
  <1>2. TypeOK
    BY <1>1, RestingType, Constants DEF Init, TypeOK, Group
  <1>3. \A d \in Dispatchers : ~Working(d)
    BY RestingType DEF Init, Working
  <1>4. \A m \in Ids : row[m].state = "none" /\ row[m].posts = 0 /\ ~row[m].astray
    BY DEF Init, NoMessage
  <1>5. IInv
    BY <1>2, <1>3, <1>4 DEF IInv, OneHolder, OneRowPerKey, Present, HistoryIsTrue, InHand
  <1>6. Routed
    BY <1>3, <1>4 DEF Routed, ChatFits, PostedWhereQueued, Init
  <1> QED BY <1>5, <1>6

LEMMA NextIInv == ASSUME IInv, [Next]_vars PROVE IInv' /\ (Routed => Routed')
  <1>1. CASE \/ QueueCustom
             \/ \E k \in Notices \cup Alerts : QueueOnce(k)
             \/ \E d \in Dispatchers : QueueDiary(d)
    BY <1>1, QueueKeeps
  <1>2. CASE \E c \in Clerks : LookWrites(c) \/ RelinkWrites(c)
    BY <1>2, GroupKeeps
  <1>3. ASSUME NEW d \in Dispatchers,
               Lists(d) \/ Work(d) \/ AnswerLost(d) \/ Crash(d)
        PROVE  IInv' /\ (Routed => Routed')
    BY <1>3, ListsKeeps, ClaimKeeps, PostKeeps, RefusedKeeps, RecordsKeeps, CrashKeeps DEF Work
  <1>4. ASSUME NEW c \in Clerks,
               \/ UnlinkReads(c) \/ LookReads(c) \/ RelinkReads(c)
               \/ \E m \in Ids : CancelReads(c, m) \/ RetryReads(c, m)
        PROVE  IInv' /\ (Routed => Routed')
    BY <1>4, OfficeReadsKeeps
  <1>5. ASSUME NEW c \in Clerks, CancelWrites(c) \/ RetryWrites(c) \/ UnlinkWrites(c)
        PROVE  IInv' /\ (Routed => Routed')
    BY <1>5, OfficeWritesKeeps
  <1>6. CASE UNCHANGED vars
    <2>1. HandsStay /\ RowsFit /\ UNCHANGED group /\ OneRowPerKey'
      BY <1>6, KeysStay DEF vars, HandsStay, RowsFit, IInv
    <2>2. TypeOK'
      BY <1>6 DEF vars, IInv, TypeOK
    <2> QED BY <2>1, <2>2, FrameKeeps, RoutesStay
  <1>7. CASE Next
    BY <1>1, <1>2, <1>3, <1>4, <1>5, <1>7 DEF Next
  <1> QED BY <1>6, <1>7

\* What is checked follows: a message that was posted is sent or in hand, so it is present,
\* and there is one present message of its key.
LEMMA OnceFollows == IInv => PostedOnce
  <1> SUFFICES ASSUME IInv, NEW k \in Notices \cup Alerts,
                      \A m \in RowsOf(k) : ~row[m].mishap
               PROVE  \A m, n \in RowsOf(k) :
                         /\ row[m].posts <= 1
                         /\ row[m].posts = 1 /\ row[n].posts = 1 => m = n
    BY DEF PostedOnce
  <1>1. ASSUME NEW m \in RowsOf(k)
        PROVE  row[m].posts <= 1 /\ (row[m].posts = 1 => m \in Present)
    <2>1. m \in Ids /\ ~row[m].mishap
      BY DEF RowsOf
    <2>2. CASE ~Locked(m)
      BY <2>1, <2>2 DEF IInv, HistoryIsTrue, Present
    <2>3. CASE Locked(m)
      <3>1. PICK d \in Dispatchers : Working(d) /\ dispatcher[d].id = m
        BY <2>3, LockedIsInHand DEF IInv
      <3>2. row[m].state = "queued" /\ row[m].posts \in {0, 1}
        BY <2>1, <3>1 DEF IInv, InHand
      <3> QED BY <2>1, <3>2 DEF Present
    <2> QED BY <2>2, <2>3
  <1>2. \A m, n \in RowsOf(k) : row[m].posts = 1 /\ row[n].posts = 1 => m = n
    BY <1>1 DEF IInv, OneRowPerKey, RowsOf
  <1> QED BY <1>1, <1>2

LEMMA SpecIInv == Spec => []IInv
  <1>1. Init => IInv
    BY InitIInv
  <1>2. IInv /\ [Next]_vars => IInv'
    BY NextIInv
  <1> QED BY <1>1, <1>2, PTL DEF Spec

\* Every message, group, dispatcher and clerk is what its record says, whatever they do.
THEOREM TypeCorrect == Spec => []TypeOK
  <1>1. IInv => TypeOK
    BY DEF IInv
  <1> QED BY <1>1, SpecIInv, PTL

\* A month's notice is posted to its group at most once, and an alert to its guardian, for
\* any number of dispatchers, requests and messages: the index keeps one message of a key,
\* and the lock and the second look keep one dispatcher on it.
THEOREM NoticePostedOnce == Spec => []PostedOnce
  BY SpecIInv, OnceFollows, PTL

\* What is marked sent is what was posted, but for the mishaps.
THEOREM OutboxIsTheHistory == Spec => []HistoryIsTrue
  <1>1. IInv => HistoryIsTrue
    BY DEF IInv
  <1> QED BY <1>1, SpecIInv, PTL

\* A message goes to the group it was queued for, also after the link has changed and when
\* requests overlap: a chat id that fits another link is only stored by a request whose
\* reading of the group was overtaken, and that is recorded.
THEOREM MessageKeepsDestination == Spec => []PostedWhereQueued
  <1>1. Init => IInv /\ Routed
    BY InitIInv
  <1>2. IInv /\ Routed /\ [Next]_vars => IInv' /\ Routed'
    BY NextIInv
  <1>3. Routed => PostedWhereQueued
    BY DEF Routed
  <1> QED BY <1>1, <1>2, <1>3, PTL DEF Spec

-----------------------------------------------------------------------------
(* A teacher's conversation: what is true of it.                           *)

OnRegister == {"answer", "submit", "submitting", "revise"}
OnDiary == {"reading", "post", "correct"}

\* A task knows the message it handles and the draft it is about.
Aimed(h) ==
    /\ task[h].pc # "idle" => task[h].mail \in DOMAIN mail
    /\ task[h].pc \in OnRegister \cup OnDiary \cup {"reply"} => task[h].n \in DOMAIN draft
    /\ task[h].pc \in OnRegister => draft[task[h].n].kind = "register"
    /\ task[h].pc \in OnDiary => draft[task[h].n].kind = "diary"
    /\ task[h].pc = "answer" => task[h].text \in Texts

\* A register is submitted from one that was not, and that may still be opened.
Submits(h) ==
    task[h].pc = "submitting" =>
        /\ task[h].read.state # "submitted"
        /\ task[h].read.state = "none" => task[h].read.id < MaxRegisters
        /\ task[h].alone => draft[task[h].n].status = "awaiting"

\* Of two tasks that run, neither is alone.
Solo == \A h, k \in Handlers :
           h # k /\ task[h].pc # "idle" /\ task[k].pc # "idle" => ~task[h].alone

\* A preview on its way is of the text the draft has.
FreshReply(h) ==
    task[h].pc = "reply" /\ ~draft[task[h].n].excused => task[h].text = draft[task[h].n].text

\* What waits for an OK was shown, or is on its way.
Previewed(n) ==
    draft[n].status = "awaiting" /\ ~draft[n].excused =>
        \/ draft[n].shown = draft[n].text
        \/ \E h \in Handlers : task[h].pc = "reply" /\ task[h].n = n

Listed(n) == draft[n].kind = "register" => draft[n].text \in Texts

\* What a request of the web has read allowed what it is about to do.
Permitted(o) ==
    /\ office[o].pc = "mark" /\ office[o].read.state = "submitted" => office[o].amend
    /\ office[o].pc \in {"submit", "discard"} => office[o].read.state = "draft"
    /\ office[o].pc = "reopen" => office[o].amend /\ office[o].read.state = "submitted"

ChatInv == /\ ChatTypeOK
           /\ \A h \in Handlers : Aimed(h) /\ Submits(h) /\ FreshReply(h)
           /\ Solo
           /\ \A n \in DOMAIN draft : Previewed(n) /\ Listed(n)
           /\ SettledAsShown
           /\ \A o \in Office : Permitted(o)
-----------------------------------------------------------------------------
(* What a step of one task may make of the drafts.                         *)

\* The register becomes that list, or somebody was writing it too.
InRegister(text) == /\ register'.state = "submitted"
                    /\ register'.overlap \/ register'.absent = text

\* One draft after the step of task h, which becomes `new`: it is changed by a task that says
\* whether it was alone; whoever leaves it waiting for an OK is about to show it; it is only
\* settled while it waits for one.
Moved(h, new, n) ==
    LET d == draft[n]
        e == draft'[n]
    IN /\ n \in DOMAIN draft => /\ e.kind = d.kind /\ e.shown = d.shown
                                /\ e.excused = (d.excused \/ ~task[h].alone)
       /\ e.kind = "register" => e.text \in Texts
       /\ e.status \in {"needs_class", "awaiting", "done"} => e.text # NoText
       /\ e.status = "awaiting" => new.pc = "reply" /\ new.n = n
       /\ e.status = "done" => /\ n \in DOMAIN draft /\ e.text = d.text
                               /\ task[h].alone => d.status = "awaiting"
                               /\ d.kind = "register" => InRegister(d.text)

\* A register that is confirmed in this step.
Confirms == \A n \in DOMAIN draft :
            draft[n].kind = "register" /\ draft[n].status # "done" /\ draft'[n].status = "done"
            => InRegister(draft[n].text)

Fine == ChatInv' /\ Confirms

Kept(n) == n \in DOMAIN draft /\ draft'[n] = draft[n]

\* The task after the step knows what it is about.
Continues(h, new) ==
    /\ new \in Task
    /\ new.pc # "idle" => new.mail = task[h].mail /\ new.alone = task[h].alone
    /\ new.pc \in OnRegister \cup OnDiary \cup {"reply"} => new.n \in DOMAIN draft'
    /\ new.pc \in OnRegister => draft'[new.n].kind = "register"
    /\ new.pc \in OnDiary => draft'[new.n].kind = "diary"
    /\ new.pc = "answer" => new.text \in Texts
    /\ new.pc = "reply" => draft'[new.n].text = new.text
    /\ new.pc = "submitting" => /\ new.read.state # "submitted"
                                /\ new.read.state = "none" => new.read.id < MaxRegisters
                                /\ new.alone => draft'[new.n].status = "awaiting"

LEMMA OneTask ==
  ASSUME ChatInv, NEW h \in Handlers, NEW new, task[h].pc \notin {"idle", "reply"},
         task' = [task EXCEPT ![h] = new], Continues(h, new),
         UNCHANGED <<office, mail, mishaps>>, RegistersTypeOK', clock' \in Nat,
         draft' \in Seq(Draft), Len(draft) <= Len(draft'), Len(draft') <= MaxDrafts,
         \A n \in DOMAIN draft' : Kept(n) \/ Moved(h, new, n)
  PROVE  Fine
  <1>1. /\ ChatTypeOK /\ task \in [Handlers -> Task] /\ new \in Task
        /\ DOMAIN draft \subseteq DOMAIN draft'
    BY DEF ChatInv, ChatTypeOK, Continues
  <1>2. task'[h] = new /\ \A k \in Handlers \ {h} : task'[k] = task[k]
    BY <1>1
  <1>3. ChatTypeOK'
    <2>1. \A n \in DOMAIN draft' : draft'[n].status \in {"needs_class", "awaiting", "done"} =>
              draft'[n].text # NoText
      BY <1>1 DEF Kept, Moved, ChatTypeOK
    <2>2. task' \in [Handlers -> Task]
      BY <1>1
    <2> QED BY <1>1, <2>1, <2>2 DEF ChatTypeOK
  <1>4. \A n \in DOMAIN draft : draft'[n].kind = draft[n].kind
    BY <1>1 DEF Kept, Moved
  <1>5. ASSUME NEW k \in Handlers, k # h, task[k].pc # "idle"
        PROVE  ~task[h].alone /\ ~task[k].alone
    BY <1>5 DEF ChatInv, Solo
  <1>6. ASSUME NEW k \in Handlers PROVE Aimed(k)'
    <2>1. CASE k = h
      BY <1>2, <2>1 DEF ChatInv, Aimed, Continues
    <2>2. CASE k # h
      BY <1>1, <1>2, <1>4, <2>2 DEF ChatInv, Aimed, OnRegister, OnDiary
    <2> QED BY <2>1, <2>2
  <1>7. ASSUME NEW k \in Handlers PROVE Submits(k)'
    <2>1. CASE k = h
      BY <1>2, <2>1 DEF Submits, Continues
    <2>2. CASE k # h
      BY <1>2, <1>5, <2>2 DEF ChatInv, Submits
    <2> QED BY <2>1, <2>2
  <1>8. ASSUME NEW k \in Handlers PROVE FreshReply(k)'
    <2>1. CASE k = h
      BY <1>2, <2>1 DEF FreshReply, Continues
    <2>2. CASE k # h /\ task[k].pc = "reply"
      <3>1. task[k].n \in DOMAIN draft /\ FreshReply(k) /\ ~task[h].alone
        BY <1>5, <2>2 DEF ChatInv, Aimed
      <3>2. Kept(task[k].n) \/ draft'[task[k].n].excused
        BY <1>1, <3>1 DEF Moved
      <3> QED BY <1>2, <2>2, <3>1, <3>2 DEF FreshReply, Kept
    <2>3. CASE k # h /\ task[k].pc # "reply"
      BY <1>2, <2>3 DEF FreshReply
    <2> QED BY <2>1, <2>2, <2>3
  <1>9. Solo'
    <2> SUFFICES ASSUME NEW j \in Handlers, NEW k \in Handlers, j # k,
                        task'[j].pc # "idle", task'[k].pc # "idle"
                 PROVE  ~task'[j].alone
      BY DEF Solo
    <2>1. CASE j = h
      BY <1>2, <1>5, <2>1 DEF Continues
    <2>2. CASE j # h
      BY <1>2, <1>5, <2>2
    <2> QED BY <2>1, <2>2
  <1>10. ASSUME NEW n \in DOMAIN draft' PROVE Previewed(n)' /\ Listed(n)'
    <2>1. CASE Kept(n)
      <3>1. \A k \in Handlers : task[k].pc = "reply" => task'[k] = task[k]
        BY <1>2
      <3>2. Previewed(n) /\ Listed(n)
        BY <2>1 DEF ChatInv, Kept
      <3> QED BY <2>1, <3>1, <3>2 DEF Kept, Previewed, Listed
    <2>2. CASE Moved(h, new, n)
      BY <1>2, <2>2 DEF Moved, Previewed, Listed
    <2> QED BY <2>1, <2>2
  <1>11. SettledAsShown'
    <2> SUFFICES ASSUME NEW n \in DOMAIN draft', draft'[n].status = "done", ~draft'[n].excused
                 PROVE  draft'[n].text = draft'[n].shown
      BY DEF SettledAsShown
    <2>1. CASE Kept(n)
      BY <2>1 DEF Kept, ChatInv, SettledAsShown
    <2>2. CASE Moved(h, new, n)
      <3>1. /\ n \in DOMAIN draft /\ draft'[n].text = draft[n].text
            /\ draft'[n].shown = draft[n].shown /\ task[h].alone /\ ~draft[n].excused
            /\ draft[n].status = "awaiting"
        BY <2>2 DEF Moved
      <3>2. ~ \E k \in Handlers : task[k].pc = "reply"
        BY <1>5, <3>1
      <3> QED BY <3>1, <3>2 DEF ChatInv, Previewed
    <2> QED BY <2>1, <2>2
  <1>12. \A o \in Office : Permitted(o)'
    BY DEF ChatInv, Permitted
  <1>13. Confirms
    BY <1>1 DEF Kept, Moved, Confirms
  <1> QED BY <1>3, <1>6, <1>7, <1>8, <1>9, <1>10, <1>11, <1>12, <1>13 DEF ChatInv, Fine

-----------------------------------------------------------------------------
(* Drafts.                                                                 *)

Statuses == {"reading", "needs_class", "awaiting", "done", "cancelled", "failed"}

\* The text that nothing was read for is no list.
LEMMA NoTextIsNoList == NoText \notin Texts
  BY ChatConstants DEF ChatConstants, NoText, Texts

LEMMA NoTaskIsTask == NoTask \in Task
  <1>1. 0 \in 0..MaxMails /\ 0 \in 0..MaxDrafts /\ 0 \in 0..MaxRegisters
    BY ChatConstants DEF ChatConstants
  <1>2. NoRegister \in Register
    BY <1>1 DEF NoRegister, Register, RegisterStates
  <1> QED BY <1>1, <1>2 DEF NoTask, Task

LEMMA MaxIsIn ==
  ASSUME NEW N \in Nat, NEW S \in SUBSET (0..N), S # {}
  PROVE  Max(S) \in S
  <1> DEFINE R == {ss \in Nat \X Nat : ss[1] < ss[2]}
             T == {N - x : x \in S}
  <1>1. OpToRel(<, Nat) = R
    BY DEF OpToRel
  <1>2. IsWellFoundedOn(R, Nat)
    BY <1>1, NatLessThanWellFounded, Zenon
  <1>3. T \subseteq Nat /\ T # {}
    <2>1. \A x \in S : x \in Nat /\ N - x \in Nat
      OBVIOUS
    <2>2. PICK x : x \in S
      OBVIOUS
    <2> QED BY <2>1, <2>2
  <1> HIDE DEF T, R
  <1>4. PICK t \in T : \A u \in T : <<u, t>> \notin R
    BY <1>2, <1>3, WFMin
  <1>5. PICK x \in S : t = N - x
    BY <1>4 DEF T
  <1>6. ASSUME NEW y \in S, x < y
        PROVE  FALSE
    <2>1. N - y \in T /\ N - y \in Nat /\ N - x \in Nat /\ N - y < N - x
      BY <1>6 DEF T
    <2>2. <<N - y, N - x>> \in R
      BY <2>1 DEF R
    <2> QED BY <1>4, <1>5, <2>1, <2>2
  <1>7. \A y \in S : x >= y
    BY <1>6
  <1> QED BY <1>5, <1>7 DEF Max

LEMMA OpenForIsOpen ==
  ASSUME ChatTypeOK, NEW kind, OpenFor(kind) # 0
  PROVE  /\ OpenFor(kind) \in DOMAIN draft
         /\ IsOpen(draft[OpenFor(kind)], kind)
  <1> DEFINE S == {0} \cup {n \in DOMAIN draft : IsOpen(draft[n], kind) /\ draft[n].age # "lapsed"}
  <1>1. Len(draft) \in Nat /\ S \in SUBSET (0..Len(draft)) /\ S # {}
    BY DEF ChatTypeOK
  <1> HIDE DEF S
  <1>2. Max(S) \in S
    BY <1>1, MaxIsIn
  <1> QED BY <1>2 DEF OpenFor, S

\* One draft as a task leaves it.
LEMMA ChangedIs ==
  ASSUME ChatTypeOK, NEW h \in Handlers, NEW d \in Draft, NEW status \in Statuses,
         NEW text \in Texts \cup {NoText}
  PROVE  LET e == Changed(d, h, status, text)
         IN /\ e \in Draft /\ e.kind = d.kind /\ e.shown = d.shown /\ e.mail = d.mail
            /\ e.status = status /\ e.text = text
            /\ e.excused = (d.excused \/ ~task[h].alone)
  <1>1. PICK b \in BOOLEAN : b = (d.excused \/ ~task[h].alone)
    OBVIOUS
  <1>2. PICK at \in Nat : at = IF status \in OpenStatuses THEN clock + 1 ELSE 0
    BY DEF ChatTypeOK
  <1>3. Changed(d, h, status, text) = [d EXCEPT !.status = status, !.text = text, !.age = "fresh",
                                                !.at = at, !.excused = b]
    BY <1>1, <1>2 DEF Changed, Draft
  <1> QED BY <1>1, <1>3 DEF Draft, Statuses

LEMMA SetsIs ==
  ASSUME ChatTypeOK, NEW h \in Handlers, NEW n \in DOMAIN draft, NEW status \in Statuses,
         NEW text \in Texts \cup {NoText}, Sets(h, n, status, text)
  PROVE  /\ draft' \in Seq(Draft) /\ Len(draft') = Len(draft) /\ clock' \in Nat
         /\ \A m \in DOMAIN draft \ {n} : draft'[m] = draft[m]
         /\ draft'[n].kind = draft[n].kind /\ draft'[n].shown = draft[n].shown
         /\ draft'[n].status = status /\ draft'[n].text = text
         /\ draft'[n].excused = (draft[n].excused \/ ~task[h].alone)
  <1>1. draft[n] \in Draft
    BY DEF ChatTypeOK
  <1>2. PICK e : e = Changed(draft[n], h, status, text)
    OBVIOUS
  <1>3. /\ e \in Draft /\ e.kind = draft[n].kind /\ e.shown = draft[n].shown
        /\ e.status = status /\ e.text = text /\ e.excused = (draft[n].excused \/ ~task[h].alone)
    BY <1>1, <1>2, ChangedIs
  <1>4. draft' = [draft EXCEPT ![n] = e]
    BY <1>2 DEF Sets
  <1>5. draft' \in Seq(Draft) /\ Len(draft') = Len(draft)
    BY <1>3, <1>4 DEF ChatTypeOK
  <1> QED BY <1>3, <1>4, <1>5 DEF Sets, ChatTypeOK

\* What is cancelled keeps its text.
LEMMA CancelIs ==
  ASSUME ChatTypeOK, NEW h \in Handlers, NEW kind
  PROVE  LET c == CancelOpen(h, kind)
         IN /\ c \in Seq(Draft) /\ Len(c) = Len(draft)
            /\ \A n \in DOMAIN draft :
                  \/ c[n] = draft[n]
                  \/ /\ c[n].kind = draft[n].kind /\ c[n].shown = draft[n].shown
                     /\ c[n].status = "cancelled" /\ c[n].text = draft[n].text
                     /\ c[n].excused = (draft[n].excused \/ ~task[h].alone)
  <1>1. PICK c : c = CancelOpen(h, kind)
    OBVIOUS
  <1>2. \A n \in DOMAIN draft : c[n] = IF IsOpen(draft[n], kind)
                                       THEN Changed(draft[n], h, "cancelled", draft[n].text)
                                       ELSE draft[n]
    BY <1>1 DEF CancelOpen
  <1>3. ASSUME NEW n \in DOMAIN draft
        PROVE  /\ c[n] \in Draft
               /\ \/ c[n] = draft[n]
                  \/ /\ c[n].kind = draft[n].kind /\ c[n].shown = draft[n].shown
                     /\ c[n].status = "cancelled" /\ c[n].text = draft[n].text
                     /\ c[n].excused = (draft[n].excused \/ ~task[h].alone)
    <2>1. draft[n] \in Draft /\ draft[n].text \in Texts \cup {NoText} /\ "cancelled" \in Statuses
      <3>1. draft[n] \in Draft
        BY DEF ChatTypeOK
      <3> QED BY <3>1 DEF Draft, Statuses
    <2>2. CASE IsOpen(draft[n], kind)
      <3>1. c[n] = Changed(draft[n], h, "cancelled", draft[n].text)
        BY <1>2, <2>2
      <3> QED BY <2>1, <3>1, ChangedIs
    <2>3. CASE ~IsOpen(draft[n], kind)
      BY <1>2, <2>1, <2>3
    <2> QED BY <2>2, <2>3
  <1>4. c = [n \in 1..Len(draft) |-> c[n]] /\ Len(draft) \in Nat /\ DOMAIN draft = 1..Len(draft)
    BY <1>1 DEF CancelOpen, ChatTypeOK
  <1>5. c \in Seq(Draft) /\ Len(c) = Len(draft)
    BY <1>3, <1>4
  <1> QED BY <1>1, <1>3, <1>5

\* What a task does without touching a draft.
LEMMA LooksOnly ==
  ASSUME ChatInv, NEW h \in Handlers, NEW new, task[h].pc \notin {"idle", "reply"},
         task' = [task EXCEPT ![h] = new], Continues(h, new), Quiet,
         UNCHANGED <<office, mail, mishaps>>, RegistersTypeOK'
  PROVE  Fine
  <1>1. /\ clock' \in Nat /\ draft' \in Seq(Draft) /\ Len(draft) = Len(draft')
        /\ Len(draft') <= MaxDrafts /\ Len(draft) \in Nat /\ DOMAIN draft' = DOMAIN draft
    BY DEF ChatInv, ChatTypeOK, Quiet
  <1>2. \A n \in DOMAIN draft' : Kept(n)
    BY <1>1 DEF Kept, Quiet
  <1>3. Len(draft) <= Len(draft')
    BY <1>1
  <1> QED BY <1>1, <1>2, <1>3, OneTask

\* A task that is done.
LEMMA DoneContinues ==
  ASSUME NEW h \in Handlers
  PROVE  Continues(h, NoTask)
  BY NoTaskIsTask DEF Continues, NoTask, OnRegister, OnDiary

\* What a task leaves one draft in.
LEMMA SetsOne ==
  ASSUME ChatInv, NEW h \in Handlers, NEW new, task[h].pc \notin {"idle", "reply"},
         task' = [task EXCEPT ![h] = new], Continues(h, new),
         NEW n \in DOMAIN draft, NEW status \in Statuses, NEW text \in Texts \cup {NoText},
         Sets(h, n, status, text), UNCHANGED <<office, mail, mishaps>>, RegistersTypeOK',
         draft[n].kind = "register" => text \in Texts,
         status \in {"needs_class", "awaiting", "done"} => text # NoText,
         status = "awaiting" => new.pc = "reply" /\ new.n = n,
         status = "done" => /\ text = draft[n].text
                            /\ task[h].alone => draft[n].status = "awaiting"
                            /\ draft[n].kind = "register" => InRegister(text)
  PROVE  Fine
  <1>1. ChatTypeOK
    BY DEF ChatInv
  <1>2. /\ draft' \in Seq(Draft) /\ Len(draft') = Len(draft) /\ clock' \in Nat
        /\ \A m \in DOMAIN draft \ {n} : draft'[m] = draft[m]
        /\ draft'[n].kind = draft[n].kind /\ draft'[n].shown = draft[n].shown
        /\ draft'[n].status = status /\ draft'[n].text = text
        /\ draft'[n].excused = (draft[n].excused \/ ~task[h].alone)
    BY <1>1, SetsIs
  <1>3. /\ Len(draft) <= Len(draft') /\ Len(draft') <= MaxDrafts
        /\ DOMAIN draft' = DOMAIN draft
    BY <1>1, <1>2 DEF ChatTypeOK
  <1>4. ASSUME NEW m \in DOMAIN draft' PROVE Kept(m) \/ Moved(h, new, m)
    <2>1. CASE m = n
      BY <1>2, <1>3, <2>1 DEF Moved
    <2>2. CASE m # n
      BY <1>2, <1>3, <2>2 DEF Kept
    <2> QED BY <2>1, <2>2
  <1> QED BY <1>2, <1>3, <1>4, OneTask

-----------------------------------------------------------------------------
(* The register.                                                           *)

LEMMA AsideKeeps ==
  ASSUME ChatInv, Aside
  PROVE  UNCHANGED <<office, mail, mishaps>> /\ RegistersTypeOK'
  BY DEF ChatInv, ChatTypeOK, Aside, registerVars, RegistersTypeOK

\* What a running task knows of itself.
LEMMA TaskType ==
  ASSUME ChatInv, NEW h \in Handlers, task[h].pc # "idle"
  PROVE  /\ ChatTypeOK /\ Aimed(h) /\ task[h] \in Task /\ task[h].mail \in DOMAIN mail
         /\ \A n \in DOMAIN draft : draft[n] \in Draft /\ n \in 0..MaxDrafts
  <1>1. ChatTypeOK /\ Aimed(h) /\ task[h] \in Task /\ task[h].mail \in DOMAIN mail
    BY DEF ChatInv, ChatTypeOK, Aimed
  <1>2. /\ draft \in Seq(Draft) /\ Len(draft) \in Nat /\ Len(draft) <= MaxDrafts
        /\ MaxDrafts \in Nat /\ DOMAIN draft = 1..Len(draft)
    BY <1>1, ChatConstants DEF ChatTypeOK, ChatConstants
  <1>3. \A n \in DOMAIN draft : draft[n] \in Draft
    BY <1>2
  <1>4. \A n \in DOMAIN draft : n \in 0..MaxDrafts
    BY <1>2
  <1> QED BY <1>1, <1>3, <1>4

LEMMA OfferedKeeps ==
  ASSUME ChatInv, NEW h \in Handlers, Offered(h)
  PROVE  Fine
  <1> DEFINE n == OpenFor("register")
  <1>1. /\ UNCHANGED <<office, mail, mishaps>> /\ RegistersTypeOK' /\ Quiet
        /\ task[h].pc = "offered"
    BY AsideKeeps DEF Offered
  <1>2. ChatTypeOK /\ task[h] \in Task /\ 0 \in 0..MaxDrafts
    BY <1>1, TaskType, ChatConstants DEF ChatConstants
  <1>3. CASE Known(h, "register")
    BY <1>1, <1>3, DoneContinues, LooksOnly DEF Offered, Ends
  <1>4. CASE ~Known(h, "register")
    <2>1. n # 0 => /\ n \in DOMAIN draft /\ draft[n].kind = "register"
                   /\ draft[n].text \in Texts /\ n \in 0..MaxDrafts
      <3>1. n # 0 => n \in DOMAIN draft /\ draft[n].kind = "register"
        BY <1>2, OpenForIsOpen DEF IsOpen
      <3> QED BY <1>1, <3>1, TaskType DEF ChatInv, Listed
    <2>2. PICK pc : pc = CASE Word(h) = "list" -> "list"
                           [] Word(h) # "list" /\ Answering(h, n) -> "answer"
                           [] OTHER -> "text"
      OBVIOUS
    <2>3. pc \in {"list", "answer", "text"} /\ (pc = "answer" => n # 0)
      BY <2>2 DEF Answering
    <2>4. PICK text : text = IF n = 0 THEN NoText ELSE draft[n].text
      OBVIOUS
    <2>5. PICK new : new = [task[h] EXCEPT !.n = n, !.text = text, !.pc = pc]
      OBVIOUS
    <2>6. task' = [task EXCEPT ![h] = new]
      BY <1>2, <1>4, <2>2, <2>4, <2>5 DEF Offered, ChatTypeOK
    <2>7. /\ new \in Task /\ new.pc = pc /\ new.n = n /\ new.text = text
          /\ new.mail = task[h].mail /\ new.alone = task[h].alone
      BY <1>2, <2>1, <2>3, <2>4, <2>5 DEF Task
    <2>8. Continues(h, new)
      BY <1>1, <2>1, <2>3, <2>4, <2>7 DEF Continues, OnRegister, OnDiary, Quiet
    <2> QED BY <1>1, <2>6, <2>8, LooksOnly
  <1> QED BY <1>3, <1>4

\* A task that goes on with what it has.
LEMMA GoesIs ==
  ASSUME ChatInv, NEW h \in Handlers, NEW pc \in {"text", "submit", "revise"},
         task[h].pc # "idle", Goes(h, pc), Quiet,
         pc # "text" => /\ task[h].n \in DOMAIN draft
                        /\ draft[task[h].n].kind = "register"
  PROVE  \E new : task' = [task EXCEPT ![h] = new] /\ Continues(h, new)
  <1>1. ChatTypeOK /\ task[h] \in Task
    BY TaskType
  <1>2. PICK new : new = [task[h] EXCEPT !.pc = pc]
    OBVIOUS
  <1>3. /\ new \in Task /\ new.pc = pc /\ new.n = task[h].n /\ new.mail = task[h].mail
        /\ new.alone = task[h].alone
    BY <1>1, <1>2 DEF Task
  <1>4. task' = [task EXCEPT ![h] = new]
    BY <1>1, <1>2 DEF Goes, ChatTypeOK
  <1>5. Continues(h, new)
    BY <1>3 DEF Continues, OnRegister, OnDiary, Quiet
  <1> QED BY <1>4, <1>5

\* A task that leaves a draft settled, or with a question the teacher cannot confirm.
LEMMA SetsEnds ==
  ASSUME ChatInv, NEW h \in Handlers, task[h].pc \notin {"idle", "reply"}, Ends(h),
         NEW n \in DOMAIN draft, NEW status \in {"failed", "cancelled", "needs_class", "done"},
         NEW text \in Texts \cup {NoText}, Sets(h, n, status, text),
         UNCHANGED <<office, mail, mishaps>>, RegistersTypeOK',
         draft[n].kind = "register" => text \in Texts,
         status \in {"needs_class", "done"} => text # NoText,
         status = "done" => /\ text = draft[n].text
                            /\ task[h].alone => draft[n].status = "awaiting"
                            /\ draft[n].kind = "register" => InRegister(text)
  PROVE  Fine
  <1>1. status \in Statuses /\ status # "awaiting"
    BY DEF Statuses
  <1>2. Continues(h, NoTask) /\ task' = [task EXCEPT ![h] = NoTask]
    BY DoneContinues DEF Ends
  <1> QED BY <1>1, <1>2, SetsOne

\* A task that is about to show what it left.
LEMMA SetsShows ==
  ASSUME ChatInv, NEW h \in Handlers, task[h].pc \notin {"idle", "reply"},
         NEW n \in DOMAIN draft, NEW text \in Texts \cup {NoText},
         Sets(h, n, "awaiting", text), Shows(h, n, text),
         UNCHANGED <<office, mail, mishaps>>, RegistersTypeOK',
         draft[n].kind = "register" => text \in Texts, text # NoText
  PROVE  Fine
  <1>1. ChatTypeOK /\ task[h] \in Task /\ n \in 0..MaxDrafts
    BY TaskType
  <1>2. PICK new : new = [task[h] EXCEPT !.pc = "reply", !.n = n, !.text = text]
    OBVIOUS
  <1>3. /\ new \in Task /\ new.pc = "reply" /\ new.n = n /\ new.text = text
        /\ new.mail = task[h].mail /\ new.alone = task[h].alone
    BY <1>1, <1>2 DEF Task
  <1>4. task' = [task EXCEPT ![h] = new]
    BY <1>1, <1>2 DEF Shows, ChatTypeOK
  <1>5. "awaiting" \in Statuses
    BY DEF Statuses
  <1>6. draft'[n].text = text /\ n \in DOMAIN draft'
    BY <1>1, <1>5, SetsIs
  <1>7. Continues(h, new)
    BY <1>3, <1>6 DEF Continues, OnRegister, OnDiary
  <1> QED BY <1>3, <1>4, <1>5, <1>7, SetsOne

LEMMA SetsAnswers ==
  ASSUME ChatInv, NEW h \in Handlers, task[h].pc \notin {"idle", "reply"},
         NEW n \in DOMAIN draft, NEW status \in {"failed", "needs_class", "awaiting"},
         NEW text \in Texts, Sets(h, n, status, text), Answers(h, n, status, text), Aside
  PROVE  Fine
  <1>1. UNCHANGED <<office, mail, mishaps>> /\ RegistersTypeOK'
    BY AsideKeeps
  <1>2. text # NoText
    BY NoTextIsNoList
  <1>3. CASE status = "awaiting"
    BY <1>1, <1>2, <1>3, SetsShows DEF Answers
  <1>4. CASE status # "awaiting"
    BY <1>1, <1>2, <1>4, SetsEnds DEF Answers
  <1> QED BY <1>3, <1>4

LEMMA ReadingIs ==
  ASSUME NEW r, NEW text \in Texts, r \in Readings \cup Resolves(text)
  PROVE  r[1] \in {"failed", "needs_class", "awaiting"} /\ r[2] \in Texts
  BY DEF Readings, Resolves

\* A task that begins a draft, and cancels what was open.
LEMMA StartedIs ==
  ASSUME ChatInv, NEW h \in Handlers, task[h].pc # "idle", Len(draft) < MaxDrafts,
         NEW kind \in {"register", "diary"}, NEW status \in Statuses,
         NEW text \in Texts \cup {NoText},
         draft' = Append(CancelOpen(h, kind), Started(h, kind, status, text))
  PROVE  /\ draft' \in Seq(Draft) /\ Len(draft') = Len(draft) + 1
         /\ DOMAIN draft' = DOMAIN draft \cup {Len(draft) + 1}
         /\ Len(draft) + 1 \in 0..MaxDrafts /\ Len(draft) + 1 \notin DOMAIN draft
         /\ \A n \in DOMAIN draft : draft'[n] = CancelOpen(h, kind)[n]
         /\ LET e == draft'[Len(draft) + 1]
            IN e.kind = kind /\ e.status = status /\ e.text = text
  <1>1. ChatTypeOK /\ task[h].mail \in DOMAIN mail
    BY TaskType
  <1>2. /\ Len(draft) \in Nat /\ MaxDrafts \in Nat /\ task[h].mail \in 1..MaxMails
        /\ DOMAIN draft = 1..Len(draft) /\ clock \in Nat
    BY <1>1, ChatConstants DEF ChatTypeOK, ChatConstants
  <1>3. PICK b \in BOOLEAN : b = ~task[h].alone
    OBVIOUS
  <1>4. PICK e : e = Started(h, kind, status, text)
    OBVIOUS
  <1>5. e = [kind |-> kind, mail |-> task[h].mail, at |-> clock + 1, age |-> "fresh",
             status |-> status, text |-> text, shown |-> NoText, excused |-> b]
    BY <1>3, <1>4 DEF Started
  <1>6. e \in Draft /\ e.kind = kind /\ e.status = status /\ e.text = text
    BY <1>2, <1>5 DEF Draft, Statuses
  <1>7. PICK c : c = CancelOpen(h, kind)
    OBVIOUS
  <1>8. c \in Seq(Draft) /\ Len(c) = Len(draft)
    BY <1>1, <1>7, CancelIs
  <1>9. draft' = Append(c, e)
    BY <1>4, <1>7
  <1>10. draft' \in Seq(Draft) /\ Len(draft') = Len(draft) + 1
    BY <1>6, <1>8, <1>9
  <1>11. /\ DOMAIN draft' = DOMAIN draft \cup {Len(draft) + 1}
         /\ Len(draft) + 1 \in 0..MaxDrafts /\ Len(draft) + 1 \notin DOMAIN draft
    BY <1>2, <1>10
  <1>12. \A n \in DOMAIN draft : draft'[n] = c[n]
    BY <1>2, <1>8, <1>9
  <1>13. draft'[Len(draft) + 1] = e
    BY <1>6, <1>8, <1>9
  <1> QED BY <1>6, <1>7, <1>10, <1>11, <1>12, <1>13

LEMMA StartsOne ==
  ASSUME ChatInv, NEW h \in Handlers, NEW new, task[h].pc \notin {"idle", "reply"},
         task' = [task EXCEPT ![h] = new], Continues(h, new), Len(draft) < MaxDrafts,
         NEW kind \in {"register", "diary"},
         NEW status \in {"reading", "failed", "needs_class", "awaiting"},
         NEW text \in Texts \cup {NoText},
         draft' = Append(CancelOpen(h, kind), Started(h, kind, status, text)),
         clock' = clock + 1, Aside,
         kind = "register" => text \in Texts,
         status \in {"needs_class", "awaiting"} => text # NoText,
         status = "awaiting" => new.pc = "reply" /\ new.n = Len(draft) + 1
  PROVE  Fine
  <1>1. ChatTypeOK
    BY DEF ChatInv
  <1>2. status \in Statuses
    BY DEF Statuses
  <1>3. /\ draft' \in Seq(Draft) /\ Len(draft') = Len(draft) + 1
        /\ DOMAIN draft' = DOMAIN draft \cup {Len(draft) + 1}
        /\ Len(draft) + 1 \in 0..MaxDrafts /\ Len(draft) + 1 \notin DOMAIN draft
        /\ \A n \in DOMAIN draft : draft'[n] = CancelOpen(h, kind)[n]
        /\ LET e == draft'[Len(draft) + 1]
           IN e.kind = kind /\ e.status = status /\ e.text = text
    BY <1>2, StartedIs
  <1>4. ASSUME NEW n \in DOMAIN draft' PROVE Kept(n) \/ Moved(h, new, n)
    <2>1. CASE n = Len(draft) + 1
      BY <1>3, <2>1 DEF Moved
    <2>2. CASE n \in DOMAIN draft
      <3>1. PICK c : c = CancelOpen(h, kind)
        OBVIOUS
      <3>2. CASE c[n] = draft[n]
        BY <1>3, <2>2, <3>1, <3>2 DEF Kept
      <3>3. CASE c[n] # draft[n]
        <4>1. /\ c[n].kind = draft[n].kind /\ c[n].shown = draft[n].shown
              /\ c[n].status = "cancelled" /\ c[n].text = draft[n].text
              /\ c[n].excused = (draft[n].excused \/ ~task[h].alone)
          BY <1>1, <2>2, <3>1, <3>3, CancelIs
        <4>2. draft'[n] = c[n]
          BY <1>3, <2>2, <3>1
        <4>3. Listed(n)
          BY <2>2 DEF ChatInv
        <4> QED BY <2>2, <4>1, <4>2, <4>3 DEF Moved, Listed
      <3> QED BY <3>2, <3>3
    <2> QED BY <1>3, <2>1, <2>2
  <1>5. clock' \in Nat /\ Len(draft) <= Len(draft') /\ Len(draft') <= MaxDrafts
    BY <1>1, <1>3, ChatConstants DEF ChatTypeOK, ChatConstants
  <1>6. UNCHANGED <<office, mail, mishaps>> /\ RegistersTypeOK'
    BY AsideKeeps
  <1> QED BY <1>3, <1>4, <1>5, <1>6, OneTask

\* A delivery that comes second only cancels what was open.
LEMMA CancelsOpen ==
  ASSUME ChatInv, NEW h \in Handlers, task[h].pc \notin {"idle", "reply"}, Ends(h),
         NEW kind, draft' = CancelOpen(h, kind), clock' = clock, Aside
  PROVE  Fine
  <1>1. ChatTypeOK
    BY DEF ChatInv
  <1>2. /\ draft' \in Seq(Draft) /\ Len(draft') = Len(draft)
        /\ \A n \in DOMAIN draft :
              \/ draft'[n] = draft[n]
              \/ /\ draft'[n].kind = draft[n].kind /\ draft'[n].shown = draft[n].shown
                 /\ draft'[n].status = "cancelled" /\ draft'[n].text = draft[n].text
                 /\ draft'[n].excused = (draft[n].excused \/ ~task[h].alone)
    BY <1>1, CancelIs
  <1>3. /\ DOMAIN draft' = DOMAIN draft /\ Len(draft) <= Len(draft')
        /\ Len(draft') <= MaxDrafts /\ clock' \in Nat
    BY <1>1, <1>2 DEF ChatTypeOK
  <1>4. ASSUME NEW n \in DOMAIN draft' PROVE Kept(n) \/ Moved(h, NoTask, n)
    <2>1. Listed(n)
      BY <1>3 DEF ChatInv
    <2> QED BY <1>2, <1>3, <2>1 DEF Kept, Moved, Listed
  <1>5. UNCHANGED <<office, mail, mishaps>> /\ RegistersTypeOK'
    BY AsideKeeps
  <1>6. Continues(h, NoTask) /\ task' = [task EXCEPT ![h] = NoTask]
    BY DoneContinues DEF Ends
  <1> QED BY <1>2, <1>3, <1>4, <1>5, <1>6, OneTask

\* A task that ends and leaves everything as it was.
LEMMA JustEnds ==
  ASSUME ChatInv, NEW h \in Handlers, task[h].pc \notin {"idle", "reply"}, Ends(h), Quiet, Aside
  PROVE  Fine
  <1>1. UNCHANGED <<office, mail, mishaps>> /\ RegistersTypeOK'
    BY AsideKeeps
  <1>2. Continues(h, NoTask) /\ task' = [task EXCEPT ![h] = NoTask]
    BY DoneContinues DEF Ends
  <1> QED BY <1>1, <1>2, LooksOnly

LEMMA JustGoes ==
  ASSUME ChatInv, NEW h \in Handlers, task[h].pc \notin {"idle", "reply"},
         NEW pc \in {"text", "submit", "revise"}, Goes(h, pc), Quiet, Aside,
         pc # "text" => /\ task[h].n \in DOMAIN draft
                        /\ draft[task[h].n].kind = "register"
  PROVE  Fine
  <1>1. UNCHANGED <<office, mail, mishaps>> /\ RegistersTypeOK'
    BY AsideKeeps
  <1>2. PICK new : task' = [task EXCEPT ![h] = new] /\ Continues(h, new)
    BY GoesIs
  <1> QED BY <1>1, <1>2, LooksOnly

LEMMA NotAListKeeps ==
  ASSUME ChatInv, NEW h \in Handlers, NotAList(h)
  PROVE  Fine
  BY JustEnds, JustGoes DEF NotAList

LEMMA NewRegisterKeeps ==
  ASSUME ChatInv, NEW h \in Handlers, NewRegister(h)
  PROVE  Fine
  <1>1. task[h].pc = "list" /\ Aside
    BY DEF NewRegister
  <1>2. CASE Known(h, "register")
    BY <1>1, <1>2, CancelsOpen DEF NewRegister
  <1>3. CASE ~Known(h, "register")
    <2>1. PICK r \in Readings :
             /\ Len(draft) < MaxDrafts
             /\ draft' = Append(CancelOpen(h, "register"), Started(h, "register", r[1], r[2]))
             /\ Answers(h, Len(draft) + 1, r[1], r[2])
             /\ clock' = clock + 1
      BY <1>3 DEF NewRegister
    <2>2. PICK status, text : status = r[1] /\ text = r[2]
      OBVIOUS
    <2>3. status \in {"failed", "needs_class", "awaiting"} /\ text \in Texts /\ text # NoText
      <3>1. PICK t \in Texts : TRUE
        BY DEF Texts
      <3> QED BY <2>2, ReadingIs, NoTextIsNoList
    <2>4. ChatTypeOK /\ task[h] \in Task
      BY <1>1, TaskType
    <2>5. /\ draft' = Append(CancelOpen(h, "register"), Started(h, "register", status, text))
          /\ Answers(h, Len(draft) + 1, status, text)
      BY <2>1, <2>2
    <2>6. status \in Statuses
      BY <2>3 DEF Statuses
    <2>7. /\ DOMAIN draft' = DOMAIN draft \cup {Len(draft) + 1} /\ Len(draft) + 1 \in 0..MaxDrafts
          /\ draft'[Len(draft) + 1].text = text
      BY <1>1, <2>1, <2>3, <2>5, <2>6, StartedIs
    <2>8. CASE status = "awaiting"
      <3>1. PICK new : new = [task[h] EXCEPT !.pc = "reply", !.n = Len(draft) + 1, !.text = text]
        OBVIOUS
      <3>2. /\ new \in Task /\ new.pc = "reply" /\ new.n = Len(draft) + 1 /\ new.text = text
            /\ new.mail = task[h].mail /\ new.alone = task[h].alone
        BY <2>3, <2>4, <2>7, <3>1 DEF Task
      <3>3. task' = [task EXCEPT ![h] = new]
        BY <2>4, <2>5, <2>8, <3>1 DEF Answers, Shows, ChatTypeOK
      <3>4. Continues(h, new)
        BY <2>7, <3>2 DEF Continues, OnRegister, OnDiary
      <3> QED BY <1>1, <2>1, <2>3, <2>5, <3>2, <3>3, <3>4, StartsOne
    <2>9. CASE status # "awaiting"
      <3>1. task' = [task EXCEPT ![h] = NoTask] /\ Continues(h, NoTask)
        BY <2>5, <2>9, DoneContinues DEF Answers, Ends
      <3> QED BY <1>1, <2>1, <2>3, <2>5, <2>9, <3>1, StartsOne
    <2> QED BY <2>8, <2>9
  <1> QED BY <1>2, <1>3

LEMMA AnswerKeeps ==
  ASSUME ChatInv, NEW h \in Handlers, Answer(h)
  PROVE  Fine
  <1> DEFINE n == task[h].n
  <1>1. task[h].pc = "answer" /\ Aside
    BY DEF Answer
  <1>2. /\ n \in DOMAIN draft /\ draft[n].kind = "register" /\ draft[n].text \in Texts
        /\ task[h].text \in Texts
    BY <1>1 DEF ChatInv, Aimed, OnRegister, Listed
  <1>3. UNCHANGED <<office, mail, mishaps>> /\ RegistersTypeOK'
    BY <1>1, AsideKeeps
  <1>4. CASE Ends(h) /\ Quiet
    BY <1>1, <1>4, JustEnds
  <1>5. CASE Sets(h, n, "cancelled", draft[n].text) /\ Ends(h)
    BY <1>1, <1>2, <1>3, <1>5, SetsEnds
  <1>6. CASE \E r \in Resolves(task[h].text) : Sets(h, n, r[1], r[2]) /\ Answers(h, n, r[1], r[2])
    <2>1. PICK r \in Resolves(task[h].text) : Sets(h, n, r[1], r[2]) /\ Answers(h, n, r[1], r[2])
      BY <1>6
    <2>2. PICK status, text : status = r[1] /\ text = r[2]
      OBVIOUS
    <2>3. status \in {"failed", "needs_class", "awaiting"} /\ text \in Texts
      BY <1>2, <2>2, ReadingIs
    <2>4. Sets(h, n, status, text) /\ Answers(h, n, status, text)
      BY <2>1, <2>2
    <2> QED BY <1>1, <1>2, <2>3, <2>4, SetsAnswers
  <1>7. CASE Goes(h, IF Word(h) = "ok" THEN "submit" ELSE "revise") /\ Quiet
    <2>1. PICK pc \in {"text", "submit", "revise"} : Goes(h, pc)
      BY <1>7
    <2> QED BY <1>1, <1>2, <1>7, <2>1, JustGoes
  <1> QED BY <1>4, <1>5, <1>6, <1>7 DEF Answer

LEMMA ReviseKeeps ==
  ASSUME ChatInv, NEW h \in Handlers, Revise(h)
  PROVE  Fine
  <1> DEFINE n == task[h].n
  <1>1. task[h].pc = "revise" /\ Aside
    BY DEF Revise
  <1>2. n \in DOMAIN draft
    BY <1>1 DEF ChatInv, Aimed, OnRegister
  <1>3. CASE Ends(h) /\ Quiet
    BY <1>1, <1>3, JustEnds
  <1>4. CASE \E r \in Readings : Sets(h, n, r[1], r[2]) /\ Answers(h, n, r[1], r[2])
    <2>1. PICK r \in Readings : Sets(h, n, r[1], r[2]) /\ Answers(h, n, r[1], r[2])
      BY <1>4
    <2>2. PICK status, text : status = r[1] /\ text = r[2]
      OBVIOUS
    <2>3. status \in {"failed", "needs_class", "awaiting"} /\ text \in Texts
      <3>1. PICK t \in Texts : TRUE
        BY DEF Texts
      <3> QED BY <2>2, ReadingIs
    <2>4. Sets(h, n, status, text) /\ Answers(h, n, status, text)
      BY <2>1, <2>2
    <2> QED BY <1>1, <1>2, <2>3, <2>4, SetsAnswers
  <1> QED BY <1>3, <1>4 DEF Revise

LEMMA SubmitKeeps ==
  ASSUME ChatInv, NEW h \in Handlers, Submit(h)
  PROVE  Fine
  <1> DEFINE n == task[h].n
  <1>1. task[h].pc = "submit" /\ Aside
    BY DEF Submit
  <1>2. n \in DOMAIN draft /\ draft[n].kind = "register" /\ draft[n].text \in Texts
    BY <1>1 DEF ChatInv, Aimed, OnRegister, Listed
  <1>3. UNCHANGED <<office, mail, mishaps>> /\ RegistersTypeOK'
    BY <1>1, AsideKeeps
  <1>4. CASE Ends(h) /\ Quiet
    BY <1>1, <1>4, JustEnds
  <1>5. CASE Sets(h, n, "failed", draft[n].text) /\ Ends(h)
    BY <1>1, <1>2, <1>3, <1>5, SetsEnds
  <1>6. CASE /\ draft[n].status = "awaiting" /\ register.state # "submitted"
             /\ register.state = "none" => register.id < MaxRegisters
             /\ task' = [task EXCEPT ![h].pc = "submitting", ![h].read = register]
             /\ Quiet
    <2>1. ChatTypeOK /\ task[h] \in Task /\ register \in Register
      BY <1>1, TaskType DEF ChatTypeOK, RegistersTypeOK
    <2>2. PICK read : read = register
      OBVIOUS
    <2>3. PICK new : new = [task[h] EXCEPT !.pc = "submitting", !.read = read]
      OBVIOUS
    <2>4. /\ new \in Task /\ new.pc = "submitting" /\ new.n = n /\ new.read = register
          /\ new.mail = task[h].mail /\ new.alone = task[h].alone
      BY <2>1, <2>2, <2>3 DEF Task
    <2>5. task' = [task EXCEPT ![h] = new]
      BY <1>6, <2>1, <2>2, <2>3 DEF ChatTypeOK
    <2>6. Continues(h, new)
      BY <1>2, <1>6, <2>4 DEF Continues, OnRegister, OnDiary, Quiet
    <2> QED BY <1>1, <1>3, <1>6, <2>5, <2>6, LooksOnly
  <1> QED BY <1>4, <1>5, <1>6 DEF Submit

\* Registers, as a write leaves them.
LEMMA MarkedIs ==
  ASSUME NEW g \in Register, NEW read \in Register, NEW wanted \in SUBSET Students
  PROVE  LET m == Marked(g, read, wanted)
         IN /\ m \in Register /\ m.id = g.id /\ m.state = g.state
            /\ m.overlap = (g.overlap \/ Overlaps(g, read))
            /\ m.absent = wanted \/ m.overlap
  <1>1. PICK b \in BOOLEAN : b = (g.overlap \/ Overlaps(g, read))
    OBVIOUS
  <1>2. PICK a : a = (g.absent \ (read.absent \ wanted)) \cup (wanted \ read.absent)
    OBVIOUS
  <1>3. a \in SUBSET Students
    BY <1>2 DEF Register
  <1>4. Marked(g, read, wanted) = [g EXCEPT !.absent = a, !.overlap = b]
    BY <1>1, <1>2 DEF Marked, Register
  <1>5. g.absent = read.absent => a = wanted
    BY <1>2
  <1>6. g.absent # read.absent => b
    BY <1>1 DEF Overlaps
  <1> QED BY <1>1, <1>3, <1>4, <1>5, <1>6 DEF Register

LEMMA SubmittedIs ==
  ASSUME NEW g \in Register, NEW read
  PROVE  LET m == Submitted(g, read)
         IN /\ m \in Register /\ m.id = g.id /\ m.state = "submitted" /\ m.absent = g.absent
            /\ m.overlap = (g.overlap \/ Overlaps(g, read))
  <1>1. PICK b \in BOOLEAN : b = (g.overlap \/ Overlaps(g, read))
    OBVIOUS
  <1>2. Submitted(g, read) = [g EXCEPT !.state = "submitted", !.overlap = b]
    BY <1>1 DEF Submitted, Register
  <1> QED BY <1>1, <1>2 DEF Register, RegisterStates

LEMMA OpenedIs ==
  ASSUME NEW g \in Register, g.state = "none" => g.id < MaxRegisters
  PROVE  Opened(g) \in Register
  <1>1. MaxRegisters \in Nat
    BY ChatConstants DEF ChatConstants
  <1>2. g.state = "none" => g.id + 1 \in 0..MaxRegisters
    BY <1>1 DEF Register
  <1> QED BY <1>2 DEF Opened, NoRegister, Register, RegisterStates

\* A confirmed list is the register, unless somebody marked it meanwhile.
LEMMA WritesIs ==
  ASSUME NEW g \in Register, NEW read \in Register, NEW text \in Texts, ~(
           g.id # read.id \/ (g.state = "none") # (read.state = "none")),
         read.state = "none" => read.id < MaxRegisters
  PROVE  LET m == WritesRegister(g, read, text)
         IN /\ m \in Register /\ m.state = "submitted"
            /\ m.overlap \/ m.absent = text
            /\ read.state # "none" /\ g.state # read.state => m.overlap
  <1>1. PICK base : base = IF read.state = "none" THEN Opened(g) ELSE read
    OBVIOUS
  <1>2. PICK now : now = IF read.state = "none" THEN base ELSE g
    OBVIOUS
  <1>3. base \in Register /\ now \in Register /\ text \in SUBSET Students
    BY <1>1, <1>2, OpenedIs DEF Texts
  <1>4. PICK m : m = Marked(now, base, text)
    OBVIOUS
  <1>5. /\ m \in Register /\ m.overlap = (now.overlap \/ Overlaps(now, base))
        /\ m.absent = text \/ m.overlap
    BY <1>3, <1>4, MarkedIs
  <1>6. PICK after : after = [base EXCEPT !.absent = text]
    OBVIOUS
  <1>7. WritesRegister(g, read, text) = Submitted(m, after)
    BY <1>1, <1>2, <1>4, <1>6 DEF WritesRegister
  <1>8. PICK s : s = Submitted(m, after)
    OBVIOUS
  <1>9. /\ s \in Register /\ s.state = "submitted" /\ s.absent = m.absent
        /\ m.overlap => s.overlap
    BY <1>5, <1>8, SubmittedIs DEF Register
  <1>10. read.state # "none" /\ g.state # read.state => m.overlap
    BY <1>1, <1>2, <1>5 DEF Overlaps
  <1> QED BY <1>5, <1>7, <1>8, <1>9, <1>10

\* What a task that holds the draft makes of it and of the register.
LEMMA ConfirmedIs ==
  ASSUME ChatInv, NEW h \in Handlers, Confirmed(h)
  PROVE  /\ task[h].pc = "submitting" /\ Ends(h) /\ UNCHANGED <<office, late, mail, mishaps>>
         /\ \/ Quiet /\ UNCHANGED register
            \/ LET n == task[h].n
               IN /\ n \in DOMAIN draft /\ draft[n].text \in Texts
                  /\ Sets(h, n, "done", draft[n].text)
                  /\ register' \in Register /\ InRegister(draft[n].text)
                  /\ register.state = "submitted" => register'.overlap
                  /\ task[h].alone => draft[n].status = "awaiting"
  <1> DEFINE n == task[h].n
  <1>1. /\ task[h].pc = "submitting" /\ Ends(h) /\ UNCHANGED <<office, late, mail, mishaps>>
    BY DEF Confirmed
  <1>2. CASE Clashes(task[h].read)
    BY <1>1, <1>2 DEF Confirmed
  <1>3. CASE ~Clashes(task[h].read)
    <2>1. n \in DOMAIN draft /\ draft[n].text \in Texts
      BY <1>1 DEF ChatInv, Aimed, OnRegister, Listed
    <2>2. ChatTypeOK /\ task[h] \in Task
      BY <1>1, TaskType
    <2>3. PICK read, g, text : read = task[h].read /\ g = register /\ text = draft[n].text
      OBVIOUS
    <2>4. read \in Register /\ g \in Register /\ text \in Texts
      BY <2>1, <2>2, <2>3 DEF Task, ChatTypeOK, RegistersTypeOK
    <2>5. /\ read.state # "submitted"
          /\ read.state = "none" => read.id < MaxRegisters
          /\ task[h].alone => draft[n].status = "awaiting"
      BY <1>1, <2>3 DEF ChatInv, Submits
    <2>6. ~(g.id # read.id \/ (g.state = "none") # (read.state = "none"))
      BY <1>3, <2>3 DEF Clashes
    <2>7. PICK m : m = WritesRegister(g, read, text)
      OBVIOUS
    <2>8. /\ m \in Register /\ m.state = "submitted"
          /\ m.overlap \/ m.absent = text
          /\ read.state # "none" /\ g.state # read.state => m.overlap
      BY <2>4, <2>5, <2>6, <2>7, WritesIs
    <2>9. register' = m /\ Sets(h, n, "done", draft[n].text)
      BY <1>3, <2>3, <2>7 DEF Confirmed
    <2>10. register.state = "submitted" => m.overlap
      <3>1. g.state = "none" <=> read.state = "none"
        BY <2>6
      <3>2. g.state = "submitted" => read.state # "none" /\ g.state # read.state
        BY <2>5, <3>1
      <3> QED BY <2>3, <2>8, <3>2
    <2> QED BY <1>1, <2>1, <2>3, <2>5, <2>8, <2>9, <2>10 DEF InRegister
  <1> QED BY <1>2, <1>3

LEMMA ConfirmedKeeps ==
  ASSUME ChatInv, NEW h \in Handlers, Confirmed(h)
  PROVE  Fine
  <1> DEFINE n == task[h].n
  <1>1. /\ task[h].pc = "submitting" /\ Ends(h) /\ UNCHANGED <<office, late, mail, mishaps>>
    BY ConfirmedIs
  <1>2. CASE Quiet /\ UNCHANGED register
    BY <1>1, <1>2, JustEnds DEF Aside, registerVars
  <1>3. CASE /\ n \in DOMAIN draft /\ draft[n].text \in Texts
             /\ Sets(h, n, "done", draft[n].text)
             /\ register' \in Register /\ InRegister(draft[n].text)
             /\ task[h].alone => draft[n].status = "awaiting"
    <2>1. RegistersTypeOK'
      BY <1>1, <1>3 DEF ChatInv, ChatTypeOK, RegistersTypeOK
    <2>2. draft[n].text # NoText
      BY <1>3, NoTextIsNoList
    <2> QED BY <1>1, <1>3, <2>1, <2>2, SetsEnds
  <1> QED BY <1>2, <1>3, ConfirmedIs

-----------------------------------------------------------------------------
(* The diary.                                                              *)

LEMMA PhotoKeeps ==
  ASSUME ChatInv, NEW h \in Handlers, Photo(h)
  PROVE  Fine
  <1>1. task[h].pc = "photo" /\ Aside
    BY DEF Photo
  <1>2. CASE Ends(h) /\ Quiet
    BY <1>1, <1>2, JustEnds
  <1>3. CASE /\ Len(draft) < MaxDrafts
             /\ draft' = Append(CancelOpen(h, "diary"), Started(h, "diary", "reading", NoText))
             /\ clock' = clock + 1
             /\ task' = [task EXCEPT ![h].pc = "reading", ![h].n = Len(draft) + 1]
    <2>1. ChatTypeOK /\ task[h] \in Task
      BY <1>1, TaskType
    <2>2. "reading" \in Statuses
      BY DEF Statuses
    <2>3. /\ DOMAIN draft' = DOMAIN draft \cup {Len(draft) + 1} /\ Len(draft) + 1 \in 0..MaxDrafts
          /\ draft'[Len(draft) + 1].kind = "diary"
      BY <1>1, <1>3, <2>2, StartedIs
    <2>4. PICK new : new = [task[h] EXCEPT !.pc = "reading", !.n = Len(draft) + 1]
      OBVIOUS
    <2>5. /\ new \in Task /\ new.pc = "reading" /\ new.n = Len(draft) + 1
          /\ new.mail = task[h].mail /\ new.alone = task[h].alone
      BY <2>1, <2>3, <2>4 DEF Task
    <2>6. task' = [task EXCEPT ![h] = new]
      BY <1>3, <2>1, <2>4 DEF ChatTypeOK
    <2>7. Continues(h, new)
      BY <2>3, <2>5 DEF Continues, OnRegister, OnDiary
    <2> QED BY <1>1, <1>3, <2>6, <2>7, StartsOne
  <1>4. CASE draft' = CancelOpen(h, "diary") /\ clock' = clock /\ Ends(h)
    BY <1>1, <1>4, CancelsOpen
  <1> QED BY <1>2, <1>3, <1>4 DEF Photo

LEMMA TextKeeps ==
  ASSUME ChatInv, NEW h \in Handlers, Text(h)
  PROVE  Fine
  <1>1. PICK n : n = OpenFor("diary")
    OBVIOUS
  <1>2. task[h].pc = "text" /\ Aside
    BY DEF Text
  <1>3. UNCHANGED <<office, mail, mishaps>> /\ RegistersTypeOK'
    BY <1>2, AsideKeeps
  <1>4. /\ ChatTypeOK /\ task[h] \in Task
        /\ \A m \in DOMAIN draft : draft[m] \in Draft /\ m \in 0..MaxDrafts
    BY <1>2, TaskType
  <1>5. n # 0 => /\ n \in DOMAIN draft /\ draft[n].kind = "diary"
                 /\ draft[n].status \in OpenStatuses
    BY <1>1, <1>4, OpenForIsOpen DEF IsOpen
  <1>6. n # 0 => draft[n].text \in Texts \cup {NoText}
    BY <1>4, <1>5 DEF Draft
  <1>7. n # 0 /\ draft[n].status # "reading" => draft[n].text # NoText
    BY <1>4, <1>5 DEF ChatTypeOK, OpenStatuses
  <1>8. CASE Ends(h) /\ Quiet
    BY <1>2, <1>8, JustEnds
  <1>9. CASE n # 0 /\ Sets(h, n, "failed", draft[n].text) /\ Ends(h)
    BY <1>2, <1>3, <1>5, <1>6, <1>9, SetsEnds
  <1>10. CASE n # 0 /\ Sets(h, n, "cancelled", draft[n].text) /\ Ends(h)
    BY <1>2, <1>3, <1>5, <1>6, <1>10, SetsEnds
  <1>11. CASE /\ n # 0 /\ draft[n].status # "reading"
              /\ Sets(h, n, "awaiting", draft[n].text) /\ Shows(h, n, draft[n].text)
    <2>1. PICK text : text = draft[n].text
      OBVIOUS
    <2> QED BY <1>2, <1>3, <1>5, <1>6, <1>7, <1>11, <2>1, SetsShows
  <1>12. CASE /\ n # 0 /\ Quiet
              /\ task' = [task EXCEPT ![h].pc = IF Word(h) = "ok" THEN "post" ELSE "correct",
                                      ![h].n = n, ![h].text = draft[n].text]
    <2>1. PICK pc \in {"post", "correct"} : pc = IF Word(h) = "ok" THEN "post" ELSE "correct"
      OBVIOUS
    <2>2. PICK text \in Texts \cup {NoText} : text = draft[n].text
      BY <1>6, <1>12
    <2>3. PICK new : new = [task[h] EXCEPT !.pc = pc, !.n = n, !.text = text]
      OBVIOUS
    <2>4. /\ new \in Task /\ new.pc = pc /\ new.n = n
          /\ new.mail = task[h].mail /\ new.alone = task[h].alone
      BY <1>4, <1>5, <1>12, <2>1, <2>3 DEF Task
    <2>5. task' = [task EXCEPT ![h] = new]
      BY <1>4, <1>12, <2>1, <2>2, <2>3 DEF ChatTypeOK
    <2>6. Continues(h, new)
      BY <1>5, <1>12, <2>1, <2>4 DEF Continues, OnRegister, OnDiary, Quiet
    <2> QED BY <1>2, <1>3, <1>12, <2>5, <2>6, LooksOnly
  <1> QED BY <1>1, <1>8, <1>9, <1>10, <1>11, <1>12 DEF Text

LEMMA ApplyKeeps ==
  ASSUME ChatInv, NEW h \in Handlers, Apply(h)
  PROVE  Fine
  <1> DEFINE n == task[h].n
  <1>1. task[h].pc \in {"reading", "correct"} /\ Aside
    BY DEF Apply
  <1>2. n \in DOMAIN draft /\ draft[n].kind = "diary"
    BY <1>1 DEF ChatInv, Aimed, OnDiary
  <1>3. UNCHANGED <<office, mail, mishaps>> /\ RegistersTypeOK'
    BY <1>1, AsideKeeps
  <1>4. draft[n].text \in Texts \cup {NoText}
    BY <1>1, <1>2, TaskType DEF Draft
  <1>5. CASE Ends(h) /\ Quiet
    BY <1>1, <1>5, JustEnds
  <1>6. CASE Sets(h, n, "failed", draft[n].text) /\ Ends(h)
    BY <1>1, <1>2, <1>3, <1>4, <1>6, SetsEnds
  <1>7. CASE \E t \in Texts : Sets(h, n, "needs_class", t) /\ Ends(h)
    BY <1>1, <1>2, <1>3, <1>7, SetsEnds, NoTextIsNoList
  <1>8. CASE \E t \in Texts : Sets(h, n, "awaiting", t) /\ Shows(h, n, t)
    BY <1>1, <1>2, <1>3, <1>8, SetsShows, NoTextIsNoList
  <1> QED BY <1>5, <1>6, <1>7, <1>8 DEF Apply

LEMMA PostsDiaryKeeps ==
  ASSUME ChatInv, NEW h \in Handlers, Post(h)
  PROVE  Fine
  <1> DEFINE n == task[h].n
  <1>1. task[h].pc = "post" /\ Aside /\ Ends(h)
    BY DEF Post
  <1>2. n \in DOMAIN draft /\ draft[n].kind = "diary"
    BY <1>1 DEF ChatInv, Aimed, OnDiary
  <1>3. UNCHANGED <<office, mail, mishaps>> /\ RegistersTypeOK'
    BY <1>1, AsideKeeps
  <1>4. draft[n].text \in Texts \cup {NoText}
    BY <1>1, <1>2, TaskType DEF Draft
  <1>5. draft[n].status = "awaiting" => draft[n].text # NoText
    BY <1>2 DEF ChatInv, ChatTypeOK
  <1>6. CASE Quiet
    BY <1>1, <1>6, JustEnds
  <1>7. CASE draft[n].status = "awaiting" /\ Sets(h, n, "needs_class", draft[n].text)
    BY <1>1, <1>2, <1>3, <1>4, <1>5, <1>7, SetsEnds
  <1>8. CASE draft[n].status = "awaiting" /\ Sets(h, n, "done", draft[n].text)
    BY <1>1, <1>2, <1>3, <1>4, <1>5, <1>8, SetsEnds
  <1> QED BY <1>6, <1>7, <1>8 DEF Post

-----------------------------------------------------------------------------
(* Replies, losses and time.                                               *)

\* A draft when a task ends without a decision about it: what it says stays, and if the
\* task was about to show it, it is shown or the loss is recorded.
Rests(h, n) ==
    LET d == draft[n]
        e == draft'[n]
    IN /\ e.kind = d.kind /\ e.status = d.status /\ e.text = d.text
       /\ d.excused => e.excused
       /\ \/ e.excused
          \/ e.shown = e.text
          \/ e.shown = d.shown /\ ~(task[h].pc = "reply" /\ task[h].n = n)

LEMMA TaskEnds ==
  ASSUME ChatInv, NEW h \in Handlers, task[h].pc # "idle", Ends(h),
         UNCHANGED <<registerVars, clock, mail>>, mishaps' \in 0..MaxMishaps,
         draft' \in Seq(Draft), DOMAIN draft' = DOMAIN draft, Len(draft') = Len(draft),
         \A n \in DOMAIN draft : Rests(h, n)
  PROVE  Fine
  <1>1. ChatTypeOK /\ NoTask \in Task
    BY NoTaskIsTask DEF ChatInv
  <1>2. task'[h] = NoTask /\ \A k \in Handlers \ {h} : task'[k] = task[k]
    BY <1>1 DEF Ends, ChatTypeOK
  <1>3. ChatTypeOK'
    <2>1. task' \in [Handlers -> Task]
      BY <1>1 DEF Ends, ChatTypeOK
    <2>2. RegistersTypeOK'
      BY <1>1 DEF ChatTypeOK, RegistersTypeOK, registerVars
    <2> QED BY <1>1, <2>1, <2>2 DEF ChatTypeOK, Rests
  <1>4. ASSUME NEW k \in Handlers PROVE Aimed(k)' /\ Submits(k)' /\ FreshReply(k)'
    <2>1. CASE k = h
      BY <1>2, <2>1 DEF NoTask, Aimed, Submits, FreshReply, OnRegister, OnDiary
    <2>2. CASE k # h
      <3>1. Aimed(k) /\ Submits(k) /\ FreshReply(k) /\ task'[k] = task[k]
        BY <1>2, <2>2 DEF ChatInv
      <3>2. Aimed(k)'
        BY <3>1 DEF Aimed, OnRegister, OnDiary, Rests
      <3>3. Submits(k)'
        BY <3>1 DEF Aimed, OnRegister, Submits, Rests
      <3>4. FreshReply(k)'
        BY <3>1 DEF Aimed, FreshReply, Rests
      <3> QED BY <3>2, <3>3, <3>4
    <2> QED BY <2>1, <2>2
  <1>5. Solo'
    BY <1>2 DEF ChatInv, Solo, NoTask
  <1>6. ASSUME NEW n \in DOMAIN draft' PROVE Previewed(n)' /\ Listed(n)'
    <2>1. n \in DOMAIN draft /\ Rests(h, n) /\ Previewed(n) /\ Listed(n)
      BY DEF ChatInv
    <2>2. Listed(n)'
      BY <2>1 DEF Listed, Rests
    <2>3. ASSUME draft'[n].status = "awaiting", ~draft'[n].excused, draft'[n].shown # draft'[n].text
          PROVE  \E k \in Handlers : task'[k].pc = "reply" /\ task'[k].n = n
      BY <1>2, <2>1, <2>3 DEF Rests, Previewed
    <2> QED BY <2>2, <2>3 DEF Previewed
  <1>7. SettledAsShown'
    BY DEF ChatInv, SettledAsShown, Rests
  <1>8. \A o \in Office : Permitted(o)'
    BY DEF ChatInv, Permitted, registerVars
  <1>9. Confirms
    BY DEF Confirms, Rests
  <1> QED BY <1>3, <1>4, <1>5, <1>6, <1>7, <1>8, <1>9 DEF ChatInv, Fine

LEMMA ReplyKeeps ==
  ASSUME ChatInv, NEW h \in Handlers, Reply(h)
  PROVE  Fine
  <1>1. /\ task[h].pc = "reply" /\ Ends(h) /\ UNCHANGED <<registerVars, clock, mail, mishaps>>
        /\ draft' = [draft EXCEPT ![task[h].n].shown = task[h].text]
    BY DEF Reply, Aside
  <1>2. PICK n, text : n = task[h].n /\ text = task[h].text
    OBVIOUS
  <1>3. ChatTypeOK /\ task[h] \in Task /\ n \in DOMAIN draft /\ draft[n] \in Draft
    BY <1>1, <1>2, TaskType DEF Aimed
  <1>4. PICK e : e = [draft[n] EXCEPT !.shown = text]
    OBVIOUS
  <1>5. /\ e \in Draft /\ e.shown = text /\ e.kind = draft[n].kind /\ e.text = draft[n].text
        /\ e.status = draft[n].status /\ e.excused = draft[n].excused
    BY <1>2, <1>3, <1>4 DEF Draft, Task
  <1>6. draft' = [draft EXCEPT ![n] = e]
    BY <1>1, <1>2, <1>3, <1>4 DEF ChatTypeOK
  <1>7. draft' \in Seq(Draft) /\ Len(draft') = Len(draft) /\ DOMAIN draft' = DOMAIN draft
    BY <1>3, <1>5, <1>6 DEF ChatTypeOK
  <1>8. ~draft[n].excused => text = draft[n].text
    BY <1>1, <1>2 DEF ChatInv, FreshReply
  <1>9. ASSUME NEW m \in DOMAIN draft PROVE Rests(h, m)
    <2>1. CASE m = n
      BY <1>5, <1>6, <1>8, <2>1 DEF Rests
    <2>2. CASE m # n
      BY <1>2, <1>6, <2>2 DEF Rests
    <2> QED BY <2>1, <2>2
  <1>10. mishaps' \in 0..MaxMishaps
    BY <1>1, <1>3 DEF ChatTypeOK
  <1> QED BY <1>1, <1>7, <1>9, <1>10, TaskEnds

LEMMA MishapType ==
  ASSUME ChatTypeOK, Mishap
  PROVE  mishaps' \in 0..MaxMishaps
  BY ChatConstants DEF ChatTypeOK, ChatConstants, Mishap

LEMMA LostKeeps ==
  ASSUME ChatInv, NEW h \in Handlers, Lost(h)
  PROVE  Fine
  <1>1. /\ task[h].pc # "idle" /\ Ends(h) /\ UNCHANGED <<registerVars, clock, mail>>
        /\ mishaps' \in 0..MaxMishaps
    BY MishapType DEF ChatInv, Lost
  <1>2. ChatTypeOK
    BY DEF ChatInv
  <1>3. CASE task[h].pc # "reply"
    <2>1. draft' = draft
      BY <1>3 DEF Lost
    <2>2. draft' \in Seq(Draft) /\ Len(draft') = Len(draft) /\ DOMAIN draft' = DOMAIN draft
      BY <1>2, <2>1 DEF ChatTypeOK
    <2>3. \A m \in DOMAIN draft : Rests(h, m)
      BY <1>3, <2>1 DEF Rests
    <2> QED BY <1>1, <2>2, <2>3, TaskEnds
  <1>4. CASE task[h].pc = "reply"
    <2>1. PICK n : n = task[h].n
      OBVIOUS
    <2>2. n \in DOMAIN draft /\ draft[n] \in Draft
      BY <1>4, <2>1, TaskType DEF Aimed
    <2>3. PICK e : e = [draft[n] EXCEPT !.excused = TRUE]
      OBVIOUS
    <2>4. /\ e \in Draft /\ e.excused /\ e.kind = draft[n].kind /\ e.text = draft[n].text
          /\ e.status = draft[n].status
      BY <2>2, <2>3 DEF Draft
    <2>5. draft' = [draft EXCEPT ![n] = e]
      BY <1>2, <1>4, <2>1, <2>2, <2>3 DEF Lost, ChatTypeOK
    <2>6. draft' \in Seq(Draft) /\ Len(draft') = Len(draft) /\ DOMAIN draft' = DOMAIN draft
      <3>1. e \in Draft
        BY <2>4
      <3>2. draft \in Seq(Draft)
        BY <1>2 DEF ChatTypeOK
      <3> QED BY <2>2, <2>5, <3>1, <3>2
    <2>7. ASSUME NEW m \in DOMAIN draft PROVE Rests(h, m)
      <3>1. CASE m = n
        BY <2>4, <2>5, <3>1 DEF Rests
      <3>2. CASE m # n
        BY <2>1, <2>5, <3>2 DEF Rests
      <3> QED BY <3>1, <3>2
    <2> QED BY <1>1, <2>6, <2>7, TaskEnds
  <1> QED BY <1>3, <1>4

LEMMA WaitsKeeps ==
  ASSUME ChatInv, NEW n \in DOMAIN draft, Waits(n)
  PROVE  Fine
  <1>1. ChatTypeOK /\ draft[n] \in Draft
    BY DEF ChatInv, ChatTypeOK
  <1>2. PICK age \in {"stale", "lapsed"} :
           age = IF draft[n].age = "fresh" THEN "stale" ELSE "lapsed"
    OBVIOUS
  <1>3. PICK e : e = [draft[n] EXCEPT !.age = age]
    OBVIOUS
  <1>4. /\ e \in Draft /\ e.kind = draft[n].kind /\ e.text = draft[n].text
        /\ e.status = draft[n].status /\ e.shown = draft[n].shown /\ e.excused = draft[n].excused
    BY <1>1, <1>3 DEF Draft
  <1>5. draft' = [draft EXCEPT ![n] = e]
    BY <1>1, <1>2, <1>3 DEF Waits, ChatTypeOK
  <1>6. draft' \in Seq(Draft) /\ Len(draft') = Len(draft) /\ DOMAIN draft' = DOMAIN draft
    BY <1>1, <1>4, <1>5 DEF ChatTypeOK
  <1>7. \A m \in DOMAIN draft :
           /\ draft'[m].kind = draft[m].kind /\ draft'[m].text = draft[m].text
           /\ draft'[m].status = draft[m].status /\ draft'[m].shown = draft[m].shown
           /\ draft'[m].excused = draft[m].excused
    BY <1>4, <1>5
  <1>8. UNCHANGED <<register, office, late, clock, mail, task>> /\ mishaps' \in 0..MaxMishaps
    BY <1>1, MishapType DEF Waits, registerVars
  <1>9. ChatTypeOK'
    BY <1>1, <1>6, <1>7, <1>8 DEF ChatTypeOK, RegistersTypeOK
  <1>10. ASSUME NEW k \in Handlers PROVE Aimed(k)' /\ Submits(k)' /\ FreshReply(k)'
    <2>1. Aimed(k) /\ Submits(k) /\ FreshReply(k) /\ task'[k] = task[k]
      BY <1>8 DEF ChatInv
    <2>2. Aimed(k)'
      BY <1>6, <1>7, <1>8, <2>1 DEF Aimed, OnRegister, OnDiary
    <2>3. Submits(k)'
      BY <1>7, <2>1 DEF Aimed, OnRegister, Submits
    <2>4. FreshReply(k)'
      BY <1>7, <2>1 DEF Aimed, FreshReply
    <2> QED BY <2>2, <2>3, <2>4
  <1>11. Solo' /\ \A o \in Office : Permitted(o)'
    BY <1>8 DEF ChatInv, Solo, Permitted
  <1>12. \A m \in DOMAIN draft' : Previewed(m)' /\ Listed(m)'
    BY <1>6, <1>7, <1>8 DEF ChatInv, Previewed, Listed
  <1>13. SettledAsShown' /\ Confirms
    BY <1>6, <1>7 DEF ChatInv, SettledAsShown, Confirms
  <1> QED BY <1>9, <1>10, <1>11, <1>12, <1>13 DEF ChatInv, Fine

-----------------------------------------------------------------------------
(* Messages.                                                               *)

LEMMA TakesKeeps ==
  ASSUME ChatInv, NEW h \in Handlers, NEW i \in DOMAIN mail', NEW word, Takes(h, i, word),
         mail' \in Seq(Words), DOMAIN mail \subseteq DOMAIN mail', Len(mail') <= MaxMails,
         mishaps' \in 0..MaxMishaps
  PROVE  Fine
  <1>1. ChatTypeOK /\ task \in [Handlers -> Task]
    BY DEF ChatInv, ChatTypeOK
  <1>2. UNCHANGED <<register, office, late, draft, clock>> /\ task[h].pc = "idle"
    BY DEF Takes, registerVars
  <1>3. PICK pc \in {"photo", "offered"} : pc = IF word = "photo" THEN "photo" ELSE "offered"
    OBVIOUS
  <1>4. PICK free \in BOOLEAN : free = \A j \in Handlers : task[j].pc = "idle"
    OBVIOUS
  <1>5. PICK at \in Nat : at = DiaryOpenAt
    <2>1. OpenFor("diary") # 0 => draft[OpenFor("diary")] \in Draft
      BY <1>1, OpenForIsOpen DEF ChatTypeOK
    <2> QED BY <2>1 DEF DiaryOpenAt, Draft
  <1>6. PICK new : new = [NoTask EXCEPT !.pc = pc, !.mail = i, !.diary = at, !.alone = free]
    OBVIOUS
  <1>7. i \in 0..MaxMails
    BY ChatConstants DEF ChatConstants
  <1>8. /\ new \in Task /\ new.pc = pc /\ new.mail = i /\ new.alone = free
    BY <1>6, <1>7, NoTaskIsTask DEF Task, NoTask
  <1>9. task' = [k \in Handlers |-> IF k = h THEN new
                                    ELSE [task[k] EXCEPT !.alone = @ /\ task[k].pc = "idle"]]
    BY <1>3, <1>4, <1>5, <1>6 DEF Takes
  <1>10. task'[h] = new
    BY <1>9
  <1>11. ASSUME NEW k \in Handlers, k # h
         PROVE  /\ task'[k] \in Task /\ task'[k].pc = task[k].pc /\ task'[k].n = task[k].n
                /\ task'[k].mail = task[k].mail /\ task'[k].text = task[k].text
                /\ task'[k].read = task[k].read
                /\ task'[k].alone = (task[k].alone /\ task[k].pc = "idle")
    <2>1. PICK b \in BOOLEAN : b = (task[k].alone /\ task[k].pc = "idle")
      OBVIOUS
    <2>2. task'[k] = [task[k] EXCEPT !.alone = b]
      BY <1>1, <1>9, <1>11, <2>1 DEF Task
    <2>3. task[k] \in Task
      BY <1>1
    <2>4. task'[k] \in Task
      BY <2>2, <2>3 DEF Task
    <2>5. /\ task'[k].pc = task[k].pc /\ task'[k].n = task[k].n
          /\ task'[k].mail = task[k].mail /\ task'[k].text = task[k].text
          /\ task'[k].read = task[k].read /\ task'[k].alone = b
      BY <2>2, <2>3 DEF Task
    <2> QED BY <2>1, <2>4, <2>5
  <1>12. ChatTypeOK'
    <2>1. task' \in [Handlers -> Task]
      <3>1. \A k \in Handlers : task'[k] \in Task
        BY <1>8, <1>10, <1>11
      <3> QED BY <1>9, <3>1
    <2> QED BY <1>1, <1>2, <2>1 DEF ChatTypeOK, RegistersTypeOK
  <1>13. ASSUME NEW k \in Handlers PROVE Aimed(k)' /\ Submits(k)' /\ FreshReply(k)'
    <2>1. CASE k = h
      BY <1>8, <1>10, <2>1 DEF Aimed, Submits, FreshReply, OnRegister, OnDiary
    <2>2. CASE k # h
      <3>1. Aimed(k) /\ Submits(k) /\ FreshReply(k)
        BY DEF ChatInv
      <3>2. Aimed(k)'
        BY <1>2, <1>11, <2>2, <3>1 DEF Aimed, OnRegister, OnDiary
      <3>3. Submits(k)' /\ FreshReply(k)'
        BY <1>2, <1>11, <2>2, <3>1 DEF Submits, FreshReply
      <3> QED BY <3>2, <3>3
    <2> QED BY <2>1, <2>2
  <1>14. Solo'
    <2> SUFFICES ASSUME NEW j \in Handlers, NEW k \in Handlers, j # k,
                        task'[j].pc # "idle", task'[k].pc # "idle"
                 PROVE  ~task'[j].alone
      BY DEF Solo
    <2>1. CASE j = h
      BY <1>4, <1>8, <1>10, <1>11, <2>1
    <2>2. CASE j # h
      BY <1>11, <2>2
    <2> QED BY <2>1, <2>2
  <1>15. ASSUME NEW n \in DOMAIN draft' PROVE Previewed(n)' /\ Listed(n)'
    <2>1. Previewed(n) /\ Listed(n)
      BY <1>2 DEF ChatInv
    <2>2. ASSUME NEW k \in Handlers, task[k].pc = "reply", task[k].n = n
          PROVE  task'[k].pc = "reply" /\ task'[k].n = n
      BY <1>2, <1>11, <2>2
    <2> QED BY <1>2, <2>1, <2>2 DEF Previewed, Listed
  <1>16. SettledAsShown' /\ Confirms /\ \A o \in Office : Permitted(o)'
    BY <1>2 DEF ChatInv, SettledAsShown, Confirms, Permitted
  <1> QED BY <1>12, <1>13, <1>14, <1>15, <1>16 DEF ChatInv, Fine

LEMMA SendsKeeps ==
  ASSUME ChatInv, NEW h \in Handlers, NEW word \in Words, Sends(h, word)
  PROVE  Fine
  <1>1. ChatTypeOK
    BY DEF ChatInv
  <1>2. /\ mail' \in Seq(Words) /\ Len(mail') = Len(mail) + 1 /\ Len(mail) \in Nat
        /\ DOMAIN mail = 1..Len(mail) /\ DOMAIN mail' = 1..(Len(mail) + 1)
    BY <1>1 DEF ChatTypeOK, Sends
  <1>3. /\ Len(mail') <= MaxMails /\ DOMAIN mail \subseteq DOMAIN mail'
        /\ Len(mail) + 1 \in DOMAIN mail'
    BY <1>2, ChatConstants DEF Sends, ChatConstants
  <1>4. mishaps' \in 0..MaxMishaps /\ Takes(h, Len(mail) + 1, word)
    BY <1>1 DEF Sends, ChatTypeOK
  <1> QED BY <1>2, <1>3, <1>4, TakesKeeps

LEMMA RedeliversKeeps ==
  ASSUME ChatInv, NEW h \in Handlers, NEW i \in DOMAIN mail, Redelivers(h, i)
  PROVE  Fine
  <1>1. ChatTypeOK
    BY DEF ChatInv
  <1>2. mail' = mail /\ Takes(h, i, mail[i]) /\ mishaps' \in 0..MaxMishaps
    BY <1>1, MishapType DEF Redelivers
  <1> QED BY <1>1, <1>2, TakesKeeps DEF ChatTypeOK

-----------------------------------------------------------------------------
(* The web.                                                                *)

\* What a request of the web may have made of the register, and of itself.
WebDoes ==
    /\ RegistersTypeOK'
    /\ \A o \in Office : Permitted(o)'
    /\ register.state = "submitted" /\ register' # register
       => \/ register'.overlap
          \/ \E o \in Office : /\ office[o].amend /\ office[o].read.state = "submitted"
                               /\ office'[o].pc = "idle" /\ register'.state # "none"

LEMMA NoWebRequestIsRequest == NoWebRequest \in WebRequest /\ NoRegister \in Register
  <1>1. 0 \in 0..MaxRegisters
    BY ChatConstants DEF ChatConstants
  <1> QED BY <1>1 DEF NoWebRequest, WebRequest, NoRegister, Register, RegisterStates

LEMMA WebOpens ==
  ASSUME ChatInv, NEW amend, Open(amend)
  PROVE  WebDoes
  <1>1. /\ register \in Register /\ office \in [Office -> WebRequest] /\ late \in BOOLEAN
        /\ register' = Opened(register) /\ UNCHANGED <<office, late>>
        /\ register.state = "none" => register.id < MaxRegisters
    BY DEF ChatInv, ChatTypeOK, RegistersTypeOK, Open
  <1>2. PICK g : g = register
    OBVIOUS
  <1>3. Opened(g) \in Register
    BY <1>1, <1>2, OpenedIs
  <1>4. RegistersTypeOK'
    BY <1>1, <1>2, <1>3 DEF RegistersTypeOK
  <1>5. \A o \in Office : Permitted(o)'
    BY <1>1 DEF ChatInv, Permitted
  <1>6. register.state = "submitted" => register' = register
    BY <1>1 DEF Opened
  <1> QED BY <1>4, <1>5, <1>6 DEF WebDoes

LEMMA WebLooks ==
  ASSUME ChatInv, NEW o \in Office, NEW pc \in {"mark", "submit", "reopen", "discard"},
         NEW wanted \in SUBSET Students, NEW amend \in BOOLEAN, LooksUp(o, pc, wanted, amend),
         pc = "mark" /\ register.state = "submitted" => amend,
         pc \in {"submit", "discard"} => register.state = "draft",
         pc = "reopen" => amend /\ register.state = "submitted"
  PROVE  WebDoes
  <1>1. /\ register \in Register /\ office \in [Office -> WebRequest] /\ late \in BOOLEAN
        /\ UNCHANGED <<register, late>>
    BY DEF ChatInv, ChatTypeOK, RegistersTypeOK, LooksUp
  <1>2. PICK new : new = [pc |-> pc, read |-> register, wanted |-> wanted, amend |-> amend]
    OBVIOUS
  <1>3. new \in WebRequest
    BY <1>1, <1>2 DEF WebRequest
  <1>4. office' = [office EXCEPT ![o] = new]
    BY <1>2 DEF LooksUp
  <1>5. RegistersTypeOK'
    BY <1>1, <1>3, <1>4 DEF RegistersTypeOK
  <1>6. ASSUME NEW k \in Office PROVE Permitted(k)'
    <2>1. CASE k = o
      BY <1>1, <1>2, <1>4, <2>1 DEF Permitted
    <2>2. CASE k # o
      BY <1>1, <1>4, <2>2 DEF ChatInv, Permitted
    <2> QED BY <2>1, <2>2
  <1> QED BY <1>1, <1>5, <1>6 DEF WebDoes

LEMMA WebStores ==
  ASSUME ChatInv, NEW o \in Office, NEW pc \in {"mark", "submit", "reopen", "discard"},
         NEW g \in Register, Stores(o, pc, g),
         register.state = "submitted"
         => \/ g.overlap
            \/ office[o].amend /\ office[o].read.state = "submitted" /\ g.state # "none"
  PROVE  WebDoes
  <1>1. /\ register \in Register /\ office \in [Office -> WebRequest] /\ late \in BOOLEAN
        /\ late' = late /\ office' = [office EXCEPT ![o] = NoWebRequest]
        /\ register' = register \/ register' = g
    BY DEF ChatInv, ChatTypeOK, RegistersTypeOK, Stores
  <1>2. RegistersTypeOK'
    BY <1>1, NoWebRequestIsRequest DEF RegistersTypeOK
  <1>3. office'[o].pc = "idle"
    BY <1>1 DEF NoWebRequest
  <1>4. ASSUME NEW k \in Office PROVE Permitted(k)'
    <2>1. CASE k = o
      BY <1>3, <2>1 DEF Permitted
    <2>2. CASE k # o
      BY <1>1, <2>2 DEF ChatInv, Permitted
    <2> QED BY <2>1, <2>2
  <1> QED BY <1>1, <1>2, <1>3, <1>4 DEF WebDoes

LEMMA WebWrites ==
  ASSUME ChatInv, NEW o \in Office,
         MarkWrites(o) \/ SubmitWrites(o) \/ ReopenWrites(o) \/ DiscardWrites(o)
  PROVE  WebDoes
  <1>1. PICK g, read, wanted : g = register /\ read = office[o].read /\ wanted = office[o].wanted
    OBVIOUS
  <1>2. g \in Register /\ read \in Register /\ wanted \in SUBSET Students
    BY <1>1 DEF ChatInv, ChatTypeOK, RegistersTypeOK, WebRequest
  <1>3. Permitted(o)
    BY DEF ChatInv
  <1>4. CASE MarkWrites(o)
    <2>1. PICK m : m = Marked(g, read, wanted)
      OBVIOUS
    <2>2. /\ m \in Register /\ m.state = g.state
          /\ m.overlap = (g.overlap \/ Overlaps(g, read))
      BY <1>2, <2>1, MarkedIs
    <2>3. Stores(o, "mark", m) /\ office[o].pc = "mark"
      BY <1>1, <1>4, <2>1 DEF MarkWrites, Stores
    <2>4. g.state = "submitted" /\ ~m.overlap
          => office[o].amend /\ office[o].read.state = "submitted" /\ m.state # "none"
      BY <1>1, <1>3, <2>2, <2>3 DEF Permitted, Overlaps
    <2> QED BY <1>1, <2>2, <2>3, <2>4, WebStores
  <1>5. CASE SubmitWrites(o)
    <2>1. PICK m : m = Submitted(g, read)
      OBVIOUS
    <2>2. m \in Register /\ m.overlap = (g.overlap \/ Overlaps(g, read))
      BY <1>2, <2>1, SubmittedIs
    <2>3. Stores(o, "submit", m) /\ office[o].pc = "submit"
      BY <1>1, <1>5, <2>1 DEF SubmitWrites, Stores
    <2>4. g.state = "submitted" => m.overlap
      BY <1>1, <1>3, <2>2, <2>3 DEF Permitted, Overlaps
    <2> QED BY <1>1, <2>2, <2>3, <2>4, WebStores
  <1>6. CASE ReopenWrites(o)
    <2>1. PICK m : m = Unsubmitted(g)
      OBVIOUS
    <2>2. m \in Register /\ m.state = "draft"
      BY <1>2, <2>1 DEF Unsubmitted, Register, RegisterStates
    <2>3. Stores(o, "reopen", m) /\ office[o].pc = "reopen"
      BY <1>1, <1>6, <2>1 DEF ReopenWrites, Stores
    <2> QED BY <1>1, <1>3, <2>2, <2>3, WebStores DEF Permitted
  <1>7. CASE DiscardWrites(o)
    <2>1. PICK m : m = Discarded(g, read)
      OBVIOUS
    <2>2. m \in Register /\ m.overlap = Overlaps(g, read)
      <3>1. PICK b \in BOOLEAN : b = Overlaps(g, read)
        BY DEF Overlaps
      <3>2. m = [NoRegister EXCEPT !.id = g.id, !.overlap = b]
        BY <2>1, <3>1 DEF Discarded
      <3> QED BY <1>2, <3>1, <3>2, NoWebRequestIsRequest DEF NoRegister, Register, RegisterStates
    <2>3. Stores(o, "discard", m) /\ office[o].pc = "discard"
      BY <1>1, <1>7, <2>1 DEF DiscardWrites, Stores
    <2>4. g.state = "submitted" => m.overlap
      BY <1>1, <1>3, <2>2, <2>3 DEF Permitted, Overlaps
    <2> QED BY <1>1, <2>2, <2>3, <2>4, WebStores
  <1> QED BY <1>4, <1>5, <1>6, <1>7

LEMMA WebIs ==
  ASSUME ChatInv, WebNext
  PROVE  WebDoes
  <1>1. CASE WindowEnds
    BY <1>1 DEF WindowEnds, WebDoes, ChatInv, ChatTypeOK, RegistersTypeOK, Permitted
  <1>2. ASSUME NEW amend \in BOOLEAN, Open(amend) PROVE WebDoes
    BY <1>2, WebOpens
  <1>3. ASSUME NEW o \in Office, ReopenReads(o) PROVE WebDoes
    BY <1>3, WebLooks DEF ReopenReads
  <1>4. ASSUME NEW o \in Office, NEW amend \in BOOLEAN,
               SubmitReads(o, amend) \/ DiscardReads(o, amend)
        PROVE  WebDoes
    <2>1. register.absent \in SUBSET Students /\ {} \in SUBSET Students
      BY DEF ChatInv, ChatTypeOK, RegistersTypeOK, Register
    <2>2. PICK wanted \in SUBSET Students :
             \/ LooksUp(o, "submit", wanted, amend)
             \/ LooksUp(o, "discard", wanted, amend)
      BY <1>4, <2>1 DEF SubmitReads, DiscardReads
    <2> QED BY <1>4, <2>2, WebLooks DEF SubmitReads, DiscardReads
  <1>5. ASSUME NEW o \in Office, NEW amend \in BOOLEAN, NEW wanted \in SUBSET Students,
               MarkReads(o, amend, wanted)
        PROVE  WebDoes
    BY <1>5, WebLooks DEF MarkReads, MayMark
  <1> QED BY <1>1, <1>2, <1>3, <1>4, <1>5, WebWrites DEF WebNext

LEMMA WebKeeps ==
  ASSUME ChatInv, Web
  PROVE  Fine
  <1>1. WebDoes /\ UNCHANGED <<draft, clock, mail, task>>
    BY WebIs DEF Web
  <1>2. mishaps' \in 0..MaxMishaps
    BY MishapType DEF Web, ChatInv, ChatTypeOK
  <1>3. ChatTypeOK'
    BY <1>1, <1>2 DEF ChatInv, ChatTypeOK, WebDoes
  <1>4. \A h \in Handlers : Aimed(h)' /\ Submits(h)' /\ FreshReply(h)'
    BY <1>1 DEF ChatInv, Aimed, Submits, FreshReply, OnRegister, OnDiary
  <1>5. Solo' /\ SettledAsShown' /\ Confirms /\ \A n \in DOMAIN draft' : Previewed(n)' /\ Listed(n)'
    BY <1>1 DEF ChatInv, Solo, SettledAsShown, Confirms, Previewed, Listed
  <1> QED BY <1>1, <1>3, <1>4, <1>5 DEF ChatInv, Fine, WebDoes

-----------------------------------------------------------------------------
(* Every behaviour.                                                        *)

LEMMA InitChat == ChatInit => ChatInv
  <1> SUFFICES ASSUME ChatInit PROVE ChatInv
    OBVIOUS
  <1>1. /\ register = NoRegister /\ office = [o \in Office |-> NoWebRequest] /\ late = FALSE
        /\ draft = <<>> /\ clock = 0 /\ mail = <<>> /\ task = [h \in Handlers |-> NoTask]
        /\ mishaps = 0
    BY DEF ChatInit, RegistersInit
  <1>2. RegistersTypeOK
    BY <1>1, NoWebRequestIsRequest DEF RegistersTypeOK
  <1>3. /\ draft \in Seq(Draft) /\ Len(draft) = 0 /\ DOMAIN draft = {}
        /\ mail \in Seq(Words) /\ Len(mail) = 0
    BY <1>1
  <1>4. ChatTypeOK
    BY <1>1, <1>2, <1>3, NoTaskIsTask, ChatConstants DEF ChatTypeOK, ChatConstants
  <1>5. \A h \in Handlers : Aimed(h) /\ Submits(h) /\ FreshReply(h)
    BY <1>1 DEF Aimed, Submits, FreshReply, NoTask, OnRegister, OnDiary
  <1>6. Solo /\ SettledAsShown /\ \A n \in DOMAIN draft : Previewed(n) /\ Listed(n)
    BY <1>1, <1>3 DEF Solo, SettledAsShown, NoTask
  <1>7. \A o \in Office : Permitted(o)
    BY <1>1 DEF Permitted, NoWebRequest
  <1> QED BY <1>4, <1>5, <1>6, <1>7 DEF ChatInv

LEMMA NextChat ==
  ASSUME ChatInv, ChatNext
  PROVE  Fine
  BY WebKeeps, WaitsKeeps, OfferedKeeps, NotAListKeeps, NewRegisterKeeps, AnswerKeeps,
     ReviseKeeps, SubmitKeeps, ConfirmedKeeps, PhotoKeeps, TextKeeps, ApplyKeeps, PostsDiaryKeeps,
     ReplyKeeps, LostKeeps, SendsKeeps, RedeliversKeeps DEF ChatNext

LEMMA StillChat ==
  ASSUME ChatInv, UNCHANGED chatVars
  PROVE  ChatInv'
  <1>1. UNCHANGED <<register, office, late, draft, clock, mail, task, mishaps>>
    BY DEF chatVars, registerVars
  <1>2. ChatTypeOK'
    BY <1>1 DEF ChatInv, ChatTypeOK, RegistersTypeOK
  <1>3. \A h \in Handlers : Aimed(h)' /\ Submits(h)' /\ FreshReply(h)'
    BY <1>1 DEF ChatInv, Aimed, Submits, FreshReply, OnRegister, OnDiary
  <1>4. Solo' /\ SettledAsShown' /\ \A n \in DOMAIN draft' : Previewed(n)' /\ Listed(n)'
    BY <1>1 DEF ChatInv, Solo, SettledAsShown, Previewed, Listed
  <1>5. \A o \in Office : Permitted(o)'
    BY <1>1 DEF ChatInv, Permitted
  <1> QED BY <1>2, <1>3, <1>4, <1>5 DEF ChatInv

LEMMA ChatHolds == ChatSpec => []ChatInv
  <1>1. ChatInv /\ [ChatNext]_chatVars => ChatInv'
    BY NextChat, StillChat DEF Fine
  <1> QED BY <1>1, InitChat, PTL DEF ChatSpec

\* Types: drafts, tasks, registers and requests of the web are always well formed, and what
\* waits for an OK, asks for a class or is settled says something.
THEOREM ChatTyped == ChatSpec => []ChatTypeOK
  <1>1. ChatInv => ChatTypeOK
    BY DEF ChatInv
  <1> QED BY <1>1, ChatHolds, PTL

\* What an OK submits or posts is the text the teacher was last shown of that draft, whatever
\* is sent, sent again, lost or left waiting, unless messages were handled at one time or a
\* preview was lost (attendance_agent._submit, diary_agent._post).
THEOREM SettledWasShown == ChatSpec => []SettledAsShown
  <1>1. ChatInv => SettledAsShown
    BY DEF ChatInv
  <1> QED BY <1>1, ChatHolds, PTL

\* A confirmed list is the whole register, unless somebody wrote it at the same time
\* (attendance_agent._write_register).
THEOREM ListIsTheRegister == ChatSpec => RegisterIsTheList
  <1>1. ASSUME ChatInv, [ChatNext]_chatVars
        PROVE  [\A n \in DOMAIN draft :
                  /\ draft[n].kind = "register" /\ draft[n].status # "done"
                  /\ draft'[n].status = "done"
                  => /\ register'.state = "submitted"
                     /\ register'.overlap \/ register'.absent = draft[n].text]_chatVars
    BY <1>1, NextChat DEF Fine, Confirms, InRegister
  <1> QED BY <1>1, ChatHolds, PTL DEF ChatSpec, RegisterIsTheList

LEMMA OthersLeaveRegister ==
  ASSUME ChatInv, ChatNext, register.state = "submitted", register' # register
  PROVE  \/ register'.overlap
         \/ \E o \in Office : /\ office[o].amend /\ office[o].read.state = "submitted"
                              /\ office'[o].pc = "idle" /\ register'.state # "none"
  <1>1. CASE Web
    BY <1>1, WebIs DEF Web, WebDoes
  <1>2. CASE \E h \in Handlers : Confirmed(h)
    BY <1>2, ConfirmedIs
  <1>3. CASE \E n \in DOMAIN draft : Waits(n)
    BY <1>3 DEF Waits, registerVars
  <1>4. ASSUME NEW h \in Handlers,
               \/ Offered(h) \/ NotAList(h) \/ NewRegister(h) \/ Answer(h) \/ Revise(h)
               \/ Submit(h) \/ Photo(h) \/ Text(h) \/ Apply(h) \/ Post(h) \/ Reply(h)
        PROVE  FALSE
    <2>1. Aside
      BY <1>4 DEF Offered, NotAList, NewRegister, Answer, Revise, Submit, Photo, Text, Apply,
                  Post, Reply
    <2> QED BY <2>1 DEF Aside, registerVars
  <1>5. ASSUME NEW h \in Handlers,
               \/ Lost(h) \/ \E word \in Words : Sends(h, word)
               \/ \E i \in DOMAIN mail : Redelivers(h, i)
        PROVE  FALSE
    BY <1>5 DEF Lost, Sends, Redelivers, Takes, registerVars
  <1> QED BY <1>1, <1>2, <1>3, <1>4, <1>5 DEF ChatNext

\* A submitted register changes by the hand of somebody who may amend and had seen it
\* submitted, and is not deleted, however the teacher's messages and the requests of the web
\* follow each other, unless two of them overlapped (attendance/service.py, rules 2 and 3).
THEOREM AmendsOnly == ChatSpec => AmendedNotOverwritten
  <1>1. ASSUME ChatInv, [ChatNext]_chatVars
        PROVE  [register.state = "submitted" /\ register' # register
                => \/ register'.overlap
                   \/ \E o \in Office :
                         /\ office[o].amend /\ office[o].read.state = "submitted"
                         /\ office'[o].pc = "idle" /\ register'.state # "none"]_chatVars
    BY <1>1, OthersLeaveRegister
  <1> QED BY <1>1, ChatHolds, PTL DEF ChatSpec, AmendedNotOverwritten
=============================================================================
