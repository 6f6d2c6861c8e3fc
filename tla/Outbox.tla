------------------------------- MODULE Outbox -------------------------------
(***************************************************************************)
(* The WhatsApp outbox of a campus (modules/whatsapp): messages are queued *)
(* -- a fee notice once per group and month, an absence alert once per     *)
(* child, day and guardian, custom messages and diaries freely -- and      *)
(* dispatchers post them, one transaction for each.  The office cancels    *)
(* and retries messages, changes a group's invite link and removes it.     *)
(***************************************************************************)
EXTENDS Naturals, Sequences, FiniteSets

CONSTANTS Notices,       \* messages to the group that are queued at most once
          Alerts,        \* messages to one guardian that are queued at most once
          Free,          \* the key of a custom message or a diary
          Dispatchers,   \* send-whatsapp workers and API requests that post at once
          Clerks,        \* office requests in flight
          Limit,         \* WHATSAPP_DISPATCH_BATCH
          MaxRows,       \* bound: messages ever queued
          MaxLinks,      \* bound: invite links of the group
          MaxRequests,   \* bound: requests of the office
          MaxCrashes     \* bound: dispatchers that die or lose the gateway's answer

Keys == Notices \cup Alerts \cup {Free}

ASSUME OutboxConstants == /\ Notices \cap Alerts = {}
                          /\ Free \notin Notices \cup Alerts
                          /\ Limit \in Nat \ {0}
                          /\ MaxRows \in Nat
                          /\ MaxLinks \in Nat \ {0}
                          /\ {MaxRequests, MaxCrashes} \subseteq Nat

VARIABLES row,           \* whatsapp_messages, numbered in the order they were queued
          group,         \* the whatsapp_groups row
          dispatcher,    \* what each dispatcher has in hand
          clerk,         \* what each office request has read
          requests,      \* of the office so far (bound)
          crashes        \* so far (bound)

vars == <<row, group, dispatcher, clerk, requests, crashes>>

Ids == 1..MaxRows
Links == 1..MaxLinks

\* posts: history, posts of the message.  astray: history, one went to another group than
\* the message was queued for.  mishap: history, a dispatcher died after a post, an answer
\* was lost, or an office request overlapped the dispatcher.
Message == [state: {"none", "queued", "sent", "failed", "gone"}, key: Keys, link: 0..MaxLinks,
            posts: Nat, astray: BOOLEAN, mishap: BOOLEAN]
NoMessage == [state |-> "none", key |-> Free, link |-> 0, posts |-> 0, astray |-> FALSE,
              mishap |-> FALSE]

\* chat: the link the stored chat id was resolved from, 0 for none.  raced: history, a
\* request wrote the link or the chat id although what it had read of them was overtaken.
Group == [there: BOOLEAN, link: Links, chat: 0..MaxLinks, raced: BOOLEAN]

\* What an office request has read of the group.
Seen == [link: 0..MaxLinks, chat: 0..MaxLinks]
Nothing == [link |-> 0, chat |-> 0]

\* todo: the ids still to be claimed.  id, chat: the message claimed and the chat id read.
Dispatcher == [pc: {"free", "claimed", "posted", "refused"}, todo: Seq(Ids),
               id: 0..MaxRows, chat: 0..MaxLinks]
Resting == [pc |-> "free", todo |-> <<>>, id |-> 0, chat |-> 0]

\* ids: the messages read, to be written.  link: the group's new link.
Clerk == [pc: {"idle", "cancel", "retry", "unlink", "look"}, ids: SUBSET Ids, link: {0},
          seen: Seen]
         \cup [pc: {"relink"}, ids: {{}}, link: Links, seen: Seen]
Waiting == [pc |-> "idle", ids |-> {}, link |-> 0, seen |-> Nothing]

TypeOK == /\ row \in [Ids -> Message]
          /\ group \in Group
          /\ dispatcher \in [Dispatchers -> Dispatcher]
          /\ clerk \in [Clerks -> Clerk]
          /\ requests \in 0..MaxRequests
          /\ crashes \in 0..MaxCrashes

Init == /\ row = [m \in Ids |-> NoMessage]
        /\ group = [there |-> TRUE, link |-> 1, chat |-> 0, raced |-> FALSE]
        /\ dispatcher = [d \in Dispatchers |-> Resting]
        /\ clerk = [c \in Clerks |-> Waiting]
        /\ requests = 0
        /\ crashes = 0

-----------------------------------------------------------------------------
Present == {m \in Ids : row[m].state \notin {"none", "gone"}}
Queued == {m \in Ids : row[m].state = "queued"}
Unused(m) == \A n \in Ids : row[n].state = "none" <=> n >= m
Locked(m) == \E d \in Dispatchers :
                dispatcher[d].id = m /\ dispatcher[d].pc \in {"claimed", "posted", "refused"}

\* A notice or a diary goes to the group as it is linked now, an alert to a phone.
Written(k) == [NoMessage EXCEPT !.state = "queued", !.key = k,
                                !.link = IF k \in Alerts THEN 0 ELSE group.link]

\* queue_fee_notices, queue_absence_alerts: once, by the partial unique index.
QueueOnce(k) ==
    /\ k \in Notices => group.there
    /\ \A m \in Present : row[m].key # k
    /\ \E m \in Ids : Unused(m) /\ row' = [row EXCEPT ![m] = Written(k)]
    /\ UNCHANGED <<group, dispatcher, clerk, requests, crashes>>

QueueCustom ==
    /\ group.there
    /\ \E m \in Ids : Unused(m) /\ row' = [row EXCEPT ![m] = Written(Free)]
    /\ UNCHANGED <<group, dispatcher, clerk, requests, crashes>>

\* A diary is queued and, by the same request, posted without the rest of the queue.
QueueDiary(d) ==
    /\ group.there
    /\ dispatcher[d] = Resting
    /\ \E m \in Ids : /\ Unused(m)
                      /\ row' = [row EXCEPT ![m] = Written(Free)]
                      /\ dispatcher' = [dispatcher EXCEPT ![d].todo = <<m>>]
    /\ UNCHANGED <<group, clerk, requests, crashes>>

-----------------------------------------------------------------------------
(* dispatch_outbox.                                                        *)

\* Mutant: the oldest messages, whatever became of them.
OldestOfAll(S) ==
    LET older(m) == Cardinality({n \in Present : n < m})
        first == {m \in Present : older(m) < Limit}
    IN [i \in 1..Cardinality(first) |-> CHOOSE m \in first : older(m) = i - 1]

\* The oldest Limit of S, in order.
Oldest(S) == LET older(m) == Cardinality({n \in S : n < m})
                 first == {m \in S : older(m) < Limit}
             IN [i \in 1..Cardinality(first) |-> CHOOSE m \in first : older(m) = i - 1]

Lists(d) == /\ dispatcher[d] = Resting
            /\ Queued # {}
            /\ dispatcher' = [dispatcher EXCEPT ![d].todo = Oldest(Queued)]
            /\ UNCHANGED <<row, group, clerk, requests, crashes>>

\* Mutant: the claim takes no lock.
ClaimableUnlocked(m) == row[m].state = "queued"

\* FOR UPDATE SKIP LOCKED of a message that is still queued.
Claimable(m) == row[m].state = "queued" /\ ~Locked(m)

\* Mutant: the stored chat id is used whatever link it belongs to.
ChatOfGroup(m) == IF group.there /\ row[m].link # 0 THEN group.chat ELSE 0

\* The stored chat id is used only while the group has the link the message was queued for.
ChatOf(m) == IF group.there /\ row[m].link = group.link THEN group.chat ELSE 0

Claim(d) ==
    /\ dispatcher[d].pc = "free"
    /\ dispatcher[d].todo # <<>>
    /\ LET m == Head(dispatcher[d].todo)
           rest == Tail(dispatcher[d].todo)
       IN dispatcher' = [dispatcher EXCEPT ![d] =
             IF Claimable(m) THEN [pc |-> "claimed", todo |-> rest, id |-> m, chat |-> ChatOf(m)]
                             ELSE [@ EXCEPT !.todo = rest]]
    /\ UNCHANGED <<row, group, clerk, requests, crashes>>

\* The transport takes the message, by the chat id or else by the message's own link.
PostedBy(d) == LET to == dispatcher[d].chat
               IN [row[dispatcher[d].id] EXCEPT
                      !.posts = @ + 1, !.astray = @ \/ to \notin {0, row[dispatcher[d].id].link}]

Posts(d) == /\ dispatcher[d].pc = "claimed"
            /\ row' = [row EXCEPT ![dispatcher[d].id] = PostedBy(d)]
            /\ dispatcher' = [dispatcher EXCEPT ![d].pc = "posted"]
            /\ UNCHANGED <<group, clerk, requests, crashes>>

Refused(d) == /\ dispatcher[d].pc = "claimed"
              /\ dispatcher' = [dispatcher EXCEPT ![d].pc = "refused"]
              /\ UNCHANGED <<row, group, clerk, requests, crashes>>

\* The gateway posts the message, but its answer is an error or a timeout.
AnswerLost(d) ==
    /\ dispatcher[d].pc = "claimed"
    /\ crashes < MaxCrashes
    /\ crashes' = crashes + 1
    /\ row' = [row EXCEPT ![dispatcher[d].id] = [PostedBy(d) EXCEPT !.mishap = TRUE]]
    /\ dispatcher' = [dispatcher EXCEPT ![d].pc = "refused"]
    /\ UNCHANGED <<group, clerk, requests>>

\* Mutant: a refusal is not told from a post.
RecordsSent(d) ==
    /\ dispatcher[d].pc \in {"posted", "refused"}
    /\ row' = [row EXCEPT ![dispatcher[d].id].state = "sent"]
    /\ dispatcher' = [dispatcher EXCEPT
                        ![d] = [Resting EXCEPT !.todo = dispatcher[d].todo]]
    /\ UNCHANGED <<group, clerk, requests, crashes>>

\* The outcome is committed, and the lock let go.
Records(d) ==
    /\ dispatcher[d].pc \in {"posted", "refused"}
    /\ row' = [row EXCEPT ![dispatcher[d].id].state =
                  IF dispatcher[d].pc = "posted" THEN "sent" ELSE "failed"]
    /\ dispatcher' = [dispatcher EXCEPT
                        ![d] = [Resting EXCEPT !.todo = dispatcher[d].todo]]
    /\ UNCHANGED <<group, clerk, requests, crashes>>

\* The process dies: the transaction in hand is rolled back, what was posted stays posted.
Crash(d) ==
    /\ dispatcher[d] # Resting
    /\ crashes < MaxCrashes
    /\ crashes' = crashes + 1
    /\ row' = IF dispatcher[d].pc = "posted"
              THEN [row EXCEPT ![dispatcher[d].id].mishap = TRUE] ELSE row
    /\ dispatcher' = [dispatcher EXCEPT ![d] = Resting]
    /\ UNCHANGED <<group, clerk, requests>>

-----------------------------------------------------------------------------
(* The office.                                                             *)

Begins(c, request) ==
    /\ clerk[c].pc = "idle"
    /\ requests < MaxRequests
    /\ requests' = requests + 1
    /\ clerk' = [clerk EXCEPT ![c] = request]
    /\ UNCHANGED <<row, group, dispatcher, crashes>>

Reads(c, pc, ids) == Begins(c, [Waiting EXCEPT !.pc = pc, !.ids = ids])

\* The write waits for the rows' locks and finds what was committed meanwhile.
Writes(c, pc) == /\ clerk[c].pc = pc
                 /\ \A m \in clerk[c].ids : ~Locked(m)
                 /\ clerk' = [clerk EXCEPT ![c] = Waiting]
                 /\ UNCHANGED <<dispatcher, requests, crashes>>

\* cancel_message: refused of a message that was read as sent.
CancelReads(c, m) == m \in Present /\ row[m].state # "sent" /\ Reads(c, "cancel", {m})

\* retry_message: only of a message that was read as failed.
RetryReads(c, m) == row[m].state = "failed" /\ Reads(c, "retry", {m})

\* delete_group: with the group, its messages that were read as queued.
ToGroup == {m \in Queued : row[m].key \notin Alerts}
UnlinkReads(c) == group.there /\ Reads(c, "unlink", ToGroup)

Deleted(S) == [m \in Ids |->
    IF m \in S \cap Present
    THEN [row[m] EXCEPT !.state = "gone", !.mishap = @ \/ row[m].state = "sent"] ELSE row[m]]

CancelWrites(c) == /\ Writes(c, "cancel")
                   /\ row' = Deleted(clerk[c].ids)
                   /\ UNCHANGED group

RetryWrites(c) == /\ Writes(c, "retry")
                  /\ row' = [m \in Ids |->
                        IF m \in clerk[c].ids \cap Present
                        THEN [row[m] EXCEPT !.state = "queued",
                                            !.mishap = @ \/ row[m].state = "sent"]
                        ELSE row[m]]
                  /\ UNCHANGED group

UnlinkWrites(c) == /\ Writes(c, "unlink")
                   /\ row' = Deleted(clerk[c].ids)
                   /\ group' = [group EXCEPT !.there = FALSE]

\* What is known of the group while its row is read, or written and locked.
AsStored == [link |-> group.link, chat |-> group.chat]

ReadsGroup(c, pc, link) ==
    /\ group.there
    /\ Begins(c, [Waiting EXCEPT !.pc = pc, !.link = link, !.seen = AsStored])

\* connection: a group without a chat id is resolved by the link that was read, at the
\* gateway.  The write of a row that was deleted meanwhile fails.
LookReads(c) == group.chat = 0 /\ ReadsGroup(c, "look", 0)
LookWrites(c) ==
    /\ Writes(c, "look")
    /\ group' = IF ~group.there THEN group
                ELSE [group EXCEPT !.chat = clerk[c].seen.link,
                                   !.raced = @ \/ clerk[c].seen.link # group.link]
    /\ UNCHANGED row

\* The row after update_group's flush, which writes the columns that differ from what was
\* read: the new link, and no chat id if the link is new and a chat id was read.
Flushed(c) ==
    LET seen == clerk[c].seen
        isNew == clerk[c].link # seen.link
    IN [link |-> IF isNew THEN clerk[c].link ELSE group.link,
        chat |-> IF isNew /\ seen.chat # 0 THEN 0 ELSE group.chat]

\* update_group: the row is locked by the flush and read again, and a chat id that is missing
\* is resolved by the link it now has, if the gateway answers.
RelinkReads(c) == \E link \in Links : ReadsGroup(c, "relink", link)
RelinkWrites(c) ==
    /\ Writes(c, "relink")
    /\ \E chat \in IF Flushed(c).chat = 0 THEN {0, Flushed(c).link} ELSE {Flushed(c).chat} :
          group' = IF ~group.there THEN group
                   ELSE [group EXCEPT !.link = Flushed(c).link, !.chat = chat,
                                      !.raced = @ \/ clerk[c].seen # AsStored]
    /\ UNCHANGED row

-----------------------------------------------------------------------------
Work(d) == Claim(d) \/ Posts(d) \/ Refused(d) \/ Records(d)

Next == \/ QueueCustom
        \/ \E k \in Notices \cup Alerts : QueueOnce(k)
        \/ \E d \in Dispatchers : \/ QueueDiary(d) \/ Lists(d) \/ Work(d)
                                  \/ AnswerLost(d) \/ Crash(d)
        \/ \E c \in Clerks : \/ UnlinkReads(c) \/ LookReads(c) \/ RelinkReads(c)
                             \/ CancelWrites(c) \/ RetryWrites(c) \/ UnlinkWrites(c)
                             \/ LookWrites(c) \/ RelinkWrites(c)
                             \/ \E m \in Ids : CancelReads(c, m) \/ RetryReads(c, m)

Spec == Init /\ [][Next]_vars

\* send-whatsapp --watch looks again after every pass, and a pass goes on.
FairSpec == Spec /\ \A d \in Dispatchers : WF_vars(Lists(d)) /\ WF_vars(Work(d))

-----------------------------------------------------------------------------
(* Properties                                                              *)

RowsOf(k) == {m \in Ids : row[m].state # "none" /\ row[m].key = k}

\* A month's notice is posted to its group at most once, an alert to its guardian at most
\* once, but for a dispatcher that died after posting, a lost answer or an office request
\* that overlapped a dispatcher (whatsapp/models.py, "cannot post October's reminder to
\* 5-A twice"; queue_absence_alerts, "NEVER TWICE").
PostedOnce ==
    \A k \in Notices \cup Alerts :
        \/ \E m \in RowsOf(k) : row[m].mishap
        \/ \A m, n \in RowsOf(k) : /\ row[m].posts <= 1
                                   /\ row[m].posts = 1 /\ row[n].posts = 1 => m = n

\* The outbox is the history: but for the same mishaps, exactly the messages that were
\* posted are marked sent once no dispatcher holds them, and a sent one stays
\* (whatsapp/models.py, "The outbox AND the history").
HistoryIsTrue ==
    \A m \in Ids : ~row[m].mishap /\ ~Locked(m) =>
        row[m].posts = (IF row[m].state = "sent" THEN 1 ELSE 0)

\* A message goes to the group it was queued for, also when the link changes before it is
\* posted, unless two requests of the office overlapped on the group, so that one wrote the
\* link or the chat id by what it had read before the other (whatsapp/models.py, "A queued
\* message keeps its destination even if the group's link is changed", and of the chat id
\* "cleared whenever the invite link changes, so it can never point at the old group").
PostedWhereQueued == \A m \in Ids : row[m].astray => group.raced

\* A queued message is sent, refused or cancelled in the end, unless the office retries
\* failed messages forever: they are older, and a batch is the oldest.
RetriesEnd == <>[](\A c \in Clerks : clerk[c].pc # "retry")
QueueDrains == RetriesEnd => \A m \in Ids : row[m].state = "queued" ~> row[m].state # "queued"
=============================================================================
