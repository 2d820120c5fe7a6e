---------------------------- MODULE Conversation ----------------------------
(***************************************************************************)
(* The conversations of one agent: the durable log of messages with the    *)
(* review state and the read cursor of every thread (core/storage.py and   *)
(* contrib/sqlite/repository), and the message commands the agent runs     *)
(* against them (core/orchestration/commands/messages.py): check, read,    *)
(* send (a new draft or the draft left behind by a hold) and unfollow.     *)
(*                                                                         *)
(* A command is a coroutine.  Each of its awaits that lets another command *)
(* or an inbound message in is a boundary between two actions; a storage   *)
(* operation is one transaction and therefore one action.                  *)
(***************************************************************************)
EXTENDS Integers, Sequences, FiniteSets, FiniteSetsExt

CONSTANTS
    Threads,      \* the conversations; numbers, since locks are taken in id order
    Groups,       \* the threads whose target is a group chat, the others are DMs
    Cmds,         \* command slots: how many bcc commands may run side by side
    Kinds,        \* the commands the agent gives, of AllKinds
    CheckLimit,   \* how many messages list_messages returns at most (100)
    Results,      \* what a channel may answer to a delivery, of AllResults
    Arrivals,     \* the inbound messages a channel may hand in
    Decisions,    \* the decisions an operator may make
    MaxInbound,   \* bound: messages recorded
    MaxSends,     \* bound: send commands
    MaxRestarts,  \* bound: node restarts
    MaxFailures   \* bound: sends that a failing storage call ends

ASSUME ThreadsAssumption == Threads \subseteq Nat /\ IsFiniteSet(Threads)
ASSUME GroupsAssumption == Groups \subseteq Threads
ASSUME BoundsAssumption == /\ CheckLimit \in Nat \ {0}
                           /\ MaxInbound \in Nat
                           /\ MaxSends \in Nat
                           /\ MaxRestarts \in Nat
                           /\ MaxFailures \in Nat

Free == "free"            \* nobody holds the lock of a thread
NoDraft == 0              \* no draft waits under a key
ASSUME FreeAssumption == Free \notin Cmds

Reviews == {"none", "pending", "approved", "denied"}   \* "none": not opened yet
AllResults == {"accepted", "partial", "lost"}          \* what the channel made of it
AllKinds == {"check", "read", "send", "unfollow"}
ASSUME KindsAssumption == Kinds \subseteq AllKinds
ASSUME ResultsAssumption == Results \subseteq AllResults
ASSUME ArrivalsAssumption ==
    Arrivals \subseteq [thread : Threads, mentions : BOOLEAN, wakes : BOOLEAN,
                        opening : {"pending", "approved"}]
ASSUME DecisionsAssumption == Decisions \subseteq {"approved", "denied"}
Entries == [thread : Threads, inbound : BOOLEAN, notifies : BOOLEAN, readable : BOOLEAN]

VARIABLES
    (* durable *)
    log,          \* the messages table: the index of an entry is its seq
    review,       \* channel_sessions.review per thread
    following,    \* channel_sessions.following per thread
    cursor,       \* consumer_cursors.delivered_through_seq per thread
    (* memory of the node process *)
    snapshot,     \* _freshness_snapshots per thread, 0 when absent
    drafts,       \* _drafts: the draft waiting under each set of threads
    lock,         \* the holder of every thread's lock
    cmd,          \* the coroutine in every slot, a CmdState
    strays,       \* the deliveries that run on though their send has ended
    (* the world outside, and history for the properties *)
    restarts,
    failures,
    sends,        \* send commands started; the number of a draft's first one names it
    settled,      \* the drafts every channel of a send took
    unrecorded,   \* the drafts with a delivery that could not be written down
    told,         \* per thread, the highest seq a returned reply covered
    hushed,       \* and the highest one a command had observed that its reply left out
    drained       \* how often each entry of the log was listed by a check

durable == <<log, review, following, cursor>>
memory  == <<snapshot, drafts, lock, cmd, strays>>
history == <<restarts, failures, sends, settled, unrecorded, told, hushed, drained>>
vars    == <<durable, memory, history>>

Seqs   == [Threads -> Nat]
NoSeqs == [t \in Threads |-> 0]
Keys   == SUBSET Threads \ {{}}

Phases == {"idle", "observe", "reply", "stage", "locking", "look", "transmit", "unfollow"}

CmdState ==
    [pc       : Phases,
     targets  : SUBSET Threads,   \* the threads the command is about
     todo     : SUBSET Threads,   \* those its current phase has not done yet
     draft    : Nat,              \* the draft a send carries
     expected : Seqs,             \* expected_target_seq of a staged thread
     held     : SUBSET Threads,   \* the threads whose look found something new
     answer   : [Threads -> AllResults \cup {"none"}],        \* delivery results
     copy     : [review : Reviews, following : BOOLEAN],      \* the session unfollow resolved
     shown    : Seqs,             \* the seq the command has observed
     mute     : SUBSET Threads,   \* the held threads its reply leaves out
     knew     : Seqs,             \* history: told, when the command began
     basis    : Seqs]             \* history: newest notifying inbound at the last look

Idle == [pc |-> "idle", targets |-> {}, todo |-> {}, draft |-> NoDraft, expected |-> NoSeqs,
         held |-> {}, answer |-> [t \in Threads |-> "none"],
         copy |-> [review |-> "none", following |-> FALSE],
         shown |-> NoSeqs, mute |-> {}, knew |-> NoSeqs, basis |-> NoSeqs]

(* A delivery of the send that was the failures-th to fail                  *)
Strays == [send : Nat, thread : Threads, answer : AllResults \cup {"none"}]

-----------------------------------------------------------------------------
(* The queries of the storage that the commands are built from *)

MaxOrZero(S) == IF S = {} THEN 0 ELSE Max(S)

Inbound(t)   == {i \in 1 .. Len(log) : log[i].thread = t /\ log[i].inbound}
Notifying(t) == {i \in Inbound(t) : log[i].notifies}
Readable(t)  == {i \in 1 .. Len(log) : log[i].thread = t /\ log[i].readable}

LatestInbound(t)   == MaxOrZero(Inbound(t))
LatestNotifying(t) == MaxOrZero(Notifying(t))
LatestReadable(t)  == MaxOrZero(Readable(t))

(* list_messages(after_seq, notifying_only), oldest first, cut at the limit *)
UnreadFromCursor(t) == {i \in Notifying(t) : i >= cursor[t]}
Unread(t) == {i \in Notifying(t) : i > cursor[t]}
Listed(t) == {i \in Unread(t) :
                 Cardinality({j \in Unread(t) : j < i}) < CheckLimit}

(* _observe_freshness, thread by thread: a snapshot never moves back *)
Upto(old, seen) == [t \in Threads |-> IF seen[t] > old[t] THEN seen[t] ELSE old[t]]

-----------------------------------------------------------------------------
Init ==
    /\ log = <<>>
    /\ review = [t \in Threads |-> "none"]
    /\ following = [t \in Threads |-> FALSE]
    /\ cursor = NoSeqs
    /\ snapshot = NoSeqs
    /\ drafts = [k \in Keys |-> NoDraft]
    /\ lock = [t \in Threads |-> Free]
    /\ cmd = [c \in Cmds |-> Idle]
    /\ strays = {}
    /\ restarts = 0
    /\ failures = 0
    /\ sends = 0
    /\ settled = {}
    /\ unrecorded = {}
    /\ told = NoSeqs
    /\ hushed = NoSeqs
    /\ drained = <<>>

-----------------------------------------------------------------------------
(* What reaches the storage from outside the commands *)

(* _inbound_channel_session: a first message opens the conversation as the  *)
(* policy decides, one turned away who writes again is asked about again,   *)
(* and a mention makes the agent follow a group.                            *)
ReviewAfter(a) ==
    CASE review[a.thread] = "none"   -> a.opening
      [] review[a.thread] = "denied" -> "pending"
      [] OTHER                       -> review[a.thread]

FollowingAfter(a) ==
    \/ a.mentions
    \/ review[a.thread] = "none" /\ a.thread \notin Groups
    \/ review[a.thread] # "none" /\ following[a.thread]

(* A conversation not approved is kept quiet, mentioned or not *)
WakesAgent(a) ==
    /\ a.wakes
    /\ ReviewAfter(a) = "approved"
    /\ a.thread \notin Groups \/ FollowingAfter(a)

(* record_inbound, one transaction.  A message handed in again finds its    *)
(* row and changes nothing, so only new ones are a step.                    *)
RecordInbound(a) ==
    /\ Cardinality({i \in 1 .. Len(log) : log[i].inbound}) < MaxInbound
    /\ review' = [review EXCEPT ![a.thread] = ReviewAfter(a)]
    /\ following' = [following EXCEPT ![a.thread] = FollowingAfter(a)]
    /\ log' = Append(log, [thread |-> a.thread, inbound |-> TRUE,
                           notifies |-> WakesAgent(a), readable |-> TRUE])
    /\ drained' = Append(drained, 0)
    /\ UNCHANGED <<cursor, memory, restarts, failures, sends, settled, unrecorded,
                   told, hushed>>

(* review_contact: the operator's decision, stored under the thread's lock *)
ReviewContact(t, decision) ==
    /\ review[t] # "none"
    /\ lock[t] = Free
    /\ review' = [review EXCEPT ![t] = decision]
    /\ UNCHANGED <<log, following, cursor, memory, history>>

(* The node stops, cleanly or not, and starts again: what was in memory is *)
(* gone, and so are the commands that were running.                        *)
Restart ==
    /\ restarts < MaxRestarts
    /\ restarts' = restarts + 1
    /\ snapshot' = NoSeqs
    /\ drafts' = [k \in Keys |-> NoDraft]
    /\ lock' = [t \in Threads |-> Free]
    /\ cmd' = [c \in Cmds |-> Idle]
    /\ strays' = {}
    /\ UNCHANGED <<durable, failures, sends, settled, unrecorded, told, hushed, drained>>

-----------------------------------------------------------------------------
(* bcc message check, bcc message read *)

(* The transaction of check_messages over every conversation the agent may *)
(* read: list what is unread, and put the cursor on the newest inbound.     *)
CheckMessages(c) ==
    LET reach  == {t \in Threads : review[t] = "approved"}
        listed == UNION {Listed(t) : t \in reach}
        latest == [t \in Threads |-> IF t \in reach THEN LatestInbound(t) ELSE 0]
    IN  /\ "check" \in Kinds
        /\ cmd[c].pc = "idle"
        /\ reach # {}
        /\ cursor' = [t \in Threads |-> IF t \in reach THEN latest[t] ELSE cursor[t]]
        /\ drained' = [i \in DOMAIN drained |-> drained[i] + (IF i \in listed THEN 1 ELSE 0)]
        /\ cmd' = [cmd EXCEPT ![c] = [Idle EXCEPT !.pc = "observe", !.targets = reach,
                                                  !.shown = latest]]
        /\ UNCHANGED <<log, review, following, snapshot, drafts, lock, strays,
                       restarts, failures, sends, settled, unrecorded, told, hushed>>

(* read_messages: one snapshot read of an approved conversation *)
ReadMessages(c, t) ==
    /\ "read" \in Kinds
    /\ cmd[c].pc = "idle"
    /\ review[t] = "approved"
    /\ cmd' = [cmd EXCEPT ![c] = [Idle EXCEPT !.pc = "observe", !.targets = {t},
                                     !.shown = [NoSeqs EXCEPT ![t] = LatestReadable(t)]]]
    /\ UNCHANGED <<durable, snapshot, drafts, lock, strays, history>>

(* The continuation after the storage answered a check or a read *)
Observe(c) ==
    /\ cmd[c].pc = "observe"
    /\ snapshot' = Upto(snapshot, cmd[c].shown)
    /\ cmd' = [cmd EXCEPT ![c].pc = "reply"]
    /\ UNCHANGED <<durable, drafts, lock, strays, history>>

(* The reply of a command reaches the agent, and the slot is free again.    *)
(* It tells of all the command observed, but of one hold at the most.       *)
Within(seen, T) == [t \in Threads |-> IF t \in T THEN seen[t] ELSE 0]

Reply(c) ==
    /\ cmd[c].pc = "reply"
    /\ told' = Upto(told, Within(cmd[c].shown, Threads \ cmd[c].mute))
    /\ hushed' = Upto(hushed, Within(cmd[c].shown, cmd[c].mute))
    /\ cmd' = [cmd EXCEPT ![c] = Idle]
    /\ UNCHANGED <<durable, snapshot, drafts, lock, strays,
                   restarts, failures, sends, settled, unrecorded, drained>>

-----------------------------------------------------------------------------
(* bcc message send *)

(* Resolve the name the caller gave to its conversations, refuse unless all *)
(* are approved, and take up the draft: a new one replaces what waited.     *)
SendStarts(c, k, d) ==
    /\ "send" \in Kinds
    /\ cmd[c].pc = "idle"
    /\ sends < MaxSends
    /\ \A t \in k : review[t] = "approved"
    /\ sends' = sends + 1
    /\ cmd' = [cmd EXCEPT ![c] = [Idle EXCEPT !.pc = "stage", !.targets = k, !.todo = k,
                                              !.draft = d, !.knew = told]]
    /\ UNCHANGED <<durable, snapshot, lock, strays,
                   restarts, failures, settled, unrecorded, told, hushed, drained>>

SendNew(c, k) ==
    /\ drafts' = [drafts EXCEPT ![k] = sends + 1]
    /\ SendStarts(c, k, sends + 1)

SendDraft(c, k) ==
    /\ drafts[k] # NoDraft
    /\ SendStarts(c, k, drafts[k])
    /\ UNCHANGED drafts

(* Nothing in thread t is newer than seq (check_outbound_freshness) *)
FreshButOne(t, seq) == LatestNotifying(t) <= seq + 1
Fresh(t, seq) == LatestNotifying(t) <= seq

(* Thread t is done: on with the phase, or into the next with every target *)
Onward(s, t, next) ==
    IF s.todo = {t} THEN [s EXCEPT !.todo = s.targets, !.pc = next]
                    ELSE [s EXCEPT !.todo = s.todo \ {t}]

(* After the last thread is staged the send ends when any of them is held *)
Staged(s, t) == Onward(s, t, IF s.held = {} THEN "locking" ELSE "reply")

(* The look at thread t found something newer, up to seq.  The reply shows  *)
(* the first hold of a broadcast (`hold = hold or settled`).                *)
Holding(s, t, seq) ==
    [s EXCEPT !.held = s.held \cup {t}, !.shown = [s.shown EXCEPT ![t] = seq],
              !.mute = IF s.held = {} THEN {} ELSE s.mute \cup {t}]

(* _stage_draft, under the thread's lock: nothing newer than the snapshot *)
StagePasses(c, t) ==
    /\ cmd[c].pc = "stage" /\ t \in cmd[c].todo /\ lock[t] = Free
    /\ Fresh(t, snapshot[t])
    /\ cmd' = [cmd EXCEPT ![c] =
           Staged([cmd[c] EXCEPT !.expected = [@ EXCEPT ![t] = LatestNotifying(t)]], t)]
    /\ UNCHANGED <<durable, snapshot, drafts, lock, strays, history>>

(* _stage_draft finds something newer: the hold is observed, the draft stays *)
StageHolds(c, t) ==
    /\ cmd[c].pc = "stage" /\ t \in cmd[c].todo /\ lock[t] = Free
    /\ ~ Fresh(t, snapshot[t])
    /\ snapshot' = [snapshot EXCEPT ![t] = LatestNotifying(t)]
    /\ cmd' = [cmd EXCEPT ![c] = Staged(Holding(cmd[c], t, LatestNotifying(t)), t)]
    /\ UNCHANGED <<durable, drafts, lock, strays, history>>

InAnyOrder(s, t) == t \in s.todo
InIdOrder(s, t) == t \in s.todo /\ \A u \in s.todo : t <= u

(* _deliver takes the locks of all its threads, in the order of their ids *)
TakeLock(c, t) ==
    /\ cmd[c].pc = "locking" /\ InIdOrder(cmd[c], t)
    /\ lock[t] = Free
    /\ lock' = [lock EXCEPT ![t] = c]
    /\ cmd' = [cmd EXCEPT ![c] = Onward(cmd[c], t, "look")]
    /\ UNCHANGED <<durable, snapshot, drafts, strays, history>>

ReleasedOne(c) == [t \in Threads |-> IF lock[t] = c /\ \E u \in Threads : u < t
                                      THEN Free ELSE lock[t]]
Released(c) == [t \in Threads |-> IF lock[t] = c THEN Free ELSE lock[t]]

(* materialize_outbound_if_fresh: the last look, thread after thread *)
LookPasses(c, t) ==
    /\ cmd[c].pc = "look" /\ t \in cmd[c].todo
    /\ Fresh(t, cmd[c].expected[t])
    /\ cmd' = [cmd EXCEPT ![c] =
           Onward([cmd[c] EXCEPT !.basis = [@ EXCEPT ![t] = LatestNotifying(t)]], t, "transmit")]
    /\ UNCHANGED <<durable, snapshot, drafts, lock, strays, history>>

LookHolds(c, t) ==
    /\ cmd[c].pc = "look" /\ t \in cmd[c].todo
    /\ ~ Fresh(t, cmd[c].expected[t])
    /\ snapshot' = [snapshot EXCEPT ![t] =
                       IF LatestNotifying(t) > @ THEN LatestNotifying(t) ELSE @]
    /\ lock' = Released(c)
    /\ cmd' = [cmd EXCEPT ![c] = [Holding(cmd[c], t, LatestNotifying(t)) EXCEPT !.pc = "reply"]]
    /\ UNCHANGED <<durable, drafts, strays, history>>

(* The channel is given the message, side by side for every thread.  With  *)
(* "accepted" (sent, queued) and "partial" the peer has it.                 *)
Transmit(c, t, result) ==
    /\ cmd[c].pc = "transmit" /\ t \in cmd[c].todo
    /\ cmd[c].answer[t] = "none"
    /\ cmd' = [cmd EXCEPT ![c].answer = [@ EXCEPT ![t] = result]]
    /\ UNCHANGED <<durable, snapshot, drafts, lock, strays, history>>

ReachedThePeer(answer) == answer \in {"accepted", "partial"}

(* finalize_outbound_delivery: what reached the peer is written down *)
WrittenDown(t, answer) ==
    IF ReachedThePeer(answer)
    THEN /\ log' = Append(log, [thread |-> t, inbound |-> FALSE, notifies |-> FALSE,
                                readable |-> answer = "accepted"])
         /\ drained' = Append(drained, 0)
    ELSE UNCHANGED <<log, drained>>

Finalize(c, t) ==
    /\ cmd[c].pc = "transmit" /\ t \in cmd[c].todo
    /\ cmd[c].answer[t] # "none"
    /\ WrittenDown(t, cmd[c].answer[t])
    /\ cmd' = [cmd EXCEPT ![c].todo = @ \ {t}]
    /\ UNCHANGED <<review, following, cursor, snapshot, drafts, lock, strays,
                   restarts, failures, sends, settled, unrecorded, told, hushed>>

TookAll(s) == \A t \in s.targets : s.answer[t] = "accepted"

(* The draft goes when every channel took it and it still is the one that waits *)
DraftsAfterAny(s) == IF TookAll(s) THEN [drafts EXCEPT ![s.targets] = NoDraft] ELSE drafts
DraftsAfterNone(s) == drafts
DraftsAfter(s) == IF TookAll(s) /\ drafts[s.targets] = s.draft
                  THEN [drafts EXCEPT ![s.targets] = NoDraft] ELSE drafts

(* Every conversation has answered: the locks go, and so may the draft *)
SendEnds(c) ==
    /\ cmd[c].pc = "transmit" /\ cmd[c].todo = {}
    /\ lock' = Released(c)
    /\ drafts' = DraftsAfter(cmd[c])
    /\ settled' = IF TookAll(cmd[c]) THEN settled \cup {cmd[c].draft} ELSE settled
    /\ cmd' = [cmd EXCEPT ![c].pc = "reply"]
    /\ UNCHANGED <<durable, snapshot, strays,
                   restarts, failures, sends, unrecorded, told, hushed, drained>>

(* A storage call of a send fails, and with it the send: its locks go, the  *)
(* draft waits on, and the agent is shown an error and no hold.             *)
SendFails(c) ==
    /\ failures < MaxFailures
    /\ failures' = failures + 1
    /\ lock' = Released(c)
    /\ UNCHANGED <<durable, snapshot, drafts, restarts, sends, told, hushed, drained>>

(* _stage_draft or materialize_outbound_if_fresh: nothing has been sent     *)
LookFails(c) ==
    /\ \/ cmd[c].pc = "stage" /\ \E t \in cmd[c].todo : lock[t] = Free
       \/ cmd[c].pc = "look"
    /\ SendFails(c)
    /\ cmd' = [cmd EXCEPT ![c] = [@ EXCEPT !.pc = "reply", !.mute = cmd[c].held]]
    /\ UNCHANGED <<strays, settled, unrecorded>>

(* finalize_outbound_delivery, of one delivery that reached its peer.  Those *)
(* gathered with it go on without anyone to wait for them.                  *)
FinalizeFails(c, t) ==
    /\ cmd[c].pc = "transmit" /\ t \in cmd[c].todo
    /\ ReachedThePeer(cmd[c].answer[t])
    /\ SendFails(c)
    /\ strays' = strays \cup {[send |-> failures', thread |-> u, answer |-> cmd[c].answer[u]] :
                                u \in cmd[c].todo \ {t}}
    /\ settled' = IF TookAll(cmd[c]) THEN settled \cup {cmd[c].draft} ELSE settled
    /\ unrecorded' = unrecorded \cup {cmd[c].draft}
    /\ cmd' = [cmd EXCEPT ![c] = [@ EXCEPT !.pc = "reply", !.todo = {}]]

(* Such a delivery ends: what came of it is written down, or that fails     *)
(* too and nobody hears of it                                               *)
StrayEnds(s, answer) ==
    /\ s.answer \in {"none", answer}
    /\ WrittenDown(s.thread, answer) \/ UNCHANGED <<log, drained>>
    /\ strays' = strays \ {s}
    /\ UNCHANGED <<review, following, cursor, snapshot, drafts, lock, cmd,
                   restarts, failures, sends, settled, unrecorded, told, hushed>>

-----------------------------------------------------------------------------
(* bcc thread unfollow *)

(* The target is resolved, and with it the channel session, before the lock *)
UnfollowResolves(c, t) ==
    /\ "unfollow" \in Kinds
    /\ cmd[c].pc = "idle"
    /\ review[t] = "approved"
    /\ cmd' = [cmd EXCEPT ![c] = [Idle EXCEPT !.pc = "unfollow", !.targets = {t},
                   !.copy = [review |-> review[t], following |-> following[t]]]]
    /\ UNCHANGED <<durable, snapshot, drafts, lock, strays, history>>

(* Under the lock the whole resolved session is saved, unfollowed *)
UnfollowSaves(c, t) ==
    /\ cmd[c].pc = "unfollow" /\ t \in cmd[c].targets /\ lock[t] = Free
    /\ IF t \in Groups /\ cmd[c].copy.following
       THEN /\ following' = [following EXCEPT ![t] = FALSE]
            /\ review' = [review EXCEPT ![t] = cmd[c].copy.review]
       ELSE UNCHANGED <<following, review>>
    /\ cmd' = [cmd EXCEPT ![c].pc = "reply"]
    /\ UNCHANGED <<log, cursor, snapshot, drafts, lock, strays, history>>

-----------------------------------------------------------------------------
Outside ==
    \/ \E a \in Arrivals : RecordInbound(a)
    \/ \E t \in Threads, d \in Decisions : ReviewContact(t, d)
    \/ Restart
    \/ \E s \in strays, r \in Results : StrayEnds(s, r)

(* The steps that carry a command from its beginning to its reply *)
Proceed(c) ==
    \/ Observe(c)
    \/ Reply(c)
    \/ \E t \in Threads :
          \/ StagePasses(c, t) \/ StageHolds(c, t)
          \/ TakeLock(c, t)
          \/ LookPasses(c, t) \/ LookHolds(c, t)
          \/ \E r \in Results : Transmit(c, t, r)
          \/ Finalize(c, t)
          \/ UnfollowSaves(c, t)
    \/ SendEnds(c)

Begin(c) ==
    \/ CheckMessages(c)
    \/ \E t \in Threads : ReadMessages(c, t) \/ UnfollowResolves(c, t)
    \/ \E k \in Keys : SendNew(c, k) \/ SendDraft(c, k)

Fails(c) == LookFails(c) \/ \E t \in Threads : FinalizeFails(c, t)

Next == Outside \/ \E c \in Cmds : Begin(c) \/ Proceed(c) \/ Fails(c)

Spec == Init /\ [][Next]_vars

(* A coroutine that can go on is resumed by the event loop; nothing makes   *)
(* the agent, the peers or the operator do anything.                        *)
FairSpec == Spec /\ \A c \in Cmds : WF_vars(Proceed(c))

-----------------------------------------------------------------------------
(* Properties *)

TypeOK ==
    /\ log \in Seq(Entries)
    /\ review \in [Threads -> Reviews]
    /\ following \in [Threads -> BOOLEAN]
    /\ cursor \in Seqs
    /\ snapshot \in Seqs
    /\ drafts \in [Keys -> Nat]
    /\ lock \in [Threads -> Cmds \cup {Free}]
    /\ cmd \in [Cmds -> CmdState]
    /\ strays \subseteq Strays
    /\ restarts \in Nat
    /\ failures \in Nat
    /\ sends \in Nat
    /\ settled \subseteq Nat
    /\ unrecorded \subseteq Nat
    /\ told \in Seqs
    /\ hushed \in Seqs
    /\ drained \in [1 .. Len(log) -> Nat]

(* What goes out was looked at: once a send transmits, the newest notifying *)
(* inbound that its last look found in each conversation is one that this   *)
(* process has already put before the agent as a look, a hold or a check    *)
(* (_stage_draft and materialize_outbound_if_fresh against the snapshots).  *)
SentOnAKnownConversation ==
    \A c \in Cmds : cmd[c].pc = "transmit" =>
        \A t \in cmd[c].targets : cmd[c].basis[t] <= snapshot[t]

(* "Something new in any of them holds the whole while nothing has been     *)
(* sent yet" (_deliver): a send that reports a hold gave nothing away, and  *)
(* it keeps no lock once it is about to reply.                              *)
HoldSendsNothing ==
    \A c \in Cmds : cmd[c].held # {} =>
        /\ \A t \in Threads : cmd[c].answer[t] = "none"
        /\ cmd[c].pc = "reply" => c \notin {lock[t] : t \in Threads}

(* Why both hold: what one send has settled so far, against the snapshots. *)
(* Inductive together with TypeOK; proved so in ConversationProofs.         *)
Delivering == {"locking", "look", "transmit"}

SendInv(s, snap) ==
    /\ s.todo \subseteq s.targets
    /\ s.pc = "stage" =>
          \A t \in s.targets \ (s.todo \cup s.held) : s.expected[t] <= snap[t]
    /\ s.pc \in Delivering =>
          s.held = {} /\ \A t \in s.targets : s.expected[t] <= snap[t]
    /\ s.pc = "look" =>
          \A t \in s.targets \ s.todo : s.basis[t] <= s.expected[t]
    /\ s.pc = "transmit" =>
          \A t \in s.targets : s.basis[t] <= s.expected[t]
    /\ s.pc \in {"stage", "locking", "look"} \/ s.held # {} =>
          \A t \in Threads : s.answer[t] = "none"
    /\ s.held # {} => s.pc \in {"stage", "reply"}

FreshnessInv == \A c \in Cmds : SendInv(cmd[c], snapshot)
LockInv == \A t \in Threads : lock[t] # Free => cmd[lock[t]].pc \in Delivering

(* A draft is dropped only by a send that carried this very draft and whose *)
(* channels all took it; a draft composed meanwhile stays (_send, l. 841),  *)
(* until the process ends.                                                  *)
OnlyTakenDraftsGo ==
    [][\A k \in Keys : drafts[k] # NoDraft /\ drafts'[k] = NoDraft =>
          \/ restarts' # restarts
          \/ drafts[k] \in settled']_vars

(* A message behind the read cursor was listed by exactly one check, of     *)
(* whichever command and on whichever side of a restart.  The exception is  *)
(* one that was cut off: a whole listing of older messages of its           *)
(* conversation went out before it, and the cursor passed it over.          *)
ListedOnceOrCut ==
    \A t \in Threads : \A i \in Notifying(t) :
        /\ drained[i] <= 1
        /\ i <= cursor[t] /\ drained[i] = 0 =>
              Cardinality({j \in Notifying(t) : j < i /\ drained[j] > 0}) >= CheckLimit

(* A send answers only a conversation the agent knew when it gave the       *)
(* command: a reply returned before then covers all its last look found     *)
(* (_stage_draft: "Settle that nothing arrived in this conversation while   *)
(* the draft was written").  The exception is a message that a hold put     *)
(* into the snapshots while the reply showed another hold of the broadcast, *)
(* or none because the send failed: the next send goes out without it       *)
(* having been told.                                                        *)
NothingArrivedWhileWriting ==
    \A c \in Cmds : cmd[c].pc = "transmit" =>
        \A t \in cmd[c].targets :
            cmd[c].basis[t] <= cmd[c].knew[t] \/ cmd[c].basis[t] <= hushed[t]

(* A draft that every channel of a send took is not given to a channel      *)
(* again.  The exception is one with a delivery that reached its peer and   *)
(* could not be written down: finalize_outbound_delivery raises, the send   *)
(* ends before it drops the draft (_send, l. 841), and the next attempt     *)
(* delivers it once more, beside what the first one still has on its way.   *)
SettledDraftNotResent ==
    [][\A c \in Cmds : \A t \in Threads :
          cmd[c].answer[t] = "none" /\ cmd'[c].answer[t] # "none" =>
             cmd[c].draft \notin settled \ unrecorded]_vars

(* Every command comes to its reply: the locks, taken in id order by every  *)
(* send, never leave two commands waiting for each other, and a hold or a   *)
(* failed delivery leaves none behind.                                      *)
CommandsEnd == \A c \in Cmds : cmd[c].pc # "idle" ~> cmd[c].pc = "idle"
=============================================================================
