-------------------------- MODULE WeComConnection --------------------------
(***************************************************************************)
(* The WeCom channel (contrib/wecom/channel.py): one socket to the provider *)
(* that is dialled again whenever it is lost, and over it messages sent in  *)
(* parts, attachments uploaded, and approval cards a person answers by a    *)
(* press.  One reader hands each acknowledgement to the request it is for;  *)
(* a heartbeat finds out that a provider has gone silent; one send lock     *)
(* keeps the parts of a message together.                                  *)
(*                                                                         *)
(* A request's frame that reached an open socket may be acted on by the     *)
(* provider at any time after, and what it answers is heard only on that    *)
(* socket.  A call that has it in hand sees it as closed once it has been   *)
(* replaced.                                                                *)
(***************************************************************************)
EXTENDS Integers, Sequences, SequencesExt

CONSTANTS
    Sends,      \* calls of send
    Approvals,  \* calls of request_approval
    Messages,   \* the requests a message may take, each a sequence
    StartTries, \* 6 in the code: failures to connect until the start gives up
    AuthTries,  \* 3 in the code: refusals until the channel gives up
    MaxUpsets   \* bound: what goes wrong with connections and their frames

ASSUME
    BoundsAssumption ==
        /\ Sends \cap Approvals = {} /\ "stop" \notin Sends \cup Approvals
        /\ Messages \subseteq Seq({"text", "upload", "media"})
        /\ {StartTries, AuthTries} \subseteq Nat \ {0} /\ MaxUpsets \in Nat

VARIABLES
    line,    \* callers of the send lock in their order; the first one holds it
    call,    \* where each call is, the requests it has still to make, the socket
             \* it has in hand, parts confirmed, and whether it came after
             \* stop() had answered what was asked
    wire,    \* the frame a call's last request has at the provider
    took,    \* visible parts of a call the provider has taken
    asked,   \* _pending_approvals
    verdict, \* what each approval's future has been given
    chan,    \* the socket of _connection, _ready, _degraded, pings unheard
    run,     \* the runner: where _run is, why it left a connection, its counters
    stop,    \* how far stop() has come
    upsets   \* how much has gone wrong

vars == <<line, call, wire, took, asked, verdict, chan, run, stop, upsets>>
calling == <<line, call, wire, took, asked, verdict>>
connecting == <<chan, run>>

Calls == Sends \cup Approvals
None == "none"
Stopper == "stop"
Card == <<"card">>
Visible == {"text", "media", "card"}
NewCall == [pc |-> None, todo |-> <<>>, sock |-> FALSE, done |-> 0, after |-> FALSE,
            result |-> None]

Init ==
    /\ line = <<>>
    /\ call = [c \in Calls |-> NewCall]
    /\ wire = [c \in Calls |-> None]
    /\ took = [c \in Calls |-> 0]
    /\ asked = {}
    /\ verdict = [c \in Calls |-> None]
    /\ chan = [open |-> FALSE, silent |-> FALSE, ready |-> FALSE, degraded |-> FALSE, unheard |-> 0]
    /\ run = [pc |-> "dial", why |-> None, net |-> 0, auth |-> 0, startup |-> "waiting"]
    /\ stop = None
    /\ upsets = 0

Upset == upsets < MaxUpsets /\ upsets' = upsets + 1
Stopping == stop # None

-----------------------------------------------------------------------------
(* A call between two waits *)

(* connection.closed is false of the socket the call has in hand *)
Open(c) == call[c].sock /\ chan.open
Usable == chan.open /\ chan.ready

Over(a, result) == [a EXCEPT !.pc = "over", !.result = result, !.sock = FALSE]
ClearFailure(a) == Over(a, IF a.done > 0 THEN "partial" ELSE "failed")
UnknownFails(a) == ClearFailure(a)

(* what an outcome nobody knows makes of the request at hand *)
Unknown(a) == IF Head(a.todo) = "upload" THEN ClearFailure(a) ELSE Over(a, "unknown")

(* What a call does next.  A part of its own looks for the connection that   *)
(* is there; the message that carries an upload, and a card, go to the one   *)
(* looked for before.  Either finds out here that the time is up.            *)
Onward(a) ==
    IF a.todo = <<>> THEN {Over(a, "confirmed")}
    ELSE IF Head(a.todo) \notin {"text", "upload"} THEN {[a EXCEPT !.pc = "write"], Unknown(a)}
    ELSE {ClearFailure(a)} \cup IF Usable THEN {[a EXCEPT !.pc = "write", !.sock = TRUE]} ELSE {}

Without(c) == RemoveFirst(line, c)

(* The call has come to `a`; the lock is released with the last request, and *)
(* an approval that was not delivered is forgotten.                          *)
Becomes(c, a) ==
    /\ call' = [call EXCEPT ![c] = a]
    /\ line' = IF a.pc \in {"over", "decide"} THEN Without(c) ELSE line
    /\ asked' = IF a.pc = "over" THEN asked \ {c} ELSE asked

Send(c) ==
    /\ c \in Sends /\ call[c].pc = None
    /\ \E parts \in Messages : call' = [call EXCEPT ![c].pc = "lock", ![c].todo = parts]
    /\ line' = Append(line, c)
    /\ UNCHANGED <<wire, took, asked, verdict, connecting, stop, upsets>>

(* Refused unless the channel is connected: that is not asked of _stopping *)
RequestApproval(c) ==
    /\ c \in Approvals /\ call[c].pc = None
    /\ Usable
    /\ call' = [call EXCEPT ![c].pc = "lock", ![c].todo = Card, ![c].sock = TRUE,
                            ![c].after = Stopping]
    /\ line' = Append(line, c)
    /\ asked' = asked \cup {c}
    /\ UNCHANGED <<wire, took, verdict, connecting, stop, upsets>>

GotLock(c) ==
    /\ call[c].pc = "lock" /\ line # <<>> /\ Head(line) = c
    /\ \E a \in IF "upload" \in {call[c].todo[i] : i \in DOMAIN call[c].todo}
               THEN {[call[c] EXCEPT !.pc = "stage"]} ELSE Onward(call[c]) :
          Becomes(c, a)
    /\ UNCHANGED <<wire, took, verdict, connecting, stop, upsets>>

LockTimesOut(c) ==
    /\ call[c].pc = "lock"
    /\ Becomes(c, ClearFailure(call[c]))
    /\ UNCHANGED <<wire, took, verdict, connecting, stop, upsets>>

Staged(c) ==
    /\ call[c].pc = "stage"
    /\ \E a \in {ClearFailure(call[c])} \cup Onward(call[c]) : Becomes(c, a)
    /\ UNCHANGED <<wire, took, verdict, connecting, stop, upsets>>

Written(c) ==
    /\ call[c].pc = "write" /\ Open(c)
    /\ call' = [call EXCEPT ![c].pc = "ack"]
    /\ wire' = [wire EXCEPT ![c] = "there"]
    /\ UNCHANGED <<line, took, asked, verdict, connecting, stop, upsets>>

(* The socket is closed, or the time is up, with the frame written or not *)
WriteFails(c) ==
    /\ call[c].pc = "write"
    /\ wire' \in {wire} \cup IF Open(c) THEN {[wire EXCEPT ![c] = "there"]} ELSE {}
    /\ Becomes(c, Unknown(call[c]))
    /\ UNCHANGED <<took, verdict, connecting, stop, upsets>>

-----------------------------------------------------------------------------
(* Acknowledgements, and calls that end without *)

Counts(c) == Head(call[c].todo) \in Visible

(* The provider takes the frame and says so, in a form that makes no sense  *)
(* at times, or refuses it                                                  *)
Provides(c) ==
    /\ wire[c] = "there"
    /\ \E answer \in {"taken", "refused", "odd"} :
       /\ answer = "odd" => upsets < MaxUpsets
       /\ upsets' = IF answer = "odd" THEN upsets + 1 ELSE upsets
       /\ wire' = [wire EXCEPT ![c] = answer]
       /\ took' = IF answer # "refused" /\ Counts(c) THEN [took EXCEPT ![c] = @ + 1] ELSE took
    /\ UNCHANGED <<line, call, asked, verdict, connecting, stop>>

(* What a request's answer makes of the call *)
Acknowledged(a, answer) ==
    IF answer = "odd" THEN {Unknown(a)}
    ELSE IF answer = "refused" THEN {ClearFailure(a)}
    ELSE IF a.todo = Card THEN {[a EXCEPT !.pc = "decide"]}
    ELSE Onward([a EXCEPT !.todo = Tail(a.todo),
                          !.done = IF Head(a.todo) \in Visible THEN @ + 1 ELSE @])

Acked(c) ==
    /\ run.pc = "read" /\ Open(c) /\ ~ chan.silent
    /\ call[c].pc = "ack"
    /\ wire[c] \in {"taken", "refused", "odd"}
    /\ wire' = [wire EXCEPT ![c] = None]
    /\ \E a \in Acknowledged(call[c], wire[c]) : Becomes(c, a)
    /\ UNCHANGED <<took, verdict, connecting, stop, upsets>>

AckTimesOut(c) ==
    /\ call[c].pc = "ack"
    /\ Becomes(c, Unknown(call[c]))
    /\ UNCHANGED <<wire, took, verdict, connecting, stop, upsets>>

CancelledHolding(c) ==
    /\ call[c].pc \in {"lock", "stage", "write", "ack", "decide"}
    /\ Upset
    /\ call' = [call EXCEPT ![c] = Over(@, "cancelled")]
    /\ asked' = asked \ {c}
    /\ UNCHANGED <<line, wire, took, verdict, connecting, stop>>

(* Its turn is over: the caller cancels *)
Cancelled(c) ==
    /\ call[c].pc \in {"lock", "stage", "write", "ack", "decide"}
    /\ Upset
    /\ Becomes(c, Over(call[c], "cancelled"))
    /\ UNCHANGED <<wire, took, verdict, connecting, stop>>

(* A press on a card the provider shows comes in as an event.  A card that  *)
(* nobody waits for, or that has been decided, is passed over.              *)
Press(c) ==
    /\ run.pc = "read" /\ chan.open /\ ~ chan.silent
    /\ c \in Approvals /\ took[c] > 0
    /\ c \in asked /\ verdict[c] = None
    /\ \E v \in {"approved", "rejected"} : verdict' = [verdict EXCEPT ![c] = v]
    /\ UNCHANGED <<line, call, wire, took, asked, connecting, stop, upsets>>

Decided(c) ==
    /\ call[c].pc = "decide" /\ verdict[c] # None
    /\ Becomes(c, Over(call[c], verdict[c]))
    /\ UNCHANGED <<wire, took, verdict, connecting, stop, upsets>>

-----------------------------------------------------------------------------
(* The runner *)

Connects ==
    /\ run.pc = "dial"
    /\ chan' = [chan EXCEPT !.open = TRUE, !.silent = FALSE]
    /\ call' = [c \in Calls |-> [call[c] EXCEPT !.sock = FALSE]]
    /\ run' = [run EXCEPT !.pc = "auth"]
    /\ UNCHANGED <<line, wire, took, asked, verdict, stop, upsets>>

(* how _run goes on after _connect_once has raised *)
Refused(r) ==
    LET n == r.auth + 1 IN
    IF r.startup = "waiting" \/ n >= AuthTries
    THEN [r EXCEPT !.pc = "end", !.auth = n, !.startup = "failed"]
    ELSE [r EXCEPT !.pc = "backoff", !.auth = n]

Failed(r) ==
    LET n == r.net + 1 IN
    IF r.startup = "waiting" /\ n >= StartTries
    THEN [r EXCEPT !.pc = "end", !.net = n, !.startup = "failed"]
    ELSE [r EXCEPT !.pc = "backoff", !.net = IF r.startup = "waiting" THEN n ELSE 0]

ConnectFails ==
    /\ run.pc = "dial" /\ Upset
    /\ run' = Failed(run)
    /\ UNCHANGED <<calling, chan, stop>>

Authenticated ==
    /\ run.pc = "auth" /\ chan.open /\ ~ chan.silent
    /\ chan' = [chan EXCEPT !.ready = TRUE, !.unheard = 0]
    /\ run' = [run EXCEPT !.pc = "read", !.startup = "done", !.net = 0]
    /\ UNCHANGED <<calling, stop, upsets>>

(* any first frame but the one that accepts the bot *)
AuthenticationRefused ==
    /\ run.pc = "auth" /\ chan.open /\ ~ chan.silent /\ Upset
    /\ chan' = [chan EXCEPT !.open = FALSE]
    /\ run' = Refused(run)
    /\ UNCHANGED <<calling, stop>>

AuthenticationFails ==
    /\ run.pc = "auth" /\ (~ chan.open \/ chan.silent)
    /\ chan' = [chan EXCEPT !.open = FALSE]
    /\ run' = Failed(run)
    /\ UNCHANGED <<calling, stop, upsets>>

(* The reader leaves its loop: normally only where the channel is stopping  *)
(* or degraded                                                              *)
Leaves(why) == run' = [run EXCEPT !.pc = "leave", !.why = why]

SocketClosed ==
    /\ run.pc = "read" /\ ~ chan.open
    /\ Leaves(IF Stopping \/ chan.degraded THEN "normal" ELSE "lost")
    /\ UNCHANGED <<calling, chan, stop, upsets>>

(* a frame that is not an object, or an error of the reader *)
FrameFails ==
    /\ run.pc = "read" /\ chan.open /\ Upset
    /\ Leaves("lost")
    /\ UNCHANGED <<calling, chan, stop>>

Disconnected ==
    /\ run.pc = "read" /\ chan.open /\ ~ chan.silent /\ Upset
    /\ chan' = [chan EXCEPT !.degraded = TRUE, !.open = FALSE]
    /\ Leaves("normal")
    /\ UNCHANGED <<calling, stop>>

(* A message's pictures are downloaded before the next frame is read *)
FetchStarts ==
    /\ run.pc = "read" /\ chan.open /\ ~ chan.silent /\ Upset
    /\ run' = [run EXCEPT !.pc = "fetch"]
    /\ UNCHANGED <<calling, chan, stop>>

FetchEnds ==
    /\ run.pc = "fetch"
    /\ run' = [run EXCEPT !.pc = "read"]
    /\ chan' = [chan EXCEPT !.unheard = IF chan.open /\ ~ chan.silent THEN 0 ELSE @]
    /\ UNCHANGED <<calling, stop, upsets>>

(* Every call that waits for an acknowledgement, or is about to, is failed: *)
(* only the holder of the lock can be one                                   *)
AcksFailed ==
    LET waiting == {c \in Calls : call[c].pc \in {"write", "ack"}}
        ended == [c \in waiting |-> Unknown(call[c])] IN
    /\ call' = [c \in Calls |-> IF c \in waiting THEN ended[c] ELSE call[c]]
    /\ line' = IF line # <<>> /\ Head(line) \in waiting THEN Tail(line) ELSE line
    /\ asked' = asked \ waiting
    /\ UNCHANGED <<wire, took, verdict>>

Released == [chan EXCEPT !.open = FALSE, !.ready = FALSE, !.silent = FALSE, !.unheard = 0]

(* _release_connection, the socket's own end, and what _run makes of it *)
Releases ==
    /\ run.pc = "leave"
    /\ AcksFailed
    /\ chan' = Released
    /\ run' = IF run.why = "normal"
              THEN [run EXCEPT !.pc = "end", !.why = None, !.net = 0, !.auth = 0]
              ELSE [Failed(run) EXCEPT !.why = None]
    /\ UNCHANGED <<stop, upsets>>

BackoffEnds ==
    /\ run.pc = "backoff"
    /\ run' = [run EXCEPT !.pc = IF Stopping \/ chan.degraded THEN "end" ELSE "dial"]
    /\ UNCHANGED <<calling, chan, stop, upsets>>

BeatsOnly ==
    /\ run.pc \in {"read", "fetch"} /\ chan.open /\ ~ Stopping
    /\ chan.silent \/ run.pc = "fetch"
    /\ chan.unheard < 2
    /\ chan' = [chan EXCEPT !.unheard = @ + 1]
    /\ UNCHANGED <<calling, run, stop, upsets>>

(* A ping every thirty seconds: the third that finds the last one unanswered  *)
(* closes the socket.  A provider that answers does so before the next ping,  *)
(* which leaves the ping unheard only while nobody reads.                     *)
Beats ==
    /\ run.pc \in {"read", "fetch"} /\ chan.open /\ ~ Stopping
    /\ chan.silent \/ run.pc = "fetch"
    /\ chan' = IF chan.unheard = 2 THEN [chan EXCEPT !.open = FALSE]
               ELSE [chan EXCEPT !.unheard = @ + 1]
    /\ UNCHANGED <<calling, run, stop, upsets>>

PeerCloses ==
    /\ chan.open /\ Upset
    /\ chan' = [chan EXCEPT !.open = FALSE]
    /\ UNCHANGED <<calling, run, stop>>

(* The socket stays, but nothing comes in any more *)
PeerFallsSilent ==
    /\ chan.open /\ ~ chan.silent /\ Upset
    /\ chan' = [chan EXCEPT !.silent = TRUE]
    /\ UNCHANGED <<calling, run, stop>>

-----------------------------------------------------------------------------
(* stop() *)

StopForgets ==
    /\ ~ Stopping /\ run.startup # "waiting"
    /\ stop' = "lock"
    /\ asked' = {}
    /\ line' = Append(line, Stopper)
    /\ UNCHANGED <<call, wire, took, verdict, connecting, upsets>>

(* Approvals asked for are answered, then a running request is waited for.  *)
(* start() stands until _startup_finished, and is not modelled beyond that. *)
StopStarts ==
    /\ ~ Stopping /\ run.startup # "waiting"
    /\ stop' = "lock"
    /\ verdict' = [c \in Calls |-> IF c \in asked /\ verdict[c] = None THEN "stopped" ELSE verdict[c]]
    /\ asked' = {}
    /\ line' = Append(line, Stopper)
    /\ UNCHANGED <<call, wire, took, connecting, upsets>>

(* with the lock, or without it when the time is up *)
StopClosesSocket ==
    /\ stop = "lock"
    /\ stop' = "runner"
    /\ line' = Without(Stopper)
    /\ chan' = [chan EXCEPT !.open = FALSE]
    /\ UNCHANGED <<call, wire, took, asked, verdict, run, upsets>>

StopJoins ==
    /\ stop = "runner" /\ run.pc = "end"
    /\ stop' = "done"
    /\ UNCHANGED <<calling, connecting, upsets>>

(* The time is up: the runner is cancelled wherever it is.  A reader lets go *)
(* of its connection; one that is about to do so leaves the rest undone.     *)
StopCancels ==
    /\ stop = "runner" /\ run.pc # "end"
    /\ stop' = "done"
    /\ run' = [run EXCEPT !.pc = "end", !.why = None]
    /\ IF run.pc \in {"read", "fetch"}
       THEN AcksFailed /\ chan' = Released
       ELSE chan' = [chan EXCEPT !.open = FALSE] /\ UNCHANGED calling
    /\ UNCHANGED upsets

-----------------------------------------------------------------------------
(* The specification *)

Goes(c) ==
    \/ GotLock(c) \/ LockTimesOut(c) \/ Staged(c) \/ Written(c) \/ WriteFails(c)
    \/ AckTimesOut(c) \/ Decided(c)

CallNext(c) ==
    \/ Goes(c) \/ Send(c) \/ RequestApproval(c) \/ Cancelled(c)
    \/ Provides(c) \/ Acked(c) \/ Press(c)

RunnerGoes ==
    \/ Connects \/ Authenticated \/ AuthenticationFails \/ SocketClosed \/ FetchEnds
    \/ Releases \/ BackoffEnds \/ Beats

Runner ==
    \/ RunnerGoes \/ ConnectFails \/ AuthenticationRefused \/ FrameFails \/ Disconnected
    \/ FetchStarts \/ PeerCloses \/ PeerFallsSilent

Stop == StopStarts \/ StopClosesSocket \/ StopJoins \/ StopCancels

Next == Runner \/ Stop \/ \E c \in Calls : CallNext(c)

Spec == Init /\ [][Next]_vars

(* Deadlines pass and what is ready runs; the provider takes sockets and says *)
(* when it takes a bot.  Nothing makes it acknowledge, or a person press.    *)
FairSpec ==
    /\ Spec
    /\ \A c \in Calls : WF_vars(Goes(c))
    /\ WF_vars(RunnerGoes)
    /\ WF_vars(StopClosesSocket \/ StopJoins \/ StopCancels)

-----------------------------------------------------------------------------
(* What is to hold *)

Working == {"lock", "stage", "write", "ack"}

TypeOK ==
    /\ line \in Seq(Calls \cup {Stopper})
    /\ call \in [Calls ->
        [pc: Working \cup {None, "decide", "over"}, todo: Seq(Visible \cup {"upload"}),
         sock: BOOLEAN, done: Nat, after: BOOLEAN,
         result: {None, "confirmed", "partial", "failed", "unknown", "cancelled",
                  "approved", "rejected", "stopped"}]]
    /\ wire \in [Calls -> {None, "there", "taken", "refused", "odd"}]
    /\ took \in [Calls -> Nat] /\ asked \in SUBSET Calls
    /\ verdict \in [Calls -> {None, "approved", "rejected", "stopped"}]
    /\ chan \in [open: BOOLEAN, silent: BOOLEAN, ready: BOOLEAN, degraded: BOOLEAN, unheard: 0 .. 2]
    /\ run \in [pc: {"dial", "auth", "read", "fetch", "leave", "backoff", "end"},
                why: {None, "normal", "lost"}, net: 0 .. StartTries, auth: 0 .. AuthTries,
                startup: {"waiting", "done", "failed"}]
    /\ stop \in {None, "lock", "runner", "done"}
    /\ upsets \in 0 .. MaxUpsets

(* What a send reports is what the conversation shows, then and for ever    *)
(* after: all parts of a confirmed message, none of a failed one, and of a  *)
(* partial one as many as were confirmed and not all.  Whatever else may    *)
(* have reached the provider is reported as unknown (channel.py:415, :956), *)
(* through lost sockets, late answers and deadlines.                        *)
OutcomeTrue ==
    TypeOK /\ \A c \in Calls :
        /\ call[c].result \in {"confirmed", "failed", "partial"} => took[c] = call[c].done
        /\ call[c].result = "confirmed" => call[c].todo = <<>>
        /\ call[c].result = "failed" => took[c] = 0
        /\ call[c].result = "partial" => took[c] > 0 /\ call[c].todo # <<>>

(* One call at a time has the socket, the lock is not held by one that is   *)
(* over, and nobody who waits for a decision is out of its reach: a press   *)
(* finds the request, or it has been decided.                               *)
OneAtATime ==
    /\ \A c \in Calls :
        /\ call[c].pc \in Working <=> \E i \in DOMAIN line : line[i] = c
        /\ call[c].pc \in Working \ {"lock"} => Head(line) = c
        /\ call[c].pc \in Working \cup {"decide"} /\ c \in Approvals
              => c \in asked \/ verdict[c] # None
        /\ c \in asked => call[c].pc \in Working \cup {"decide"}
    /\ Stopper \in {line[i] : i \in DOMAIN line} <=> stop = "lock"

(* Every send ends, and every approval whose card was delivered ends with   *)
(* the channel; not one that was asked for while the channel was stopping.  *)
CallsEnd ==
    /\ \A c \in Calls : call[c].pc \in Working ~> call[c].pc \in {"decide", "over"}
    /\ \A c \in Approvals :
        call[c].pc = "decide" /\ Stopping ~> call[c].pc = "over" \/ call[c].after

(* The channel comes back after whatever loses the connection, a provider   *)
(* that falls silent on an open socket included, until it is stopped, is    *)
(* told that another node has its bot, or has been refused too often.       *)
AlwaysBack == []<>((Usable /\ ~ chan.silent) \/ run.pc = "end" \/ Stopping)
=============================================================================
