------------------------------- MODULE WsFeed -------------------------------
(***************************************************************************)
(* The live WebSocket feed (dl-feed/src/ws_feed.rs).  A WsFeed is a pair:  *)
(* the caller's thread, which polls events and awaits subscriptions, and a *)
(* task that owns the socket.  They share a bounded event channel and a    *)
(* command channel.  The reply to a subscription travels through a table   *)
(* of oneshot senders that is one for the whole process, keyed by request  *)
(* ids that each task counts from zero.                                    *)
(*                                                                         *)
(* The caller is the loop of dl-app/src/main.rs:1072-1226, one thread that *)
(* blocks in subscribe_* between its next_event calls.                     *)
(***************************************************************************)
EXTENDS Naturals, Sequences, Functions

CONSTANTS
    Feeds,          \* the WsFeed instances of the process
    Accounts,       \* what may be subscribed to
    Programs,       \* those of them subscribed to as programs
    Capacity,       \* DEFAULT_EVENT_CAPACITY
    Disconnects,    \* may the connection be lost?
    MaxReq,         \* bound: subscribe calls of each feed
    MaxNotes        \* bound: notifications of each connection

ASSUME WsAssumption ==
    Capacity \in Nat \ {0} /\ Programs \subseteq Accounts /\ Disconnects \in BOOLEAN
    /\ MaxReq \in Nat /\ MaxNotes \in Nat

Ids == 0 .. MaxReq

VARIABLES
    \* the caller
    caller,     \* "idle", "waiting" for a reply, or "gone"
    want,       \* the account its last subscribe asked for
    reply,      \* what that subscribe returned
    got,        \* the events next_event returned, in order
    exhausted,  \* the sticky end-of-stream flag
    \* between caller and task
    cmds,       \* the command channel
    events,     \* the event channel
    table,      \* pending_replies(): the callers a request id stands for
    \* the task
    task,       \* "select", "blocked" in events.send, or "gone"
    held,       \* the event it is blocked on
    nextId,     \* next_id
    pending,    \* requests waiting for a response: <<id, account>>
    subs,       \* requests confirmed, which stand for their subscription ids
    \* the RPC node and the socket
    up, down,   \* messages to and from the node
    served,     \* requests the node accepted and has not answered
    feeding,    \* requests accepted and not refused: what it notifies of
    notes,      \* notifications sent on the connection, numbered from 1
    dropped     \* history: the notifications the task threw away

callerVars == <<caller, want, reply, got, exhausted>>
taskVars   == <<task, held, nextId, pending, subs>>
nodeVars   == <<up, down, served, feeding, notes>>
vars == <<callerVars, cmds, events, table, taskVars, nodeVars, dropped>>

Each(x) == [f \in Feeds |-> x]

NoReply == [ok |-> FALSE, feed |-> {}, account |-> {}]
Confirmed(f, req) == [ok |-> TRUE, feed |-> {f}, account |-> {req[2]}]

Init ==
    /\ caller = Each("idle") /\ want = Each({}) /\ reply = Each(NoReply)
    /\ got = Each(<<>>) /\ exhausted = Each(FALSE)
    /\ cmds = Each(<<>>) /\ events = Each(<<>>)
    /\ table = [i \in Ids |-> {}]
    /\ task = Each("select") /\ held = Each(<<>>) /\ nextId = Each(0)
    /\ pending = Each({}) /\ subs = Each({})
    /\ up = Each(<<>>) /\ down = Each(<<>>)
    /\ served = Each({}) /\ feeding = Each({})
    /\ notes = Each(0) /\ dropped = Each({})

-----------------------------------------------------------------------------
(* The caller's thread. *)

(* subscribe_account, subscribe_program, subscribe_slots: queue the command *)
(* and block until the oneshot is answered or dropped.                      *)
Subscribe(f, a) ==
    /\ caller[f] = "idle" /\ task[f] # "gone"
    /\ nextId[f] + Len(cmds[f]) < MaxReq
    /\ cmds' = [cmds EXCEPT ![f] = Append(@, a)]
    /\ caller' = [caller EXCEPT ![f] = "waiting"]
    /\ want' = [want EXCEPT ![f] = {a}]
    /\ reply' = [reply EXCEPT ![f] = NoReply]
    /\ UNCHANGED <<got, exhausted, events, table, taskVars, nodeVars, dropped>>

(* The same calls once the command channel is closed: an error at once.    *)
SubscribeTooLate(f, a) ==
    /\ caller[f] = "idle" /\ task[f] = "gone"
    /\ want' = [want EXCEPT ![f] = {a}]
    /\ reply' = [reply EXCEPT ![f] = NoReply]
    /\ UNCHANGED <<caller, got, exhausted, cmds, events, table, taskVars,
                   nodeVars, dropped>>

(* next_event with an event in the channel. *)
NextEvent(f) ==
    /\ caller[f] = "idle" /\ ~exhausted[f] /\ events[f] # <<>>
    /\ got' = [got EXCEPT ![f] = Append(@, Head(events[f]))]
    /\ events' = [events EXCEPT ![f] = Tail(@)]
    /\ UNCHANGED <<caller, want, reply, exhausted, cmds, table, taskVars,
                   nodeVars, dropped>>

(* next_event with the channel empty and its sender dropped.  With the     *)
(* sender alive it times out and returns None, which changes nothing.      *)
SeeEnd(f) ==
    /\ caller[f] = "idle" /\ ~exhausted[f]
    /\ events[f] = <<>> /\ task[f] = "gone"
    /\ exhausted' = [exhausted EXCEPT ![f] = TRUE]
    /\ UNCHANGED <<caller, want, reply, got, cmds, events, table, taskVars,
                   nodeVars, dropped>>

(* The caller drops the WsFeed. *)
Leave(f) ==
    /\ caller[f] = "idle"
    /\ caller' = [caller EXCEPT ![f] = "gone"]
    /\ UNCHANGED <<want, reply, got, exhausted, cmds, events, table, taskVars,
                   nodeVars, dropped>>

-----------------------------------------------------------------------------
(* The task. *)

(* The callers in G get r; a waiting caller is the only one that can.      *)
Answer(G, r) ==
    /\ caller' = [g \in Feeds |-> IF g \in G THEN "idle" ELSE caller[g]]
    /\ reply'  = [g \in Feeds |-> IF g \in G THEN r ELSE reply[g]]

(* Leaving the loop drops the command queue, with the senders in it, but   *)
(* not the senders in the process-wide table.                              *)
Exit(f) ==
    /\ task' = [task EXCEPT ![f] = "gone"]
    /\ cmds' = [cmds EXCEPT ![f] = <<>>]

(* A command: write the request to the socket, then file its sender.  A    *)
(* sender already filed under this id is dropped, and its caller is told.  *)
SendRequest(f) ==
    /\ task[f] = "select" /\ cmds[f] # <<>>
    /\ LET i == nextId[f]
           a == Head(cmds[f])
       IN  /\ nextId' = [nextId EXCEPT ![f] = @ + 1]
           /\ pending' = [pending EXCEPT ![f] = @ \cup {<<i, a>>}]
           /\ up' = [up EXCEPT ![f] = Append(@, <<i, a>>)]
           /\ Answer(table[i], NoReply)
           /\ table' = [table EXCEPT ![i] = {f}]
    /\ cmds' = [cmds EXCEPT ![f] = Tail(@)]
    /\ UNCHANGED <<want, got, exhausted, events, task, held, subs, down,
                   served, feeding, notes, dropped>>

SendFails(f) ==
    /\ Disconnects
    /\ task[f] = "select" /\ cmds[f] # <<>>
    /\ nextId' = [nextId EXCEPT ![f] = @ + 1]
    /\ Answer({f}, NoReply)
    /\ Exit(f)
    /\ UNCHANGED <<want, got, exhausted, events, table, held, pending, subs,
                   nodeVars, dropped>>

(* Mutant: a refusal returns before it answers its sender. *)
ReadResponseErrorSilent(f) ==
    /\ task[f] = "select" /\ down[f] # <<>>
    /\ LET msg == Head(down[f])
           asked == {p \in pending[f] : p[1] = msg.req[1]}
           good == msg.kind = "result"
       IN  /\ msg.kind \in {"result", "error"}
           /\ pending' = [pending EXCEPT ![f] = @ \ asked]
           /\ subs' = IF good THEN [subs EXCEPT ![f] = @ \cup asked] ELSE subs
           /\ Answer(IF good THEN table[msg.req[1]] ELSE {},
                     Confirmed(f, msg.req))
           /\ table' = IF good THEN [table EXCEPT ![msg.req[1]] = {}] ELSE table
    /\ down' = [down EXCEPT ![f] = Tail(@)]
    /\ UNCHANGED <<want, got, exhausted, cmds, events, task, held, nextId, up,
                   served, feeding, notes, dropped>>

(* handle_response: a refusal confirms nothing.                             *)
ReadResponse(f) ==
    /\ task[f] = "select" /\ down[f] # <<>>
    /\ LET msg == Head(down[f])
           asked == {p \in pending[f] : p[1] = msg.req[1]}
           id == msg.req[1]
       IN  /\ msg.kind \in {"result", "error"}
           /\ pending' = [pending EXCEPT ![f] = @ \ asked]
           /\ IF msg.kind = "result"
                THEN /\ subs' = [subs EXCEPT ![f] = @ \cup asked]
                     /\ Answer(table[id], Confirmed(f, msg.req))
                ELSE /\ UNCHANGED subs
                     /\ Answer(table[id], NoReply)
           /\ table' = [table EXCEPT ![id] = {}]
    /\ down' = [down EXCEPT ![f] = Tail(@)]
    /\ UNCHANGED <<want, got, exhausted, cmds, events, task, held, nextId, up,
                   served, feeding, notes, dropped>>

NoteAtHand(f) ==
    /\ task[f] = "select" /\ down[f] # <<>>
    /\ Head(down[f]).kind = "note"

Forwarded(f, req) == req \in subs[f] /\ req[2] \notin Programs

(* handle_notification for a subscription not confirmed, or a program.     *)
DropNote(f) ==
    /\ NoteAtHand(f) /\ ~Forwarded(f, Head(down[f]).req)
    /\ dropped' = [dropped EXCEPT ![f] = @ \cup {Head(down[f]).n}]
    /\ down' = [down EXCEPT ![f] = Tail(@)]
    /\ UNCHANGED <<callerVars, cmds, events, table, taskVars, up, served,
                   feeding, notes>>

(* Mutant: try_send, which throws the event away when the channel is full. *)
ForwardNoteTry(f) ==
    /\ NoteAtHand(f) /\ Forwarded(f, Head(down[f]).req)
    /\ events' = IF caller[f] = "gone" \/ Len(events[f]) >= Capacity THEN events
                 ELSE [events EXCEPT ![f] = Append(@, Head(down[f]).n)]
    /\ down' = [down EXCEPT ![f] = Tail(@)]
    /\ UNCHANGED <<callerVars, cmds, table, taskVars, up, served, feeding,
                   notes, dropped>>

(* Mutant: the held event is put at the head of the channel.              *)
UnblockToFront(f) ==
    /\ task[f] = "blocked"
    /\ \/ caller[f] = "gone" /\ UNCHANGED events
       \/ /\ caller[f] # "gone" /\ Len(events[f]) < Capacity
          /\ events' = [events EXCEPT ![f] = held[f] \o @]
    /\ task' = [task EXCEPT ![f] = "select"]
    /\ held' = [held EXCEPT ![f] = <<>>]
    /\ UNCHANGED <<callerVars, cmds, table, nextId, pending, subs, nodeVars,
                   dropped>>

(* handle_notification: the synchronous send blocks the task when the      *)
(* channel is full, and fails unnoticed when the caller is gone.           *)
ForwardNote(f) ==
    /\ NoteAtHand(f) /\ Forwarded(f, Head(down[f]).req)
    /\ LET n == Head(down[f]).n
       IN  \/ /\ caller[f] = "gone"
              /\ UNCHANGED <<events, task, held>>
           \/ /\ caller[f] # "gone" /\ Len(events[f]) < Capacity
              /\ events' = [events EXCEPT ![f] = Append(@, n)]
              /\ UNCHANGED <<task, held>>
           \/ /\ caller[f] # "gone" /\ Len(events[f]) >= Capacity
              /\ task' = [task EXCEPT ![f] = "blocked"]
              /\ held' = [held EXCEPT ![f] = <<n>>]
              /\ UNCHANGED events
    /\ down' = [down EXCEPT ![f] = Tail(@)]
    /\ UNCHANGED <<callerVars, cmds, table, nextId, pending, subs, up, served,
                   feeding, notes, dropped>>

Unblock(f) ==
    /\ task[f] = "blocked"
    /\ \/ /\ caller[f] = "gone"
          /\ UNCHANGED events
       \/ /\ caller[f] # "gone" /\ Len(events[f]) < Capacity
          /\ events' = [events EXCEPT ![f] = @ \o held[f]]
    /\ task' = [task EXCEPT ![f] = "select"]
    /\ held' = [held EXCEPT ![f] = <<>>]
    /\ UNCHANGED <<callerVars, cmds, table, nextId, pending, subs, nodeVars,
                   dropped>>

(* The command channel is closed. *)
CloseAfterLeave(f) ==
    /\ task[f] = "select" /\ caller[f] = "gone" /\ cmds[f] = <<>>
    /\ Exit(f)
    /\ UNCHANGED <<callerVars, events, table, held, nextId, pending, subs,
                   nodeVars, dropped>>

(* Close frame, read error, failed pong or end of stream. *)
Disconnect(f) ==
    /\ Disconnects /\ task[f] = "select"
    /\ Exit(f)
    /\ IF cmds[f] # <<>> THEN Answer({f}, NoReply)
                         ELSE UNCHANGED <<caller, reply>>
    /\ UNCHANGED <<want, got, exhausted, events, table, held, nextId, pending,
                   subs, nodeVars, dropped>>

-----------------------------------------------------------------------------
(* The RPC node. *)

Accept(f) ==
    /\ up[f] # <<>>
    /\ up' = [up EXCEPT ![f] = Tail(@)]
    /\ served' = [served EXCEPT ![f] = @ \cup {Head(up[f])}]
    /\ feeding' = [feeding EXCEPT ![f] = @ \cup {Head(up[f])}]
    /\ UNCHANGED <<callerVars, cmds, events, table, taskVars, down, notes,
                   dropped>>

Message(kind, req, n) == [kind |-> kind, req |-> req, n |-> n]

Respond(f) ==
    \E req \in served[f], kind \in {"result", "error"} :
        /\ down' = [down EXCEPT ![f] = Append(@, Message(kind, req, 0))]
        /\ served' = [served EXCEPT ![f] = @ \ {req}]
        /\ feeding' = [feeding EXCEPT ![f] =
                         IF kind = "error" THEN @ \ {req} ELSE @]
        /\ UNCHANGED <<callerVars, cmds, events, table, taskVars, up, notes,
                       dropped>>

Notify(f) ==
    \E req \in feeding[f] :
        /\ task[f] # "gone" /\ notes[f] < MaxNotes
        /\ notes' = [notes EXCEPT ![f] = @ + 1]
        /\ down' = [down EXCEPT ![f] =
                      Append(@, Message("note", req, notes[f] + 1))]
        /\ UNCHANGED <<callerVars, cmds, events, table, taskVars, up, served,
                       feeding, dropped>>

-----------------------------------------------------------------------------
Poll(f) == NextEvent(f) \/ SeeEnd(f)

Run(f) ==
    \/ SendRequest(f) \/ SendFails(f) \/ ReadResponse(f) \/ DropNote(f)
    \/ ForwardNote(f) \/ Unblock(f) \/ CloseAfterLeave(f)

Node(f) == Accept(f) \/ Respond(f)

Next ==
    \E f \in Feeds :
        \/ \E a \in Accounts : Subscribe(f, a) \/ SubscribeTooLate(f, a)
        \/ Notify(f)
        \/ Poll(f) \/ Leave(f) \/ Run(f) \/ Disconnect(f) \/ Node(f)

(* The caller polls in a loop, the runtime schedules the task, and the     *)
(* node answers the requests it gets.  Nothing makes a caller subscribe or *)
(* leave, or a connection fail.                                            *)
Spec ==
    /\ Init /\ [][Next]_vars
    /\ \A f \in Feeds : WF_vars(Poll(f)) /\ WF_vars(Run(f)) /\ WF_vars(Node(f))
-----------------------------------------------------------------------------
(* Properties. *)

(* What the task took off the socket and did not throw away, and the       *)
(* notifications still on the socket.                                      *)
Passed(f) == got[f] \o events[f] \o held[f]
Coming(f) == {k \in DOMAIN down[f] : down[f][k].kind = "note"}

(* Notifications reach next_event in the order the node sent them, each at *)
(* most once, also across a full channel (handle_notification, events.send,*)
(* next_event).                                                            *)
InOrderOnce ==
    \A f \in Feeds :
        /\ \A j, k \in DOMAIN Passed(f) : j < k => Passed(f)[j] < Passed(f)[k]
        /\ \A k \in Coming(f) :
             /\ \A j \in DOMAIN Passed(f) : Passed(f)[j] < down[f][k].n
             /\ \A j \in Coming(f) : j < k => down[f][j].n < down[f][k].n

(* While both ends live, every notification sent is delivered, on its way, *)
(* or was for a subscription the feed does not forward: a full channel     *)
(* loses nothing (ws_feed.rs:412, a send that waits).                      *)
NothingLost ==
    \A f \in Feeds :
        caller[f] # "gone" /\ task[f] # "gone" =>
            Range(Passed(f)) \cup {down[f][k].n : k \in Coming(f)}
              = (1 .. notes[f]) \ dropped[f]

(* A subscribe that returned an id got it from its own connection, for the *)
(* account it asked for, and that subscription is in the task's table, so  *)
(* its notifications are known (ws_feed.rs:120-121, and 303-305 of the     *)
(* table shared by all feeds).  It takes two feeds to break it: each task  *)
(* counts its request ids from zero.                                       *)
ReplyIsForAsker ==
    \A f \in Feeds :
        reply[f].ok =>
            /\ reply[f].feed = {f} /\ reply[f].account = want[f]
            /\ \E req \in subs[f] : {req[2]} = want[f]

(* The only things that keep a subscriber waiting forever are a task that  *)
(* ended with the sender left in the table, and a task blocked on the full *)
(* channel that only this subscriber's thread can drain.                   *)
Stuck(f) == caller[f] = "waiting" /\ task[f] \in {"gone", "blocked"}

(* No other call leaves its caller waiting: a subscribe returns, with an   *)
(* id or an error, and a caller that polls a lost connection is told of    *)
(* its end (ws_feed.rs:25-29, :128-129).                                   *)
CallsReturn ==
    \A f \in Feeds :
        /\ caller[f] = "waiting" ~> caller[f] # "waiting" \/ Stuck(f)
        /\ task[f] = "gone" ~> exhausted[f] \/ caller[f] # "idle"
=============================================================================
