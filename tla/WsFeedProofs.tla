---------------------------- MODULE WsFeedProofs ----------------------------
(***************************************************************************)
(* What happens to a notification between the socket and next_event, for   *)
(* any number of feeds, accounts, programs, requests and notifications,    *)
(* and a channel of any capacity.                                          *)
(***************************************************************************)
EXTENDS WsFeed, SequenceTheorems, TLAPS

Asked == Ids \X Accounts
OnSocket == [kind : {"result", "error", "note"}, req : Asked, n : Nat]

-----------------------------------------------------------------------------
(* A sequence p of numbers behind a sequence d of messages. *)

NoteAt(d) == {k \in DOMAIN d : d[k].kind = "note"}

Ordered(p, d) ==
    /\ \A j, k \in DOMAIN p : j < k => p[j] < p[k]
    /\ \A k \in NoteAt(d) :
         /\ \A j \in DOMAIN p : p[j] < d[k].n
         /\ \A j \in NoteAt(d) : j < k => d[j].n < d[k].n

All(p, d) == Range(p) \cup {d[k].n : k \in NoteAt(d)}

LEMMA TailIs ==
  ASSUME NEW S, NEW s \in Seq(S), s # <<>>
  PROVE  /\ Head(s) \in S /\ Tail(s) \in Seq(S)
         /\ 1 \in DOMAIN s /\ Head(s) = s[1]
         /\ \A k \in DOMAIN s : k \in Nat /\ (k = 1 \/ k - 1 \in DOMAIN Tail(s))
         /\ \A k \in DOMAIN Tail(s) : k \in Nat \ {0} /\ k + 1 \in DOMAIN s /\ Tail(s)[k] = s[k + 1]
<1>1. /\ Len(s) \in Nat \ {0} /\ DOMAIN s = 1 .. Len(s) /\ Head(s) \in S
      /\ Tail(s) \in Seq(S) /\ Len(Tail(s)) = Len(s) - 1
      /\ \A i \in 1 .. Len(Tail(s)) : Tail(s)[i] = s[i + 1]
  BY EmptySeq, LenProperties, HeadTailProperties
<1>2. DOMAIN Tail(s) = 1 .. Len(s) - 1
  BY <1>1, LenProperties
<1> QED BY <1>1, <1>2

LEMMA AppendIs ==
  ASSUME NEW S, NEW s \in Seq(S), NEW e \in S
  PROVE  /\ Append(s, e) \in Seq(S) /\ DOMAIN s = 1 .. Len(s) /\ Len(s) \in Nat
         /\ DOMAIN Append(s, e) = DOMAIN s \cup {Len(s) + 1}
         /\ \A k \in DOMAIN s : Append(s, e)[k] = s[k]
         /\ Append(s, e)[Len(s) + 1] = e
<1>1. /\ Append(s, e) \in Seq(S) /\ Len(Append(s, e)) = Len(s) + 1
      /\ \A i \in 1 .. Len(s) : Append(s, e)[i] = s[i]
      /\ Append(s, e)[Len(s) + 1] = e
  BY AppendProperties
<1>2. Len(s) \in Nat /\ DOMAIN s = 1 .. Len(s) /\ DOMAIN Append(s, e) = 1 .. Len(s) + 1
  BY <1>1, LenProperties
<1> QED BY <1>1, <1>2

LEMMA Entries ==
  /\ \A d \in Seq(OnSocket) : \A k \in NoteAt(d) : d[k] \in OnSocket /\ d[k].n \in Nat
  /\ \A p \in Seq(Nat) : \A j \in DOMAIN p : p[j] \in Nat
<1>1. ASSUME NEW d \in Seq(OnSocket), NEW k \in DOMAIN d PROVE d[k] \in OnSocket
  BY LenProperties
<1>2. \A m \in OnSocket : m.n \in Nat
  BY DEF OnSocket
<1>3. ASSUME NEW p \in Seq(Nat), NEW j \in DOMAIN p PROVE p[j] \in Nat
  BY LenProperties
<1> QED BY <1>1, <1>2, <1>3 DEF NoteAt

(* The first message goes. *)
LEMMA TakeFirst ==
  ASSUME NEW p \in Seq(Nat), NEW d \in Seq(OnSocket), d # <<>>, Ordered(p, d)
  PROVE  /\ Ordered(p, Tail(d))
         /\ All(p, Tail(d)) = IF Head(d).kind = "note" THEN All(p, d) \ {Head(d).n} ELSE All(p, d)
<1>1. \A k \in NoteAt(Tail(d)) : k + 1 \in NoteAt(d) /\ Tail(d)[k] = d[k + 1] /\ k \in Nat \ {0}
  BY TailIs DEF NoteAt
<1>2. \A k \in NoteAt(d) : k \in Nat /\ (k = 1 \/ (k - 1 \in NoteAt(Tail(d)) /\ Tail(d)[k - 1] = d[k]))
  BY SMTT(30), TailIs DEF NoteAt
<1>3. Head(d) = d[1] /\ (1 \in NoteAt(d) <=> d[1].kind = "note")
  BY TailIs DEF NoteAt
<1>4. Ordered(p, Tail(d))
  <2>1. ASSUME NEW k \in NoteAt(Tail(d))
        PROVE  /\ \A j \in DOMAIN p : p[j] < Tail(d)[k].n
               /\ \A j \in NoteAt(Tail(d)) : j < k => Tail(d)[j].n < Tail(d)[k].n
    <3>1. ASSUME NEW j \in NoteAt(Tail(d)), j < k PROVE Tail(d)[j].n < Tail(d)[k].n
      <4>1. /\ j + 1 \in NoteAt(d) /\ k + 1 \in NoteAt(d) /\ j + 1 < k + 1
            /\ Tail(d)[j] = d[j + 1] /\ Tail(d)[k] = d[k + 1]
        <5>1. j \in Nat /\ k \in Nat
          BY <1>1, <3>1
        <5>2. j + 1 < k + 1
          BY <3>1, <5>1
        <5> QED BY <1>1, <5>2
      <4> QED BY <4>1 DEF Ordered
    <3>2. k + 1 \in NoteAt(d) /\ Tail(d)[k] = d[k + 1]
      BY <1>1
    <3> QED BY <3>1, <3>2 DEF Ordered
  <2> QED BY <2>1 DEF Ordered
<1>5. \A k \in NoteAt(d) : d[k].n \in Nat
  BY Entries
<1>6. \A j \in DOMAIN p : p[j] \in Nat
  BY Entries
<1>7. {Tail(d)[k].n : k \in NoteAt(Tail(d))} = {d[k].n : k \in NoteAt(d) \ {1}}
  <2>1. ASSUME NEW k \in NoteAt(Tail(d)) PROVE \E j \in NoteAt(d) \ {1} : d[j].n = Tail(d)[k].n
    <3>1. k \in Nat \ {0} /\ k + 1 \in NoteAt(d) /\ Tail(d)[k] = d[k + 1]
      BY <1>1
    <3>2. k + 1 # 1
      BY <3>1
    <3> QED BY <3>1, <3>2
  <2>2. ASSUME NEW k \in NoteAt(d) \ {1} PROVE \E j \in NoteAt(Tail(d)) : Tail(d)[j].n = d[k].n
    <3>1. k \in NoteAt(d) /\ k # 1
      OBVIOUS
    <3>2. k - 1 \in NoteAt(Tail(d)) /\ Tail(d)[k - 1] = d[k]
      BY <1>2, <3>1
    <3> QED BY <3>2
  <2> DEFINE A == {Tail(d)[k].n : k \in NoteAt(Tail(d))}
             B == {d[k].n : k \in NoteAt(d) \ {1}}
  <2>3. A \subseteq B
    BY <2>1, Zenon
  <2>4. B \subseteq A
    BY <2>2, Zenon
  <2> QED BY <2>3, <2>4
<1>8. CASE Head(d).kind = "note"
  <2>1. \A j \in DOMAIN p : p[j] # d[1].n
    <3>1. 1 \in NoteAt(d) /\ d[1].n \in Nat
      BY <1>3, <1>5, <1>8
    <3>2. \A j \in DOMAIN p : p[j] < d[1].n
      BY <3>1 DEF Ordered
    <3> QED BY <1>6, <3>1, <3>2
  <2>2. \A k \in NoteAt(d) \ {1} : d[k].n # d[1].n
    <3> SUFFICES ASSUME NEW k \in NoteAt(d) \ {1} PROVE d[1].n < d[k].n
      <4>1. d[1].n \in Nat /\ \A k \in NoteAt(d) : d[k].n \in Nat
        BY <1>3, <1>5, <1>8
      <4> QED BY <4>1
    <3>1. 1 < k /\ 1 \in NoteAt(d)
      <4>1. k \in Nat /\ k - 1 \in Nat \ {0}
        BY <1>1, <1>2
      <4> QED BY <1>3, <1>8, <4>1
    <3> QED BY <3>1 DEF Ordered
  <2> QED BY <1>3, <1>4, <1>7, <1>8, <2>1, <2>2 DEF All, Range
<1>9. CASE Head(d).kind # "note"
  BY <1>3, <1>4, <1>7, <1>9 DEF All
<1> QED BY <1>8, <1>9

(* The first message, a notification, goes to the end of the numbers. *)
LEMMA PassFirst ==
  ASSUME NEW p \in Seq(Nat), NEW d \in Seq(OnSocket), d # <<>>, Ordered(p, d),
         Head(d).kind = "note"
  PROVE  LET q == Append(p, Head(d).n)
         IN  /\ q \in Seq(Nat) /\ Ordered(q, Tail(d)) /\ All(q, Tail(d)) = All(p, d)
<1> DEFINE n == Head(d).n
           q == Append(p, n)
<1>1. n \in Nat /\ Head(d) = d[1] /\ 1 \in NoteAt(d)
  <2>1. Head(d) = d[1] /\ 1 \in NoteAt(d)
    BY TailIs DEF NoteAt
  <2> QED BY <2>1, Entries
<1>2. /\ q \in Seq(Nat) /\ DOMAIN p = 1 .. Len(p) /\ Len(p) \in Nat
      /\ DOMAIN q = DOMAIN p \cup {Len(p) + 1}
      /\ \A k \in DOMAIN p : q[k] = p[k]
      /\ q[Len(p) + 1] = n
  BY <1>1, AppendIs
<1>3. \A j \in DOMAIN p : p[j] \in Nat /\ p[j] < n
  BY <1>1, Entries DEF Ordered
<1>4. \A k \in NoteAt(Tail(d)) : k + 1 \in NoteAt(d) /\ Tail(d)[k] = d[k + 1] /\ k \in Nat \ {0}
  BY TailIs DEF NoteAt
<1>5. ASSUME NEW k \in NoteAt(Tail(d)) PROVE n < Tail(d)[k].n
  <2>1. 1 \in NoteAt(d) /\ k + 1 \in NoteAt(d) /\ 1 < k + 1 /\ Tail(d)[k] = d[k + 1]
    <3>1. 1 < k + 1
      BY <1>4
    <3> QED BY <1>1, <1>4, <3>1
  <2> QED BY <1>1, <2>1 DEF Ordered
<1>6. Ordered(p, Tail(d)) /\ All(p, Tail(d)) = All(p, d) \ {n} /\ n \in All(p, d)
  <2>1. n \in All(p, d)
    BY <1>1 DEF All
  <2> QED BY <2>1, TakeFirst
<1>7. Ordered(q, Tail(d))
  <2> HIDE DEF n, q
  <2>1. ASSUME NEW j \in DOMAIN q, NEW k \in DOMAIN q, j < k PROVE q[j] < q[k]
    <3>1. j \in DOMAIN p
      BY <1>2, <2>1
    <3>2. CASE k \in DOMAIN p
      BY <1>2, <1>6, <2>1, <3>1, <3>2 DEF Ordered
    <3>3. CASE k = Len(p) + 1
      BY <1>2, <1>3, <3>1, <3>3
    <3> QED BY <1>2, <3>2, <3>3
  <2>2. ASSUME NEW k \in NoteAt(Tail(d)), NEW j \in DOMAIN q PROVE q[j] < Tail(d)[k].n
    BY <1>2, <1>5, <1>6, <2>2 DEF Ordered
  <2> QED BY <1>6, <2>1, <2>2 DEF Ordered
<1>8. Range(q) = Range(p) \cup {n}
  BY <1>2 DEF Range
<1>9. All(q, Tail(d)) = All(p, d)
  BY <1>6, <1>8 DEF All
<1> QED BY <1>2, <1>7, <1>9

(* A message joins: an answer, or a notification with a new number. *)
LEMMA JoinLast ==
  ASSUME NEW p \in Seq(Nat), NEW d \in Seq(OnSocket), NEW msg \in OnSocket, Ordered(p, d),
         msg.kind = "note" => \A m \in All(p, d) : m < msg.n
  PROVE  /\ Ordered(p, Append(d, msg))
         /\ All(p, Append(d, msg)) = IF msg.kind = "note" THEN All(p, d) \cup {msg.n} ELSE All(p, d)
<1> DEFINE e == Append(d, msg)
<1>1. /\ DOMAIN d = 1 .. Len(d) /\ Len(d) \in Nat /\ DOMAIN e = DOMAIN d \cup {Len(d) + 1}
      /\ \A k \in DOMAIN d : e[k] = d[k]
      /\ e[Len(d) + 1] = msg
  BY AppendIs
<1> HIDE DEF e
<1>2. NoteAt(e) = NoteAt(d) \cup (IF msg.kind = "note" THEN {Len(d) + 1} ELSE {})
  BY <1>1 DEF NoteAt
<1>3. \A k \in NoteAt(d) : k \in DOMAIN d /\ e[k] = d[k] /\ k < Len(d) + 1 /\ d[k].n \in All(p, d)
  BY <1>1 DEF NoteAt, All
<1>4. \A j \in DOMAIN p : p[j] \in All(p, d)
  BY DEF All, Range
<1>5. Ordered(p, e)
  <2>1. CASE msg.kind = "note"
    <3>1. ASSUME NEW k \in NoteAt(e)
          PROVE  /\ \A j \in DOMAIN p : p[j] < e[k].n
                 /\ \A j \in NoteAt(e) : j < k => e[j].n < e[k].n
      <4>1. CASE k = Len(d) + 1
        BY <1>1, <1>2, <1>3, <1>4, <2>1, <4>1
      <4>2. CASE k \in NoteAt(d)
        BY <1>1, <1>2, <1>3, <2>1, <4>2 DEF Ordered
      <4> QED BY <1>2, <2>1, <4>1, <4>2
    <3> QED BY <3>1 DEF Ordered
  <2>2. CASE msg.kind # "note"
    BY <1>2, <1>3, <2>2 DEF Ordered
  <2> QED BY <2>1, <2>2
<1>6. {e[k].n : k \in NoteAt(e)} =
        {d[k].n : k \in NoteAt(d)} \cup (IF msg.kind = "note" THEN {msg.n} ELSE {})
  BY <1>1, <1>2, <1>3
<1> QED BY <1>5, <1>6 DEF All, e

-----------------------------------------------------------------------------
(* The callers: who waits, and for what. *)

CallForms ==
    /\ caller \in [Feeds -> {"idle", "waiting", "gone"}]
    /\ task \in [Feeds -> {"select", "blocked", "gone"}]
    /\ cmds \in [Feeds -> Seq(Accounts)] /\ nextId \in [Feeds -> Nat]
    /\ table \in [Ids -> SUBSET Feeds]

(* A queued command, or a sender in the table, is the waiting caller's, who *)
(* has one of them.                                                         *)
Waits(f) ==
    /\ nextId[f] + Len(cmds[f]) <= MaxReq
    /\ cmds[f] # <<>> => caller[f] = "waiting" /\ Len(cmds[f]) = 1
    /\ \A i \in Ids : f \in table[i] => caller[f] = "waiting" /\ cmds[f] = <<>>
    /\ \A i, j \in Ids : f \in table[i] /\ f \in table[j] => i = j

Calls == CallForms /\ \A f \in Feeds : Waits(f)

(* What a step does to a caller who has left, or to a task that ended. *)
StaysGone ==
    \A f \in Feeds : /\ caller[f] = "gone" => caller'[f] = "gone"
                     /\ task[f] = "gone" => task'[f] = "gone"

LEMMA SubscribeCalls ==
  ASSUME Calls, NEW f \in Feeds, NEW a \in Accounts, Subscribe(f, a)
  PROVE  Calls' /\ StaysGone
<1>1. /\ caller[f] = "idle" /\ nextId[f] + Len(cmds[f]) < MaxReq
      /\ cmds' = [cmds EXCEPT ![f] = Append(@, a)]
      /\ caller' = [caller EXCEPT ![f] = "waiting"]
      /\ UNCHANGED <<table, task, nextId>>
  BY DEF Subscribe, taskVars
<1>2. cmds[f] = <<>> /\ \A i \in Ids : f \notin table[i]
  BY <1>1 DEF Calls, Waits
<1>3. Append(cmds[f], a) = <<a>> /\ <<a>> \in Seq(Accounts)
  BY <1>2
<1>4. CallForms'
  BY <1>1, <1>3 DEF Calls, CallForms
<1>5. ASSUME NEW g \in Feeds PROVE Waits(g)'
  <2>1. CASE g = f
    <3>1. cmds'[f] = <<a>> /\ Len(cmds'[f]) = 1 /\ caller'[f] = "waiting"
      BY <1>1, <1>3 DEF Calls, CallForms
    <3>2. nextId[f] + 1 <= MaxReq
      BY <1>1, <1>2, WsAssumption DEF Calls, CallForms
    <3> QED BY <1>1, <1>2, <2>1, <3>1, <3>2 DEF Waits
  <2>2. CASE g # f
    BY <1>1, <2>2 DEF Calls, CallForms, Waits
  <2> QED BY <2>1, <2>2
<1> QED BY <1>1, <1>4, <1>5 DEF Calls, CallForms, StaysGone

LEMMA LeaveCalls == ASSUME Calls, NEW f \in Feeds, Leave(f) PROVE Calls' /\ StaysGone
<1>1. /\ caller[f] = "idle" /\ caller' = [caller EXCEPT ![f] = "gone"]
      /\ UNCHANGED <<cmds, table, task, nextId>>
  BY DEF Leave, taskVars
<1>2. cmds[f] = <<>> /\ \A i \in Ids : f \notin table[i]
  BY <1>1 DEF Calls, Waits
<1>3. CallForms'
  BY <1>1 DEF Calls, CallForms
<1>4. ASSUME NEW g \in Feeds PROVE Waits(g)'
  <2>1. CASE g = f
    BY <1>1, <1>2, <2>1 DEF Calls, Waits
  <2>2. CASE g # f
    BY <1>1, <2>2 DEF Calls, CallForms, Waits
  <2> QED BY <2>1, <2>2
<1> QED BY <1>1, <1>3, <1>4 DEF Calls, CallForms, StaysGone

(* The callers filed under one id are answered and the entry is free. *)
LEMMA AnswerCalls ==
  ASSUME Calls, NEW i \in Ids, NEW r, Answer(table[i], r)
  PROVE  /\ caller' \in [Feeds -> {"idle", "waiting", "gone"}]
         /\ \A g \in Feeds : /\ g \in table[i] => caller[g] = "waiting" /\ cmds[g] = <<>>
                             /\ g \notin table[i] => caller'[g] = caller[g]
                             /\ g \in table[i] => \A j \in Ids : g \in table[j] => j = i
                             /\ caller[g] = "gone" => caller'[g] = "gone"
BY DEF Calls, CallForms, Waits, Answer

LEMMA SendRequestCalls ==
  ASSUME Calls, NEW f \in Feeds, SendRequest(f)
  PROVE  /\ Calls' /\ StaysGone
         /\ nextId[f] \in Ids /\ Head(cmds[f]) \in Accounts
<1> DEFINE n == nextId[f]
<1>1. /\ cmds[f] # <<>>
      /\ nextId' = [nextId EXCEPT ![f] = n + 1]
      /\ Answer(table[n], NoReply)
      /\ table' = [table EXCEPT ![n] = {f}]
      /\ cmds' = [cmds EXCEPT ![f] = Tail(@)]
      /\ UNCHANGED task
  BY DEF SendRequest
<1>2. /\ caller[f] = "waiting" /\ Len(cmds[f]) = 1 /\ \A i \in Ids : f \notin table[i]
      /\ n \in Nat /\ n + 1 <= MaxReq
  BY <1>1 DEF Calls, CallForms, Waits
<1>3. /\ Head(cmds[f]) \in Accounts /\ Tail(cmds[f]) \in Seq(Accounts)
      /\ Tail(cmds[f]) = <<>>
  <2>1. cmds[f] \in Seq(Accounts)
    BY DEF Calls, CallForms
  <2>2. /\ Head(cmds[f]) \in Accounts /\ Tail(cmds[f]) \in Seq(Accounts)
        /\ Len(Tail(cmds[f])) = 0
    BY <1>1, <1>2, <2>1, HeadTailProperties
  <2> QED BY <2>2, EmptySeq
<1>4. n \in Ids
  BY <1>2, WsAssumption DEF Ids
<1> HIDE DEF n
<1>5. /\ caller' \in [Feeds -> {"idle", "waiting", "gone"}]
      /\ \A g \in Feeds : /\ g \in table[n] => caller[g] = "waiting" /\ cmds[g] = <<>>
                          /\ g \notin table[n] => caller'[g] = caller[g]
                          /\ g \in table[n] => \A j \in Ids : g \in table[j] => j = n
                          /\ caller[g] = "gone" => caller'[g] = "gone"
  BY <1>1, <1>4, AnswerCalls
<1>6. CallForms'
  <2>1. table' \in [Ids -> SUBSET Feeds]
    BY <1>1 DEF Calls, CallForms
  <2>3. nextId' \in [Feeds -> Nat]
    <3>1. n + 1 \in Nat
      BY <1>2
    <3> QED BY <1>1, <3>1 DEF Calls, CallForms
  <2>2. cmds' \in [Feeds -> Seq(Accounts)]
    BY <1>1, <1>3 DEF Calls, CallForms
  <2> QED BY <1>1, <1>5, <2>1, <2>2, <2>3 DEF Calls, CallForms
<1>7. ASSUME NEW g \in Feeds PROVE Waits(g)'
  <2>1. CASE g = f
    <3>1. cmds'[f] = <<>> /\ nextId'[f] = n + 1 /\ caller'[f] = "waiting"
      BY <1>1, <1>2, <1>3, <1>4, <1>5 DEF Calls, CallForms
    <3>2. \A i \in Ids : f \in table'[i] => i = n
      BY <1>1, <1>2, <1>4 DEF Calls, CallForms
    <3>3. nextId'[f] + Len(cmds'[f]) <= MaxReq
      BY <1>2, <3>1, WsAssumption
    <3> QED BY <2>1, <3>1, <3>2, <3>3 DEF Waits
  <2>2. CASE g # f
    <3>1. \A i \in Ids : g \in table'[i] => g \in table[i] /\ i # n
      BY <1>1, <1>4, <2>2 DEF Calls, CallForms
    <3>2. cmds'[g] = cmds[g] /\ nextId'[g] = nextId[g]
      BY <1>1, <2>2 DEF Calls, CallForms
    <3>3. (cmds[g] # <<>> \/ \E i \in Ids : g \in table'[i]) => caller'[g] = caller[g]
      BY <1>5, <3>1
    <3> QED BY <3>1, <3>2, <3>3 DEF Calls, Waits
  <2> QED BY <2>1, <2>2
<1>8. StaysGone
  BY <1>1, <1>5 DEF StaysGone
<1> QED BY <1>3, <1>4, <1>6, <1>7, <1>8 DEF Calls, n

LEMMA ReadResponseCalls ==
  ASSUME Calls, NEW f \in Feeds, ReadResponse(f), Head(down[f]) \in OnSocket
  PROVE  Calls' /\ StaysGone
<1> DEFINE i == Head(down[f]).req[1]
<1>1. /\ \E r : Answer(table[i], r)
      /\ table' = [table EXCEPT ![i] = {}]
      /\ UNCHANGED <<cmds, task, nextId>>
  BY DEF ReadResponse
<1>2. i \in Ids
  BY DEF OnSocket, Asked
<1> HIDE DEF i
<1>3. /\ caller' \in [Feeds -> {"idle", "waiting", "gone"}]
      /\ \A g \in Feeds : /\ g \in table[i] => caller[g] = "waiting" /\ cmds[g] = <<>>
                          /\ g \notin table[i] => caller'[g] = caller[g]
                          /\ g \in table[i] => \A j \in Ids : g \in table[j] => j = i
                          /\ caller[g] = "gone" => caller'[g] = "gone"
  <2>1. PICK r : Answer(table[i], r)
    BY <1>1
  <2> QED BY <1>2, <2>1, AnswerCalls
<1>4. CallForms'
  BY <1>1, <1>2, <1>3 DEF Calls, CallForms
<1>5. ASSUME NEW g \in Feeds PROVE Waits(g)'
  <2>1. \A j \in Ids : g \in table'[j] => g \in table[j] /\ j # i
    BY <1>1, <1>2 DEF Calls, CallForms
  <2>2. (cmds[g] # <<>> \/ \E j \in Ids : g \in table'[j]) => caller'[g] = caller[g]
    BY <1>3, <2>1
  <2> QED BY <1>1, <2>1, <2>2 DEF Calls, Waits
<1> QED BY <1>1, <1>3, <1>4, <1>5 DEF Calls, StaysGone

LEMMA EndCalls ==
  ASSUME Calls, NEW f \in Feeds, SendFails(f) \/ CloseAfterLeave(f) \/ Disconnect(f)
  PROVE  Calls' /\ StaysGone
<1>1. /\ cmds' = [cmds EXCEPT ![f] = <<>>]
      /\ nextId' = nextId \/ (cmds[f] # <<>> /\ nextId' = [nextId EXCEPT ![f] = @ + 1])
      /\ \/ UNCHANGED caller /\ cmds[f] = <<>>
         \/ cmds[f] # <<>> /\ Answer({f}, NoReply)
      /\ task' = [task EXCEPT ![f] = "gone"] /\ UNCHANGED table
  BY DEF SendFails, CloseAfterLeave, Disconnect, Exit, callerVars
<1>2. \/ UNCHANGED caller /\ cmds[f] = <<>>
      \/ /\ cmds[f] # <<>> /\ caller[f] = "waiting" /\ \A i \in Ids : f \notin table[i]
         /\ caller' = [caller EXCEPT ![f] = "idle"]
  BY <1>1 DEF Calls, CallForms, Waits, Answer
<1>3. CallForms'
  <2>1. cmds' \in [Feeds -> Seq(Accounts)]
    BY <1>1 DEF Calls, CallForms
  <2>2. nextId' \in [Feeds -> Nat]
    BY <1>1 DEF Calls, CallForms
  <2>3. caller' \in [Feeds -> {"idle", "waiting", "gone"}]
    BY <1>2 DEF Calls, CallForms
  <2> QED BY <1>1, <2>1, <2>2, <2>3 DEF Calls, CallForms
<1>4. ASSUME NEW g \in Feeds PROVE Waits(g)'
  <2>1. CASE g = f
    <3>1. nextId'[f] + Len(cmds'[f]) <= MaxReq /\ cmds'[f] = <<>>
      <4>1. nextId[f] \in Nat /\ Len(cmds[f]) \in Nat /\ cmds'[f] = <<>>
            /\ nextId[f] + Len(cmds[f]) <= MaxReq
        BY <1>1, LenProperties DEF Calls, CallForms, Waits
      <4>2. nextId'[f] = nextId[f] \/ (Len(cmds[f]) = 1 /\ nextId'[f] = nextId[f] + 1)
        BY <1>1 DEF Calls, CallForms, Waits
      <4>3. nextId'[f] <= nextId[f] + Len(cmds[f])
        <5>1. CASE nextId'[f] = nextId[f]
          BY <4>1, <5>1
        <5>2. CASE Len(cmds[f]) = 1 /\ nextId'[f] = nextId[f] + 1
          BY <4>1, <5>2
        <5> QED BY <4>2, <5>1, <5>2
      <4>4. nextId'[f] \in Nat /\ Len(cmds'[f]) = 0
        BY <4>1, <4>2
      <4> QED BY <4>1, <4>3, <4>4, WsAssumption
    <3> QED BY <1>1, <1>2, <2>1, <3>1 DEF Calls, Waits
  <2>2. CASE g # f
    BY <1>1, <1>2, <2>2 DEF Calls, CallForms, Waits
  <2> QED BY <2>1, <2>2
<1>5. StaysGone
  <2>1. \A g \in Feeds : caller[g] = "gone" => caller'[g] = "gone"
    BY <1>2 DEF Calls, CallForms
  <2>2. \A g \in Feeds : task[g] = "gone" => task'[g] = "gone"
    BY <1>1 DEF Calls, CallForms
  <2> QED BY <2>1, <2>2 DEF StaysGone
<1> QED BY <1>3, <1>4, <1>5 DEF Calls

LEMMA QuietCalls ==
  ASSUME Calls, UNCHANGED <<caller, cmds, table, nextId>>,
         NEW f \in Feeds, NEW t \in {"select", "blocked"},
         (task[f] # "gone" /\ task' = [task EXCEPT ![f] = t]) \/ UNCHANGED task
  PROVE  Calls' /\ StaysGone
BY DEF Calls, CallForms, Waits, StaysGone

-----------------------------------------------------------------------------
(* The notifications of one feed. *)

NoteForms ==
    /\ got \in [Feeds -> Seq(Nat)] /\ events \in [Feeds -> Seq(Nat)]
    /\ held \in [Feeds -> Seq(Nat)]
    /\ notes \in [Feeds -> Nat] /\ dropped \in [Feeds -> SUBSET Nat]
    /\ up \in [Feeds -> Seq(Asked)] /\ down \in [Feeds -> Seq(OnSocket)]
    /\ served \in [Feeds -> SUBSET Asked] /\ feeding \in [Feeds -> SUBSET Asked]

(* The numbers passed on and those to come are in order and were all sent; *)
(* while both ends live, they are all that was sent and not thrown away.   *)
Flow(f) ==
    /\ task[f] = "blocked" \/ held[f] = <<>>
    /\ Ordered(Passed(f), down[f])
    /\ All(Passed(f), down[f]) \subseteq 1 .. notes[f]
    /\ dropped[f] \subseteq 1 .. notes[f]
    /\ caller[f] # "gone" /\ task[f] # "gone" =>
         All(Passed(f), down[f]) = (1 .. notes[f]) \ dropped[f]

Same(g) ==
    /\ got'[g] = got[g] /\ events'[g] = events[g] /\ held'[g] = held[g]
    /\ down'[g] = down[g] /\ notes'[g] = notes[g] /\ dropped'[g] = dropped[g]

LEMMA FlowFrame ==
  ASSUME NEW g \in Feeds, Flow(g), Same(g), StaysGone,
         task'[g] = task[g] \/ (task'[g] = "gone" /\ task[g] # "blocked")
  PROVE  Flow(g)'
<1>1. Passed(g)' = Passed(g)
  BY DEF Same, Passed
<1>2. held'[g] = <<>> \/ task'[g] = "blocked"
  BY DEF Same, Flow
<1>3. caller'[g] # "gone" /\ task'[g] # "gone" => caller[g] # "gone" /\ task[g] # "gone"
  BY DEF StaysGone
<1>4. Ordered(Passed(g), down[g])' /\ All(Passed(g), down[g])' = All(Passed(g), down[g])
  BY <1>1 DEF Same, Flow, Ordered, All, NoteAt
<1> QED BY <1>2, <1>3, <1>4 DEF Flow, Same

LEMMA PassedForm ==
  ASSUME NoteForms, NEW f \in Feeds
  PROVE  /\ got[f] \in Seq(Nat) /\ events[f] \in Seq(Nat) /\ held[f] \in Seq(Nat)
         /\ got[f] \o events[f] \in Seq(Nat) /\ Passed(f) \in Seq(Nat)
         /\ held[f] = <<>> => Passed(f) = got[f] \o events[f]
<1>1. got[f] \in Seq(Nat) /\ events[f] \in Seq(Nat) /\ held[f] \in Seq(Nat)
  BY DEF NoteForms
<1>2. got[f] \o events[f] \in Seq(Nat)
  BY <1>1, ConcatProperties
<1> QED BY <1>1, <1>2, ConcatProperties, ConcatEmptySeq DEF Passed

LEMMA Flowing ==
  ASSUME NEW f \in Feeds, NEW p, NEW d, Passed(f)' = p, down'[f] = d
  PROVE  Ordered(Passed(f), down[f])' = Ordered(p, d)
         /\ All(Passed(f), down[f])' = All(p, d)
BY DEF Ordered, All, NoteAt

LEMMA Joined ==
  /\ \A s, t \in Seq(Nat) : s \o t \in Seq(Nat)
  /\ \A s, t, u \in Seq(Nat) : (s \o t) \o u = s \o (t \o u)
  /\ \A s \in Seq(Nat), n \in Nat : Append(s, n) \in Seq(Nat) /\ Append(s, n) = s \o <<n>>
<1>1. ASSUME NEW s \in Seq(Nat), NEW t \in Seq(Nat) PROVE s \o t \in Seq(Nat)
  BY ConcatProperties
<1>2. ASSUME NEW s \in Seq(Nat), NEW t \in Seq(Nat), NEW u \in Seq(Nat)
      PROVE  (s \o t) \o u = s \o (t \o u)
  BY ConcatAssociative
<1>3. ASSUME NEW s \in Seq(Nat), NEW n \in Nat
      PROVE  Append(s, n) \in Seq(Nat) /\ Append(s, n) = s \o <<n>>
  BY AppendIs, AppendIsConcat
<1> QED BY <1>1, <1>2, <1>3

LEMMA MoveFirst ==
  ASSUME NEW s \in Seq(Nat), NEW t \in Seq(Nat), t # <<>>
  PROVE  /\ Append(s, Head(t)) \in Seq(Nat) /\ Tail(t) \in Seq(Nat)
         /\ Append(s, Head(t)) \o Tail(t) = s \o t
<1>1. Head(t) \in Nat /\ Tail(t) \in Seq(Nat) /\ Len(t) \in Nat \ {0} /\ Head(t) = t[1]
      /\ Len(Tail(t)) = Len(t) - 1
  BY TailIs, HeadTailProperties, EmptySeq, LenProperties
<1>2. <<Head(t)>> \in Seq(Nat) /\ Len(<<Head(t)>>) = 1 /\ <<Head(t)>>[1] = Head(t)
  BY <1>1
<1>3. <<Head(t)>> \o Tail(t) = t
  <2> DEFINE u == <<Head(t)>> \o Tail(t)
  <2>1. /\ u \in Seq(Nat) /\ Len(u) = Len(t)
        /\ \A i \in 1 .. Len(t) : u[i] = IF i <= 1 THEN Head(t) ELSE Tail(t)[i - 1]
    <3>1. 1 + Len(Tail(t)) = Len(t)
      BY <1>1
    <3>2. /\ u \in Seq(Nat) /\ Len(u) = 1 + Len(Tail(t))
          /\ \A i \in 1 .. 1 + Len(Tail(t)) :
               u[i] = IF i <= 1 THEN <<Head(t)>>[i] ELSE Tail(t)[i - 1]
      BY <1>1, <1>2, ConcatProperties
    <3>3. ASSUME NEW i \in 1 .. Len(t), i <= 1 PROVE <<Head(t)>>[i] = Head(t)
      <4>1. i = 1
        BY <1>1, <3>3
      <4> QED BY <1>2, <4>1
    <3> HIDE DEF u
    <3> QED BY <3>1, <3>2, <3>3
  <2> HIDE DEF u
  <2>2. ASSUME NEW i \in 1 .. Len(t) PROVE u[i] = t[i]
    <3>1. CASE i <= 1
      <4>1. i = 1
        BY <1>1, <3>1
      <4> QED BY <1>1, <2>1, <4>1
    <3>2. CASE ~(i <= 1)
      <4>1. i - 1 \in 1 .. Len(Tail(t)) /\ i - 1 + 1 = i
        BY <1>1, <3>2
      <4>2. Tail(t)[i - 1] = t[i - 1 + 1]
        BY <4>1, HeadTailProperties
      <4> QED BY <2>1, <3>2, <4>1, <4>2
    <3> QED BY <3>1, <3>2
  <2>3. u = t
    BY <2>1, <2>2, SeqEqual
  <2> QED BY <2>3 DEF u
<1>4. Append(s, Head(t)) = s \o <<Head(t)>> /\ Append(s, Head(t)) \in Seq(Nat)
  BY <1>1, AppendIsConcat, AppendIs
<1>5. (s \o <<Head(t)>>) \o Tail(t) = s \o (<<Head(t)>> \o Tail(t))
  BY <1>1, <1>2, ConcatAssociative
<1> QED BY <1>1, <1>3, <1>4, <1>5

LEMMA Prefix ==
  ASSUME NEW p \in Seq(Nat), NEW h \in Seq(Nat), NEW d, Ordered(p \o h, d)
  PROVE  Ordered(p, d) /\ All(p, d) \subseteq All(p \o h, d)
<1> DEFINE q == p \o h
<1>1. /\ q \in Seq(Nat) /\ Len(q) = Len(p) + Len(h)
      /\ \A i \in 1 .. Len(p) + Len(h) : q[i] = IF i <= Len(p) THEN p[i] ELSE h[i - Len(p)]
  BY ConcatProperties
<1>2. Len(p) \in Nat /\ Len(h) \in Nat /\ DOMAIN p = 1 .. Len(p)
  BY LenProperties
<1> HIDE DEF q
<1>3. DOMAIN q = 1 .. Len(p) + Len(h)
  BY <1>1, LenProperties
<1>4. \A i \in DOMAIN p : i \in DOMAIN q /\ q[i] = p[i]
  <2> SUFFICES ASSUME NEW i \in 1 .. Len(p) PROVE i \in DOMAIN q /\ q[i] = p[i]
    BY <1>2
  <2>1. i \in 1 .. Len(p) + Len(h) /\ i <= Len(p)
    BY <1>2
  <2> QED BY <1>1, <1>3, <2>1
<1>5. Ordered(p, d)
  <2>1. Ordered(q, d)
    BY DEF q
  <2> QED BY <1>4, <2>1 DEF Ordered
<1>6. Range(p) \subseteq Range(q)
  BY <1>4 DEF Range
<1> QED BY <1>5, <1>6 DEF All, q

-----------------------------------------------------------------------------
(* The steps of feed f. *)

LEMMA NextEventFlow ==
  ASSUME Calls, NoteForms, StaysGone, NEW f \in Feeds, NextEvent(f),
         \A g \in Feeds : Flow(g)
  PROVE  NoteForms' /\ \A g \in Feeds : Flow(g)'
<1>1. /\ events[f] # <<>>
      /\ got' = [got EXCEPT ![f] = Append(@, Head(events[f]))]
      /\ events' = [events EXCEPT ![f] = Tail(@)]
      /\ UNCHANGED <<caller, task, held, up, down, served, feeding, notes, dropped>>
  BY DEF NextEvent, taskVars, nodeVars
<1>2. /\ Append(got[f], Head(events[f])) \in Seq(Nat) /\ Tail(events[f]) \in Seq(Nat)
      /\ Append(got[f], Head(events[f])) \o Tail(events[f]) = got[f] \o events[f]
  BY <1>1, PassedForm, MoveFirst
<1>3. NoteForms'
  BY <1>1, <1>2 DEF NoteForms
<1>4. ASSUME NEW g \in Feeds PROVE Flow(g)'
  <2>1. CASE g = f
    <3>1. got'[f] \o events'[f] = got[f] \o events[f]
      BY <1>1, <1>2 DEF NoteForms
    <3>2. Passed(f)' = Passed(f)
      BY <1>1, <3>1 DEF Passed
    <3>3. Flow(f)
      OBVIOUS
    <3> QED BY <1>1, <2>1, <3>2, <3>3 DEF Flow, Ordered, All, NoteAt
  <2>2. CASE g # f
    <3>1. Same(g)
      BY <1>1, <2>2 DEF Same, NoteForms
    <3> QED BY <1>1, <3>1, FlowFrame
  <2> QED BY <2>1, <2>2
<1> QED BY <1>3, <1>4

(* The head of the socket goes, and is not passed on. *)
LEMMA TakeFlow ==
  ASSUME Calls, NoteForms, StaysGone, NEW f \in Feeds, \A g \in Feeds : Flow(g),
         down[f] # <<>>, down' = [down EXCEPT ![f] = Tail(@)],
         UNCHANGED <<task, got, events, held, up, served, feeding, notes>>,
         \/ /\ Head(down[f]).kind = "note"
            /\ dropped' = [dropped EXCEPT ![f] = @ \cup {Head(down[f]).n}]
         \/ /\ UNCHANGED dropped
            /\ Head(down[f]).kind # "note" \/ caller[f] = "gone"
  PROVE  NoteForms' /\ \A g \in Feeds : Flow(g)'
<1>1. /\ down[f] \in Seq(OnSocket) /\ Tail(down[f]) \in Seq(OnSocket)
      /\ Head(down[f]) \in OnSocket /\ Head(down[f]) = down[f][1] /\ 1 \in DOMAIN down[f]
  BY TailIs DEF NoteForms
<1>2. Head(down[f]).n \in Nat
  BY <1>1 DEF OnSocket
<1>3. NoteForms'
  <2>1. dropped' \in [Feeds -> SUBSET Nat]
    <3>1. dropped[f] \cup {Head(down[f]).n} \in SUBSET Nat
      BY <1>2 DEF NoteForms
    <3>2. dropped \in [Feeds -> SUBSET Nat]
      BY DEF NoteForms
    <3> QED BY <3>1, <3>2
  <2> QED BY <1>1, <2>1 DEF NoteForms
<1>4. ASSUME NEW g \in Feeds PROVE Flow(g)'
  <2>1. CASE g = f
    <3> DEFINE p == Passed(f)
               d == down[f]
               n == Head(d).n
    <3>1. /\ Passed(f)' = p /\ down'[f] = Tail(d) /\ held'[f] = held[f]
          /\ task'[f] = task[f] /\ notes'[f] = notes[f]
      BY DEF Passed, NoteForms
    <3>2. Flow(f) /\ p \in Seq(Nat)
      BY PassedForm
    <3>3. /\ Ordered(p, Tail(d))
          /\ All(p, Tail(d)) = IF Head(d).kind = "note" THEN All(p, d) \ {n} ELSE All(p, d)
      BY <1>1, <3>2, TakeFirst DEF Flow
    <3>4. Head(d).kind = "note" => n \in All(p, d)
      BY <1>1 DEF All, NoteAt
    <3>5. Ordered(Passed(f), down[f])' /\ All(Passed(f), down[f])' = All(p, Tail(d))
      BY <3>1, <3>3 DEF Ordered, All, NoteAt
    <3>6. caller'[f] # "gone" => caller[f] # "gone"
      BY DEF StaysGone
    <3> HIDE DEF p, d, n
    <3>7. CASE Head(d).kind = "note" /\ dropped'[f] = dropped[f] \cup {n}
      BY <2>1, <3>1, <3>2, <3>3, <3>4, <3>5, <3>6, <3>7 DEF Flow, p, d
    <3>8. CASE dropped'[f] = dropped[f] /\ (Head(d).kind # "note" \/ caller[f] = "gone")
      <4>1. CASE Head(d).kind # "note"
        BY <2>1, <3>1, <3>2, <3>3, <3>5, <3>6, <3>8, <4>1 DEF Flow, p, d
      <4>2. CASE caller[f] = "gone"
        <5>1. caller'[f] = "gone"
          BY <4>2 DEF StaysGone
        <5>2. All(p, Tail(d)) \subseteq All(p, d)
          BY <3>3
        <5> QED BY <2>1, <3>1, <3>2, <3>5, <3>8, <5>1, <5>2 DEF Flow, p, d
      <4> QED BY <3>8, <4>1, <4>2
    <3> QED BY <3>7, <3>8 DEF NoteForms, d, n
  <2>2. CASE g # f
    <3>1. Same(g) /\ task'[g] = task[g]
      BY <2>2 DEF Same, NoteForms
    <3> QED BY <3>1, FlowFrame
  <2> QED BY <2>1, <2>2
<1> QED BY <1>3, <1>4

(* The head of the socket is passed on: into the channel, or held for it. *)
LEMMA PassFlow ==
  ASSUME Calls, NoteForms, StaysGone, NEW f \in Feeds, \A g \in Feeds : Flow(g),
         down[f] # <<>>, Head(down[f]).kind = "note", task[f] = "select",
         down' = [down EXCEPT ![f] = Tail(@)],
         \/ /\ events' = [events EXCEPT ![f] = Append(@, Head(down[f]).n)]
            /\ UNCHANGED <<task, held>>
         \/ /\ task' = [task EXCEPT ![f] = "blocked"]
            /\ held' = [held EXCEPT ![f] = <<Head(down[f]).n>>] /\ UNCHANGED events,
         UNCHANGED <<got, up, served, feeding, notes, dropped>>
  PROVE  NoteForms' /\ \A g \in Feeds : Flow(g)'
<1> DEFINE n == Head(down[f]).n
           d == down[f]
           p == Passed(f)
<1>1. d \in Seq(OnSocket) /\ Tail(d) \in Seq(OnSocket) /\ Head(d) \in OnSocket
  BY TailIs DEF NoteForms
<1>2. n \in Nat
  BY <1>1 DEF OnSocket
<1>3. /\ Flow(f) /\ held[f] = <<>> /\ p = got[f] \o events[f] /\ p \in Seq(Nat)
      /\ got[f] \in Seq(Nat) /\ events[f] \in Seq(Nat)
  <2>1. Flow(f) /\ held[f] = <<>>
    BY DEF Flow
  <2> QED BY <2>1, PassedForm
<1>4. /\ Append(p, n) \in Seq(Nat) /\ Ordered(Append(p, n), Tail(d))
      /\ All(Append(p, n), Tail(d)) = All(p, d)
  BY <1>1, <1>3, PassFirst DEF Flow
<1>5. /\ Append(events[f], n) \in Seq(Nat) /\ <<n>> \in Seq(Nat)
      /\ p \o <<n>> = Append(p, n)
      /\ Append(events[f], n) = events[f] \o <<n>>
      /\ (got[f] \o events[f]) \o <<n>> = got[f] \o (events[f] \o <<n>>)
      /\ Append(p, n) \o <<>> = Append(p, n)
  <2> HIDE DEF n, p
  <2>1. Append(events[f], n) \in Seq(Nat) /\ <<n>> \in Seq(Nat)
    BY <1>2, <1>3, Joined
  <2>2. p \o <<n>> = Append(p, n) /\ Append(events[f], n) = events[f] \o <<n>>
    BY <1>2, <1>3, Joined
  <2>3. (got[f] \o events[f]) \o <<n>> = got[f] \o (events[f] \o <<n>>)
    <3> DEFINE u == <<n>>
    <3>1. u \in Seq(Nat)
      BY <2>1
    <3> HIDE DEF u
    <3>2. (got[f] \o events[f]) \o u = got[f] \o (events[f] \o u)
      BY <1>3, <3>1, Joined
    <3> QED BY <3>2 DEF u
  <2>4. Append(p, n) \o <<>> = Append(p, n)
    BY <1>4, ConcatEmptySeq
  <2> QED BY <2>1, <2>2, <2>3, <2>4
<1> HIDE DEF n, p
<1>6. NoteForms'
  <2>1. events' \in [Feeds -> Seq(Nat)] /\ held' \in [Feeds -> Seq(Nat)]
    BY <1>5 DEF NoteForms, n
  <2> QED BY <1>1, <2>1 DEF NoteForms
<1>7. Passed(f)' = Append(p, n) /\ (task'[f] = "blocked" \/ held'[f] = <<>>)
  <2>1. CASE events' = [events EXCEPT ![f] = Append(@, n)] /\ UNCHANGED <<task, held>>
    <3>1. events'[f] = events[f] \o <<n>> /\ held'[f] = <<>> /\ got'[f] = got[f]
      BY <1>3, <1>5, <2>1 DEF NoteForms
    <3> QED BY <1>3, <1>5, <3>1 DEF Passed
  <2>2. CASE /\ task' = [task EXCEPT ![f] = "blocked"]
             /\ held' = [held EXCEPT ![f] = <<n>>] /\ UNCHANGED events
    <3>1. events'[f] = events[f] /\ held'[f] = <<n>> /\ got'[f] = got[f]
          /\ task'[f] = "blocked"
      BY <2>2 DEF NoteForms, Calls, CallForms
    <3> QED BY <1>3, <1>5, <3>1 DEF Passed
  <2> QED BY <2>1, <2>2 DEF n
<1>8. ASSUME NEW g \in Feeds PROVE Flow(g)'
  <2>1. CASE g = f
    <3>1. down'[f] = Tail(d) /\ notes'[f] = notes[f] /\ dropped'[f] = dropped[f]
      BY DEF NoteForms
    <3>2. Ordered(Passed(f), down[f])' /\ All(Passed(f), down[f])' = All(p, d)
      BY <1>4, <1>7, <3>1, Flowing
    <3>3. caller'[f] # "gone" => caller[f] # "gone" /\ task[f] # "gone"
      BY DEF StaysGone
    <3> QED BY <1>3, <1>7, <2>1, <3>1, <3>2, <3>3 DEF Flow, p
  <2>2. CASE g # f
    <3>1. Same(g) /\ task'[g] = task[g]
      BY <2>2 DEF Same, NoteForms, Calls, CallForms
    <3> QED BY <3>1, FlowFrame
  <2> QED BY <2>1, <2>2
<1> QED BY <1>6, <1>8

LEMMA UnblockFlow ==
  ASSUME Calls, NoteForms, StaysGone, NEW f \in Feeds, \A g \in Feeds : Flow(g),
         Unblock(f)
  PROVE  NoteForms' /\ \A g \in Feeds : Flow(g)'
<1>1. /\ task[f] = "blocked"
      /\ \/ caller[f] = "gone" /\ UNCHANGED events
         \/ events' = [events EXCEPT ![f] = @ \o held[f]]
      /\ task' = [task EXCEPT ![f] = "select"]
      /\ held' = [held EXCEPT ![f] = <<>>]
      /\ UNCHANGED <<got, up, down, served, feeding, notes, dropped>>
  BY DEF Unblock, callerVars, nodeVars
<1>2. /\ Flow(f)
      /\ got[f] \in Seq(Nat) /\ events[f] \in Seq(Nat) /\ held[f] \in Seq(Nat)
      /\ got[f] \o events[f] \in Seq(Nat) /\ events[f] \o held[f] \in Seq(Nat)
      /\ got[f] \o (events[f] \o held[f]) = Passed(f)
      /\ Passed(f) \in Seq(Nat)
  <2>1. /\ got[f] \in Seq(Nat) /\ events[f] \in Seq(Nat) /\ held[f] \in Seq(Nat)
        /\ got[f] \o events[f] \in Seq(Nat) /\ Passed(f) \in Seq(Nat)
    BY PassedForm
  <2>2. events[f] \o held[f] \in Seq(Nat)
    BY <2>1, Joined
  <2>3. (got[f] \o events[f]) \o held[f] = got[f] \o (events[f] \o held[f])
    BY <2>1, Joined
  <2> QED BY <2>1, <2>2, <2>3 DEF Passed
<1>3. NoteForms'
  <2>1. events' \in [Feeds -> Seq(Nat)]
    BY <1>1, <1>2 DEF NoteForms
  <2>2. held' \in [Feeds -> Seq(Nat)]
    <3>1. <<>> \in Seq(Nat)
      OBVIOUS
    <3> QED BY <1>1, <3>1 DEF NoteForms
  <2> QED BY <1>1, <2>1, <2>2 DEF NoteForms
<1>4. /\ held'[f] = <<>> /\ got'[f] = got[f] /\ down'[f] = down[f]
      /\ notes'[f] = notes[f] /\ dropped'[f] = dropped[f]
  BY <1>1 DEF NoteForms
<1>5. Flow(f)'
  <2>1. CASE events' = [events EXCEPT ![f] = @ \o held[f]]
    <3>1. events'[f] = events[f] \o held[f]
      BY <2>1 DEF NoteForms
    <3>2. Passed(f)' = Passed(f)
      BY <1>2, <1>4, <3>1, ConcatEmptySeq DEF Passed
    <3>3. Ordered(Passed(f), down[f])' /\ All(Passed(f), down[f])' = All(Passed(f), down[f])
      BY <1>2, <1>4, <3>2 DEF Flow, Ordered, All, NoteAt
    <3>4. caller'[f] # "gone" => caller[f] # "gone" /\ task[f] # "gone"
      BY <1>1 DEF StaysGone
    <3> QED BY <1>2, <1>4, <3>3, <3>4 DEF Flow
  <2>2. CASE caller[f] = "gone" /\ UNCHANGED events
    <3>1. Passed(f)' = got[f] \o events[f]
      BY <1>2, <1>4, <2>2, ConcatEmptySeq DEF Passed
    <3>2. /\ Ordered(got[f] \o events[f], down[f])
          /\ All(got[f] \o events[f], down[f]) \subseteq All(Passed(f), down[f])
      <4>1. Ordered((got[f] \o events[f]) \o held[f], down[f])
        BY <1>2 DEF Flow, Passed
      <4> QED BY <1>2, <4>1, Prefix DEF Passed
    <3>3. /\ Ordered(Passed(f), down[f])'
          /\ All(Passed(f), down[f])' = All(got[f] \o events[f], down[f])
      BY <1>4, <3>1, <3>2 DEF Ordered, All, NoteAt
    <3>4. caller'[f] = "gone"
      BY <2>2 DEF StaysGone
    <3> QED BY <1>2, <1>4, <3>2, <3>3, <3>4 DEF Flow
  <2> QED BY <1>1, <2>1, <2>2
<1>6. ASSUME NEW g \in Feeds, g # f PROVE Flow(g)'
  <2>1. Same(g) /\ task'[g] = task[g]
    BY <1>1, <1>6 DEF Same, NoteForms, Calls, CallForms
  <2> QED BY <2>1, FlowFrame
<1> QED BY <1>3, <1>5, <1>6

(* The node puts a message on the socket. *)
LEMMA JoinFlow ==
  ASSUME Calls, NoteForms, StaysGone, NEW f \in Feeds, \A g \in Feeds : Flow(g),
         NEW msg \in OnSocket, down' = [down EXCEPT ![f] = Append(@, msg)],
         \/ msg.kind # "note" /\ UNCHANGED notes
         \/ /\ msg.kind = "note" /\ msg.n = notes[f] + 1
            /\ notes' = [notes EXCEPT ![f] = @ + 1],
         UNCHANGED <<task, got, events, held, dropped>>
  PROVE  /\ notes' \in [Feeds -> Nat] /\ down' \in [Feeds -> Seq(OnSocket)]
         /\ \A g \in Feeds : Flow(g)'
<1> DEFINE d == down[f]
           p == Passed(f)
<1>1. d \in Seq(OnSocket) /\ p \in Seq(Nat) /\ notes[f] \in Nat /\ Flow(f)
  BY PassedForm DEF NoteForms
<1>2. Append(d, msg) \in Seq(OnSocket)
  BY <1>1, AppendIs
<1>3. notes' \in [Feeds -> Nat] /\ down' \in [Feeds -> Seq(OnSocket)]
  <2>1. down' \in [Feeds -> Seq(OnSocket)]
    BY <1>2 DEF NoteForms
  <2>2. notes' \in [Feeds -> Nat]
    <3>1. CASE UNCHANGED notes
      BY <3>1 DEF NoteForms
    <3>2. CASE notes' = [notes EXCEPT ![f] = @ + 1]
      BY <3>2 DEF NoteForms
    <3> QED BY <3>1, <3>2
  <2> QED BY <2>1, <2>2
<1>4. /\ Ordered(p, Append(d, msg))
      /\ All(p, Append(d, msg)) = IF msg.kind = "note" THEN All(p, d) \cup {msg.n} ELSE All(p, d)
  <2>1. msg.kind = "note" => \A m \in All(p, d) : m < msg.n
    <3>1. \A m \in 1 .. notes[f] : m < notes[f] + 1
      BY <1>1
    <3> QED BY <1>1, <3>1 DEF Flow
  <2> QED BY <1>1, <2>1, JoinLast DEF Flow
<1>5. /\ Passed(f)' = p /\ down'[f] = Append(d, msg) /\ held'[f] = held[f]
      /\ task'[f] = task[f] /\ dropped'[f] = dropped[f]
  BY DEF Passed, NoteForms
<1>6. /\ Ordered(Passed(f), down[f])'
      /\ All(Passed(f), down[f])' = All(p, Append(d, msg))
  BY <1>4, <1>5 DEF Ordered, All, NoteAt
<1>7. caller'[f] # "gone" => caller[f] # "gone"
  BY DEF StaysGone
<1>8. Flow(f)'
  <2>1. CASE msg.kind # "note" /\ UNCHANGED notes
    BY <1>1, <1>4, <1>5, <1>6, <1>7, <2>1 DEF Flow
  <2>2. CASE /\ msg.kind = "note" /\ msg.n = notes[f] + 1
             /\ notes' = [notes EXCEPT ![f] = @ + 1]
    <3>1. notes'[f] = notes[f] + 1
      BY <2>2 DEF NoteForms
    <3>2. 1 .. notes'[f] = (1 .. notes[f]) \cup {msg.n} /\ msg.n \notin 1 .. notes[f]
      BY <1>1, <2>2, <3>1
    <3>3. All(Passed(f), down[f])' = All(p, d) \cup {msg.n}
      BY <1>4, <1>6, <2>2
    <3> HIDE DEF p, d
    <3> QED BY <1>1, <1>5, <1>6, <1>7, <3>2, <3>3 DEF Flow, p, d
  <2> QED BY <2>1, <2>2
<1>9. ASSUME NEW g \in Feeds, g # f PROVE Flow(g)'
  <2>1. Same(g) /\ task'[g] = task[g]
    BY <1>9 DEF Same, NoteForms
  <2> QED BY <2>1, FlowFrame
<1> QED BY <1>3, <1>8, <1>9

(* A step that touches none of the notifications. *)
LEMMA QuietFlow ==
  ASSUME NoteForms, StaysGone, \A g \in Feeds : Flow(g),
         UNCHANGED <<got, events, held, down, notes, dropped>>,
         \A g \in Feeds : task'[g] = task[g] \/ (task'[g] = "gone" /\ task[g] # "blocked")
  PROVE  \A g \in Feeds : Flow(g)'
<1> SUFFICES ASSUME NEW g \in Feeds PROVE Flow(g)'
  OBVIOUS
<1>1. Same(g)
  BY DEF Same
<1> QED BY <1>1, FlowFrame

-----------------------------------------------------------------------------
Good == Calls /\ NoteForms /\ \A f \in Feeds : Flow(f)

LEMMA GoodInit == ASSUME Init PROVE Good
<1>1. CallForms /\ NoteForms
  <2>1. \A S : <<>> \in Seq(S)
    OBVIOUS
  <2> QED BY <2>1 DEF Init, Each, CallForms, NoteForms
<1>2. ASSUME NEW f \in Feeds PROVE Waits(f)
  <2>1. Len(<<>>) = 0
    OBVIOUS
  <2> QED BY <2>1, WsAssumption DEF Init, Each, Waits
<1>3. ASSUME NEW f \in Feeds PROVE Flow(f)
  <2>1. /\ got[f] = <<>> /\ events[f] = <<>> /\ held[f] = <<>> /\ down[f] = <<>>
        /\ notes[f] = 0 /\ dropped[f] = {}
    BY DEF Init, Each
  <2>2. Passed(f) = <<>>
    BY <2>1, <1>1, PassedForm, ConcatEmptySeq
  <2>3. NoteAt(down[f]) = {} /\ DOMAIN Passed(f) = {}
    BY <2>1, <2>2 DEF NoteAt
  <2>4. All(Passed(f), down[f]) = {} /\ Ordered(Passed(f), down[f])
    BY <2>3 DEF All, Ordered, Range
  <2>5. 1 .. notes[f] = {}
    BY <2>1
  <2> QED BY <2>1, <2>4, <2>5 DEF Flow
<1> QED BY <1>1, <1>2, <1>3 DEF Good, Calls

LEMMA CallerGood ==
  ASSUME Good, NEW f \in Feeds,
         \/ \E a \in Accounts : Subscribe(f, a) \/ SubscribeTooLate(f, a)
         \/ SeeEnd(f) \/ Leave(f) \/ NextEvent(f)
  PROVE  Good'
<1>1. CASE NextEvent(f)
  <2>1. Calls' /\ StaysGone
    <3>1. UNCHANGED <<caller, cmds, table, nextId, task>>
      BY <1>1 DEF NextEvent, taskVars
    <3> QED BY <3>1, QuietCalls DEF Good
  <2> QED BY <1>1, <2>1, NextEventFlow DEF Good
<1>2. CASE \/ \E a \in Accounts : Subscribe(f, a) \/ SubscribeTooLate(f, a)
           \/ SeeEnd(f) \/ Leave(f)
  <2>1. UNCHANGED <<got, events, task, held, up, down, served, feeding, notes, dropped>>
    BY <1>2 DEF Subscribe, SubscribeTooLate, SeeEnd, Leave, taskVars, nodeVars
  <2>2. Calls' /\ StaysGone
    <3>1. CASE (\E a \in Accounts : SubscribeTooLate(f, a)) \/ SeeEnd(f)
      <4>1. UNCHANGED <<caller, cmds, table, nextId, task>>
        BY <3>1 DEF SubscribeTooLate, SeeEnd, taskVars
      <4> QED BY <4>1, QuietCalls DEF Good
    <3> QED BY <1>2, <3>1, SubscribeCalls, LeaveCalls DEF Good
  <2>3. NoteForms'
    BY <2>1 DEF Good, NoteForms
  <2> QED BY <2>1, <2>2, <2>3, QuietFlow DEF Good
<1> QED BY <1>1, <1>2

LEMMA TaskGood ==
  ASSUME Good, NEW f \in Feeds, SendRequest(f) \/ SendFails(f)
                                \/ CloseAfterLeave(f) \/ Disconnect(f)
  PROVE  Good'
<1>1. CASE SendRequest(f)
  <2>1. Calls' /\ StaysGone /\ nextId[f] \in Ids /\ Head(cmds[f]) \in Accounts
    BY <1>1, SendRequestCalls DEF Good
  <2>2. /\ up' = [up EXCEPT ![f] = Append(@, <<nextId[f], Head(cmds[f])>>)]
        /\ UNCHANGED <<got, events, task, held, down, served, feeding, notes, dropped>>
    BY <1>1 DEF SendRequest
  <2>3. NoteForms'
    <3>1. <<nextId[f], Head(cmds[f])>> \in Asked
      BY <2>1 DEF Asked
    <3>2. Append(up[f], <<nextId[f], Head(cmds[f])>>) \in Seq(Asked)
      BY <3>1, AppendIs DEF Good, NoteForms
    <3>3. up' \in [Feeds -> Seq(Asked)]
      BY <2>2, <3>2 DEF Good, NoteForms
    <3> QED BY <2>2, <3>3 DEF Good, NoteForms
  <2> QED BY <2>1, <2>2, <2>3, QuietFlow DEF Good
<1>2. CASE SendFails(f) \/ CloseAfterLeave(f) \/ Disconnect(f)
  <2>1. Calls' /\ StaysGone
    BY <1>2, EndCalls DEF Good
  <2>2. /\ task[f] = "select" /\ task' = [task EXCEPT ![f] = "gone"]
        /\ UNCHANGED <<got, events, held, up, down, served, feeding, notes, dropped>>
    BY <1>2 DEF SendFails, CloseAfterLeave, Disconnect, Exit, callerVars, nodeVars
  <2>3. NoteForms'
    BY <2>2 DEF Good, NoteForms
  <2>4. \A g \in Feeds : task'[g] = task[g] \/ (task'[g] = "gone" /\ task[g] # "blocked")
    BY <2>2 DEF Good, Calls, CallForms
  <2> QED BY <2>1, <2>2, <2>3, <2>4, QuietFlow DEF Good
<1> QED BY <1>1, <1>2

LEMMA ReadGood ==
  ASSUME Good, NEW f \in Feeds, ReadResponse(f) \/ DropNote(f) \/ ForwardNote(f) \/ Unblock(f)
  PROVE  Good'
<1>1. CASE ReadResponse(f)
  <2>1. /\ down[f] # <<>> /\ Head(down[f]).kind \in {"result", "error"}
        /\ down' = [down EXCEPT ![f] = Tail(@)]
        /\ UNCHANGED <<task, got, events, held, up, served, feeding, notes, dropped>>
    BY <1>1 DEF ReadResponse
  <2>2. Head(down[f]) \in OnSocket
    BY <2>1, TailIs DEF Good, NoteForms
  <2>3. Calls' /\ StaysGone
    BY <1>1, <2>2, ReadResponseCalls DEF Good
  <2>4. Head(down[f]).kind # "note"
    BY <2>1
  <2> QED BY <2>1, <2>3, <2>4, TakeFlow DEF Good
<1>2. CASE DropNote(f)
  <2>1. /\ down[f] # <<>> /\ Head(down[f]).kind = "note"
        /\ dropped' = [dropped EXCEPT ![f] = @ \cup {Head(down[f]).n}]
        /\ down' = [down EXCEPT ![f] = Tail(@)]
        /\ UNCHANGED <<caller, cmds, table, nextId, task, got, events, held, up,
                       served, feeding, notes>>
    BY <1>2 DEF DropNote, NoteAtHand, callerVars, taskVars
  <2>2. Calls' /\ StaysGone
    BY <2>1, QuietCalls DEF Good
  <2> QED BY <2>1, <2>2, TakeFlow DEF Good
<1>3. CASE ForwardNote(f)
  <2>1. /\ down[f] # <<>> /\ Head(down[f]).kind = "note" /\ task[f] = "select"
        /\ \/ caller[f] = "gone" /\ UNCHANGED <<events, task, held>>
           \/ /\ events' = [events EXCEPT ![f] = Append(@, Head(down[f]).n)]
              /\ UNCHANGED <<task, held>>
           \/ /\ task' = [task EXCEPT ![f] = "blocked"]
              /\ held' = [held EXCEPT ![f] = <<Head(down[f]).n>>] /\ UNCHANGED events
        /\ down' = [down EXCEPT ![f] = Tail(@)]
        /\ UNCHANGED <<caller, cmds, table, nextId, got, up, served, feeding, notes, dropped>>
    BY <1>3 DEF ForwardNote, NoteAtHand, callerVars
  <2>2. Calls' /\ StaysGone
    BY <2>1, QuietCalls DEF Good
  <2>3. CASE caller[f] = "gone" /\ UNCHANGED <<events, task, held>>
    BY <2>1, <2>2, <2>3, TakeFlow DEF Good
  <2>4. CASE \/ /\ events' = [events EXCEPT ![f] = Append(@, Head(down[f]).n)]
                /\ UNCHANGED <<task, held>>
             \/ /\ task' = [task EXCEPT ![f] = "blocked"]
                /\ held' = [held EXCEPT ![f] = <<Head(down[f]).n>>] /\ UNCHANGED events
    BY <2>1, <2>2, <2>4, PassFlow DEF Good
  <2> QED BY <2>1, <2>3, <2>4
<1>4. CASE Unblock(f)
  <2>1. /\ UNCHANGED <<caller, cmds, table, nextId>>
        /\ task[f] = "blocked" /\ task' = [task EXCEPT ![f] = "select"]
    BY <1>4 DEF Unblock, callerVars
  <2>2. Calls' /\ StaysGone
    BY <2>1, QuietCalls DEF Good
  <2> QED BY <1>4, <2>2, UnblockFlow DEF Good
<1> QED BY <1>1, <1>2, <1>3, <1>4

LEMMA NodeGood ==
  ASSUME Good, NEW f \in Feeds, Accept(f) \/ Respond(f) \/ Notify(f)
  PROVE  Good'
<1>1. UNCHANGED <<caller, cmds, table, nextId, task, got, events, held, dropped>>
  BY DEF Accept, Respond, Notify, callerVars, taskVars
<1>2. Calls' /\ StaysGone
  BY <1>1, QuietCalls DEF Good
<1>3. CASE Accept(f)
  <2>1. /\ up[f] # <<>> /\ up' = [up EXCEPT ![f] = Tail(@)]
        /\ served' = [served EXCEPT ![f] = @ \cup {Head(up[f])}]
        /\ feeding' = [feeding EXCEPT ![f] = @ \cup {Head(up[f])}]
        /\ UNCHANGED <<down, notes>>
    BY <1>3 DEF Accept
  <2>2. Tail(up[f]) \in Seq(Asked) /\ Head(up[f]) \in Asked
    BY <2>1, TailIs DEF Good, NoteForms
  <2>3. NoteForms'
    BY <1>1, <2>1, <2>2 DEF Good, NoteForms
  <2> QED BY <1>1, <1>2, <2>1, <2>3, QuietFlow DEF Good
<1>4. CASE Respond(f)
  <2>1. PICK req \in served[f], kind \in {"result", "error"} :
          /\ down' = [down EXCEPT ![f] = Append(@, Message(kind, req, 0))]
          /\ served' = [served EXCEPT ![f] = @ \ {req}]
          /\ feeding' = [feeding EXCEPT ![f] = IF kind = "error" THEN @ \ {req} ELSE @]
          /\ UNCHANGED <<up, notes>>
    BY <1>4 DEF Respond
  <2>2. Message(kind, req, 0) \in OnSocket /\ Message(kind, req, 0).kind # "note"
    BY DEF Message, OnSocket, Good, NoteForms
  <2>3. down' \in [Feeds -> Seq(OnSocket)] /\ \A g \in Feeds : Flow(g)'
    BY <1>1, <1>2, <2>1, <2>2, JoinFlow DEF Good
  <2>4. NoteForms'
    BY <1>1, <2>1, <2>3 DEF Good, NoteForms
  <2> QED BY <1>2, <2>3, <2>4 DEF Good
<1>5. CASE Notify(f)
  <2>1. PICK req \in feeding[f] :
          /\ notes' = [notes EXCEPT ![f] = @ + 1]
          /\ down' = [down EXCEPT ![f] = Append(@, Message("note", req, notes[f] + 1))]
          /\ UNCHANGED <<up, served, feeding>>
    BY <1>5 DEF Notify
  <2> DEFINE msg == Message("note", req, notes[f] + 1)
  <2>2. msg \in OnSocket /\ msg.kind = "note" /\ msg.n = notes[f] + 1
    BY DEF Message, OnSocket, Good, NoteForms
  <2>3. /\ notes' \in [Feeds -> Nat] /\ down' \in [Feeds -> Seq(OnSocket)]
        /\ \A g \in Feeds : Flow(g)'
    <3> HIDE DEF msg
    <3>1. down' = [down EXCEPT ![f] = Append(@, msg)]
      BY <2>1 DEF msg
    <3> QED BY <1>1, <1>2, <2>1, <2>2, <3>1, JoinFlow DEF Good
  <2>4. NoteForms'
    BY <1>1, <2>1, <2>3 DEF Good, NoteForms
  <2> QED BY <1>2, <2>3, <2>4 DEF Good
<1> QED BY <1>3, <1>4, <1>5

LEMMA GoodStep == ASSUME Good, [Next]_vars PROVE Good'
<1>1. CASE UNCHANGED vars
  <2>1. UNCHANGED <<caller, cmds, table, nextId, task, got, events, held, up, down,
                    served, feeding, notes, dropped>>
    BY <1>1 DEF vars, callerVars, taskVars, nodeVars
  <2>2. CallForms' /\ NoteForms'
    BY <2>1 DEF Good, Calls, CallForms, NoteForms
  <2>3. \A f \in Feeds : Waits(f)'
    BY <2>1 DEF Good, Calls, Waits
  <2>4. StaysGone
    BY <2>1 DEF StaysGone
  <2> QED BY <2>1, <2>2, <2>3, <2>4, QuietFlow DEF Good, Calls
<1>2. CASE Next
  <2> PICK f \in Feeds :
        \/ \E a \in Accounts : Subscribe(f, a) \/ SubscribeTooLate(f, a)
        \/ Notify(f)
        \/ Poll(f) \/ Leave(f) \/ Run(f) \/ Disconnect(f) \/ Node(f)
    BY <1>2 DEF Next
  <2>1. CASE \E a \in Accounts : Subscribe(f, a) \/ SubscribeTooLate(f, a)
    BY <2>1, CallerGood
  <2>2. CASE Poll(f) \/ Leave(f)
    BY <2>2, CallerGood DEF Poll
  <2>3. CASE Run(f) \/ Disconnect(f)
    BY <2>3, TaskGood, ReadGood DEF Run
  <2>4. CASE Node(f) \/ Notify(f)
    BY <2>4, NodeGood DEF Node
  <2> QED BY <2>1, <2>2, <2>3, <2>4
<1> QED BY <1>1, <1>2

LEMMA GoodAlways == Spec => []Good
<1>1. Init => Good
  BY GoodInit
<1>2. Good /\ [Next]_vars => Good'
  BY GoodStep
<1> QED BY <1>1, <1>2, PTL DEF Spec

(* Notifications reach next_event in the order the node sent them, each at *)
(* most once, whatever the capacity of the channel, the number of feeds    *)
(* that share the reply table, and the moment the task blocks or the       *)
(* caller leaves (handle_notification, events.send, next_event).           *)
THEOREM EventsInOrder == Spec => []InOrderOnce
<1>1. Good => InOrderOnce
  <2> SUFFICES ASSUME Good, NEW f \in Feeds PROVE Ordered(Passed(f), down[f])
    BY DEF InOrderOnce, Ordered, NoteAt, Coming
  <2> QED BY DEF Good, Flow
<1> QED BY <1>1, GoodAlways, PTL

(* While the caller and the task live, every notification sent is          *)
(* delivered, on its way, or one the task threw away because it does not   *)
(* forward it: the full channel makes the task wait and loses nothing.     *)
THEOREM NothingIsLost == Spec => []NothingLost
<1>1. Good => NothingLost
  <2> SUFFICES ASSUME Good, NEW f \in Feeds, caller[f] # "gone", task[f] # "gone"
               PROVE  All(Passed(f), down[f]) = (1 .. notes[f]) \ dropped[f]
    BY DEF NothingLost, All, NoteAt, Coming
  <2> QED BY DEF Good, Flow
<1> QED BY <1>1, GoodAlways, PTL
=============================================================================
