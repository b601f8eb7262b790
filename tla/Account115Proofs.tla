-------------------------- MODULE Account115Proofs --------------------------
(***************************************************************************)
(* Proofs about Account115, for any number of requests, clients and        *)
(* attempts, and any number of rotations, faults and crashes.              *)
(***************************************************************************)
EXTENDS Account115, TLAPS

\* Who is going to write a row has read one; who is going to store a pair has received one.
WritersHaveRead ==
  /\ \A c \in Testers : open[c] => copy[c] \in Rows
  /\ loop.step # "idle" => loop.row \in Rows
  /\ loop.step = "new" <=> loop.pair # None
  /\ \A r \in Requests : pc[r] \in {"answer", "persist"} => got[r] \in Pairs

\* A client is not closed while a request uses it.
RequestsKeepClients == \A r \in Requests : on[r] # None => open[on[r]]

\* Under the lock, the token that is sent stays the client's token.
SentIsKept ==
  \A r \in Requests : pc[r] \in {"refresh", "answer"} => used[r] = refresh[on[r]]

\* The pair on its way to a client is the working one unless somebody else has rotated it.
AnswerWorks ==
  \A r \in Requests : pc[r] = "answer" /\ ~foreign[on[r]] => got[r] = live

\* Rows that are marked as dead, in the database or in memory, have a spent pair.
Spent(rw) == rw \in Rows /\ ~rw.usable => rw.pair < live
DeadRowsAreSpent ==
  /\ Spent(row) /\ Spent(edit) /\ Spent(loop.row)
  /\ \A c \in Clients : Spent(copy[c])
  /\ loop.step = "dead" => loop.row.pair < live

IInv ==
  /\ TypeOK
  /\ WritersHaveRead
  /\ RequestsKeepClients
  /\ SentIsKept
  /\ AnswerWorks
  /\ DeadRowsAreSpent
  /\ OwnRotationsDontHurt
  /\ WorkingPairIsKept

---------------------------------------------------------------------------
(* Types, in parts. *)

ServerTyped == live \in Nat /\ fresh \subseteq Pairs /\ row \in Rows
ClientsTyped ==
  /\ open \in [Clients -> BOOLEAN] /\ foreign \in [Clients -> BOOLEAN]
  /\ access \in [Clients -> Maybe(Pairs)] /\ refresh \in [Clients -> Maybe(Pairs)]
  /\ holder \in [Clients -> Maybe(Requests)]
  /\ copy \in [Clients -> Maybe(Rows)] /\ pinged \subseteq Testers
RequestsTyped ==
  /\ pc \in [Requests -> Steps] /\ on \in [Requests -> Maybe(Clients)]
  /\ used \in [Requests -> Maybe(Pairs)] /\ got \in [Requests -> Maybe(Pairs)]
  /\ attempt \in [Requests -> 0 .. Retries] /\ tries \in [Requests -> 0 .. RefreshAttempts - 1]
WritersTyped ==
  /\ loop \in [step : {"idle", "refresh", "new", "dead", "same"}, row : Maybe(Rows), pair : Maybe(Pairs)]
  /\ edit \in Maybe(Rows)
Locked ==
  /\ \A r \in Requests : pc[r] # "idle" <=> on[r] # None
  /\ \A r \in Requests : pc[r] \in {"refresh", "answer"} => holder[on[r]] = r
Bounded ==
  /\ jobs \in 0 .. MaxJobs /\ calls \in 0 .. MaxCalls
  /\ expiries \in 0 .. MaxExpiries /\ faults \in 0 .. MaxFaults
  /\ lost \in BOOLEAN /\ stale \in BOOLEAN

LEMMA TypeParts ==
  TypeOK <=> ServerTyped /\ ClientsTyped /\ RequestsTyped /\ WritersTyped /\ Locked /\ Bounded
BY Zenon DEF TypeOK, ServerTyped, ClientsTyped, RequestsTyped, WritersTyped, Locked, Bounded

LEMMA BoundsAreNumbers ==
  /\ Retries \in Nat /\ MaxExpiries \in Nat /\ MaxJobs \in Nat /\ MaxCalls \in Nat /\ MaxFaults \in Nat
  /\ RefreshAttempts \in Nat /\ RefreshAttempts > 0
BY BoundsAssumption

\* A pair that was handed out stays so.
LEMMA PairsGrow ==
  ASSUME live \in Nat, live' \in Nat, live <= live'
  PROVE  Pairs \subseteq Pairs' /\ Rows \subseteq Rows'
<1>1. Pairs \subseteq Pairs'
  BY DEF Pairs
<1>. QED  BY <1>1 DEF Rows

LEMMA RowsAreRecords ==
  ASSUME live \in Nat
  PROVE  /\ None \notin Rows /\ None \notin Pairs
         /\ \A rw \in Rows : rw.pair \in Pairs /\ rw.usable \in BOOLEAN /\ rw.recent \in BOOLEAN
         /\ \A p \in Pairs, u \in BOOLEAN, n \in BOOLEAN : [pair |-> p, usable |-> u, recent |-> n] \in Rows
BY ClientsAssumption, NoneIsNoRow DEF Pairs, Rows

---------------------------------------------------------------------------
(* Who writes what. *)

LEMMA Writers ==
  ASSUME [Next]_vars
  PROVE  /\ UNCHANGED copy \/ \E c \in Clients : Build(c)
         /\ UNCHANGED open \/ Crash \/ \E c \in Clients : Build(c) \/ Close(c) \/ TestEnds(c)
         /\ \/ UNCHANGED <<access, refresh>>
            \/ \E c \in Clients : Build(c)
            \/ \E r \in Requests : RefreshDead(r) \/ PairArrives(r)
         /\ \/ UNCHANGED holder \/ Crash
            \/ \E r \in Requests : \/ Lock(r) \/ RefreshDead(r) \/ RefreshFails(r)
                                   \/ PairArrives(r) \/ PairLost(r)
         /\ UNCHANGED live \/ LoopRefreshes \/ \E r \in Requests : RefreshAccepted(r)
         /\ \/ UNCHANGED foreign \/ LoopRefreshes
            \/ \E c \in Clients : Build(c)
            \/ \E r \in Requests : RefreshAccepted(r)
         /\ \/ UNCHANGED row \/ EditWrites \/ DayPasses \/ LoopWrites
            \/ \E c \in Clients : TestEnds(c)
            \/ \E r \in Requests : Persist(r)
         /\ UNCHANGED loop \/ LoopReads \/ LoopRefreshes \/ LoopWrites \/ Crash
         /\ UNCHANGED edit \/ EditReads \/ EditWrites \/ Crash
         /\ \/ UNCHANGED request \/ Crash
            \/ \E r \in Requests, c \in Clients : Call(r, c)
            \/ \E r \in Requests : RequestStep(r) \/ GiveUp(r)
         /\ lost => lost'
         /\ stale => stale'
<1>. USE DEF vars, server, client, request, bounds, history
<1>1. CASE UNCHANGED vars
  BY <1>1
<1>2. ASSUME NEW g \in fresh, Expire(g)
      PROVE  UNCHANGED <<live, row, client, holder, request, loop, edit, history>>
  BY <1>2 DEF Expire
<1>3. ASSUME NEW c \in Clients, Build(c)
      PROVE  UNCHANGED <<server, row, holder, request, loop, edit, lost, stale>>
  BY <1>3 DEF Build
<1>4. ASSUME NEW c \in Clients, Close(c)
      PROVE  UNCHANGED <<server, row, access, refresh, copy, holder, request, loop, edit, history>>
  BY <1>4 DEF Close
<1>5. ASSUME NEW c \in Clients, TestEnds(c)
      PROVE  UNCHANGED <<server, access, refresh, copy, holder, request, loop, edit, lost, foreign>> /\ (stale => stale')
  <2>1. UNCHANGED stale \/ Store(copy[c])
    BY <1>5 DEF TestEnds
  <2>2. stale => stale'
    BY <2>1 DEF Store
  <2>. QED  BY <1>5, <2>2 DEF TestEnds
<1>6. ASSUME EditReads
      PROVE  UNCHANGED <<server, row, client, holder, request, loop, history>>
  BY <1>6 DEF EditReads
<1>7. ASSUME EditWrites
      PROVE  UNCHANGED <<server, client, holder, request, loop, lost, foreign>> /\ (stale => stale')
  BY <1>7 DEF EditWrites, Store
<1>8. ASSUME NEW r \in Requests, NEW c \in Clients, Call(r, c)
      PROVE  UNCHANGED <<server, row, open, access, refresh, copy, holder, loop, edit, history>>
  BY <1>8 DEF Call
<1>9. ASSUME NEW r \in Requests, Send(r) \/ Answered(r) \/ GiveUp(r)
      PROVE  UNCHANGED <<server, row, client, holder, loop, edit, history>>
  BY <1>9 DEF Send, Answered, GiveUp
<1>10. ASSUME NEW r \in Requests, Lock(r) \/ RefreshFails(r)
       PROVE  UNCHANGED <<server, row, client, loop, edit, history>>
  BY <1>10 DEF Lock, RefreshFails
<1>11. ASSUME NEW r \in Requests, RefreshAccepted(r)
       PROVE  UNCHANGED <<row, client, holder, loop, edit, lost, stale>>
  BY <1>11 DEF RefreshAccepted
<1>12. ASSUME NEW r \in Requests, RefreshDead(r) \/ PairArrives(r)
       PROVE  UNCHANGED <<server, row, open, copy, loop, edit, history>>
  BY <1>12 DEF RefreshDead, PairArrives
<1>13. ASSUME NEW r \in Requests, PairLost(r)
       PROVE  UNCHANGED <<server, row, client, loop, edit, stale, foreign>> /\ lost'
  BY <1>13 DEF PairLost
<1>14. ASSUME NEW r \in Requests, Persist(r)
       PROVE  UNCHANGED <<server, client, holder, loop, edit, foreign>> /\ (lost => lost') /\ (stale => stale')
  <2>1. (UNCHANGED lost \/ lost' = TRUE) /\ (UNCHANGED stale \/ Store([pair |-> got[r], usable |-> TRUE, recent |-> TRUE]))
    BY <1>14 DEF Persist
  <2>2. lost => lost'
    BY <2>1
  <2>3. stale => stale'
    BY <2>1 DEF Store
  <2>. QED  BY <1>14, <2>2, <2>3 DEF Persist
<1>15. ASSUME DayPasses
       PROVE  UNCHANGED <<server, client, holder, request, loop, edit, history>>
  BY <1>15 DEF DayPasses
<1>16. ASSUME LoopReads
       PROVE  UNCHANGED <<server, row, client, holder, request, edit, history>>
  BY <1>16 DEF LoopReads
<1>17. ASSUME LoopRefreshes
       PROVE  UNCHANGED <<row, client, holder, request, edit, stale>> /\ (lost => lost')
  BY <1>17 DEF LoopRefreshes
<1>18. ASSUME LoopWrites
       PROVE  UNCHANGED <<server, client, holder, request, edit, foreign>> /\ (lost => lost') /\ (stale => stale')
  <2>1. (UNCHANGED lost \/ lost' = TRUE) /\ (UNCHANGED stale \/ Store(LoopRow))
    BY <1>18 DEF LoopWrites
  <2>2. lost => lost'
    BY <2>1
  <2>3. stale => stale'
    BY <2>1 DEF Store
  <2>. QED  BY <1>18, <2>2, <2>3 DEF LoopWrites
<1>19. ASSUME Crash
       PROVE  UNCHANGED <<server, row, access, refresh, copy, stale, foreign>> /\ lost'
  BY <1>19 DEF Crash
<1>. QED
  BY <1>1, <1>2, <1>3, <1>4, <1>5, <1>6, <1>7, <1>8, <1>9, <1>10, <1>11, <1>12, <1>13, <1>14,
     <1>15, <1>16, <1>17, <1>18, <1>19 DEF Next, RequestStep

\* The number of rotations only grows.
LEMMA StepLive ==
  ASSUME TypeOK, [Next]_vars
  PROVE  live' \in Nat /\ live <= live'
<1>1. live \in Nat
  BY DEF TypeOK
<1>2. live' = live \/ live' = live + 1
  BY Writers DEF server, RefreshAccepted, LoopRefreshes, Rotate
<1>. QED  BY <1>1, <1>2

---------------------------------------------------------------------------
(* Types, step by step. *)

LEMMA StepServer ==
  ASSUME IInv, [Next]_vars
  PROVE  ServerTyped'
<1>1. /\ live' \in Nat /\ live <= live' /\ Pairs \subseteq Pairs' /\ Rows \subseteq Rows'
      /\ live \in Nat /\ fresh \subseteq Pairs /\ row \in Rows
  BY StepLive, PairsGrow DEF IInv, TypeOK
<1>2. fresh' \subseteq Pairs'
  <2>1. (fresh' \subseteq fresh) \/ (live' = live + 1 /\ fresh' = fresh \union {live + 1})
    BY DEF Next, RequestStep, vars, server, Rotate, Expire, Build, Close, TestEnds, EditReads, EditWrites, Call, Send, GiveUp, Answered,
       Lock, RefreshAccepted, RefreshDead, RefreshFails, PairArrives, PairLost, Persist,
       DayPasses, LoopReads, LoopRefreshes, LoopWrites, Crash
  <2>2. live' = live + 1 => live + 1 \in Pairs'
    BY <1>1 DEF Pairs
  <2>. QED  BY <1>1, <2>1, <2>2
<1>3. row' \in Rows'
  <2>1. CASE UNCHANGED row
    BY <1>1, <2>1
  <2>2. ASSUME NEW c \in Clients, TestEnds(c)
        PROVE  row' \in Rows
    BY <1>1, <2>2 DEF TestEnds, Idle, Store, IInv, WritersHaveRead
  <2>3. ASSUME EditWrites
        PROVE  row' \in Rows
    BY <2>3 DEF EditWrites, Store, IInv, TypeOK, Maybe
  <2>4. ASSUME NEW r \in Requests, Persist(r), ~UNCHANGED row
        PROVE  row' \in Rows
    <3>1. got[r] \in Pairs
      BY <2>4 DEF Persist, IInv, WritersHaveRead
    <3>. QED  BY <1>1, <2>4, <3>1, RowsAreRecords DEF Persist, Store
  <2>5. ASSUME DayPasses
        PROVE  row' \in Rows
    BY <1>1, <2>5 DEF DayPasses, Rows
  <2>6. ASSUME LoopWrites, ~UNCHANGED row
        PROVE  row' \in Rows
    <3>1. loop.row \in Rows /\ loop.step \in {"new", "dead", "same"} /\ row' = LoopRow
      BY <2>6 DEF LoopWrites, Store, IInv, WritersHaveRead
    <3>2. loop.step = "new" => loop.pair \in Pairs
      BY DEF IInv, WritersHaveRead, TypeOK, WritersTyped, Maybe
    <3>. QED  BY <3>1, <3>2 DEF LoopRow, Rows
  <2>. QED  BY <1>1, <2>1, <2>2, <2>3, <2>4, <2>5, <2>6, Writers
<1>. QED  BY <1>1, <1>2, <1>3 DEF ServerTyped

LEMMA StepClients ==
  ASSUME IInv, [Next]_vars
  PROVE  ClientsTyped'
<1>1. Pairs \subseteq Pairs' /\ Rows \subseteq Rows' /\ live \in Nat /\ row \in Rows /\ row.pair \in Pairs
  BY StepLive, PairsGrow, RowsAreRecords DEF IInv, TypeOK
<1>2. ClientsTyped
  BY TypeParts DEF IInv
<1>3. /\ open \in [Clients -> BOOLEAN] /\ foreign \in [Clients -> BOOLEAN]
      /\ access \in [Clients -> Maybe(Pairs')] /\ refresh \in [Clients -> Maybe(Pairs')]
      /\ holder \in [Clients -> Maybe(Requests)]
      /\ copy \in [Clients -> Maybe(Rows')] /\ pinged \subseteq Testers
  BY <1>1, <1>2 DEF Maybe, ClientsTyped
<1>4. \A r \in Requests : got[r] \in Maybe(Pairs')
  BY <1>1 DEF IInv, TypeOK, Maybe
<1>5. open' \in [Clients -> BOOLEAN]
  BY <1>3, Writers DEF Set, Build, Close, TestEnds, Crash
<1>6. pinged' \subseteq Testers
  BY <1>3 DEF vars, client, Next, RequestStep, Expire, Build, Close, TestEnds, EditReads, EditWrites,
     Call, Send, GiveUp, Answered, Lock, RefreshAccepted, RefreshDead, RefreshFails, PairArrives, PairLost, Persist,
     DayPasses, LoopReads, LoopRefreshes, LoopWrites, Crash
<1>7. foreign' \in [Clients -> BOOLEAN]
  BY <1>3, Writers DEF Set, Build, LoopRefreshes, RefreshAccepted, Rotate
<1>8. holder' \in [Clients -> Maybe(Requests)]
  BY <1>3, Writers DEF Set, Maybe, Unlock, Lock, RefreshDead, RefreshFails, RefreshAgain, PairArrives, PairLost, Crash
<1>9. copy' \in [Clients -> Maybe(Rows')]
  BY <1>1, <1>3, Writers DEF Set, Maybe, Build
<1>10. access' \in [Clients -> Maybe(Pairs')] /\ refresh' \in [Clients -> Maybe(Pairs')]
  BY <1>1, <1>3, <1>4, Writers DEF Set, Maybe, Build, RefreshDead, PairArrives
<1>. QED  BY <1>5, <1>6, <1>7, <1>8, <1>9, <1>10 DEF ClientsTyped

\* The requests, typed by the pairs of the next state.
Carried ==
  /\ pc \in [Requests -> Steps] /\ on \in [Requests -> Maybe(Clients)]
  /\ used \in [Requests -> Maybe(Pairs')] /\ got \in [Requests -> Maybe(Pairs')]
  /\ attempt \in [Requests -> 0 .. Retries] /\ tries \in [Requests -> 0 .. RefreshAttempts - 1]

LEMMA ReturnTyped ==
  ASSUME Carried, NEW r \in Requests, Return(r)
  PROVE  RequestsTyped'
BY BoundsAreNumbers DEF Carried, RequestsTyped, Return, Set, Maybe, Steps

LEMMA NextAttemptTyped ==
  ASSUME Carried, NEW r \in Requests, NextAttempt(r)
  PROVE  RequestsTyped'
<1>1. CASE Return(r)
  BY <1>1, ReturnTyped
<1>2. CASE ~Return(r)
  BY <1>2, BoundsAreNumbers DEF Carried, RequestsTyped, NextAttempt, Set, Maybe, Steps
<1>. QED  BY <1>1, <1>2 DEF NextAttempt

LEMMA RefreshAgainTyped ==
  ASSUME Carried, NEW r \in Requests, RefreshAgain(r)
  PROVE  RequestsTyped'
<1>1. CASE Return(r)
  BY <1>1, ReturnTyped
<1>2. CASE ~Return(r)
  BY <1>2, BoundsAreNumbers DEF Carried, RequestsTyped, RefreshAgain, Set, Maybe, Steps
<1>. QED  BY <1>1, <1>2 DEF RefreshAgain

LEMMA StepRequests ==
  ASSUME IInv, [Next]_vars
  PROVE  RequestsTyped'
<1>1. Pairs \subseteq Pairs' /\ live \in Nat /\ live' \in Nat
  BY StepLive, PairsGrow DEF IInv, TypeOK
<1>2. Carried /\ access \in [Clients -> Maybe(Pairs')] /\ refresh \in [Clients -> Maybe(Pairs')]
  BY <1>1 DEF IInv, TypeOK, Carried, Maybe
<1>3. ASSUME UNCHANGED request
      PROVE  RequestsTyped'
  BY <1>2, <1>3 DEF request, Carried, RequestsTyped
<1>4. ASSUME NEW r \in Requests, NEW c \in Clients, Call(r, c)
      PROVE  RequestsTyped'
  BY <1>2, <1>4 DEF Call, Set, Carried, RequestsTyped, Steps, Maybe
<1>5. ASSUME NEW r \in Requests, Send(r) \/ Lock(r)
      PROVE  RequestsTyped'
  <2>1. on[r] \in Clients
    BY <1>5 DEF Send, Lock, IInv, TypeOK, Maybe
  <2>. QED  BY <1>2, <1>5, <2>1 DEF Send, Lock, Set, Carried, RequestsTyped, Steps, Maybe
<1>6. ASSUME NEW r \in Requests, Answered(r) \/ GiveUp(r)
      PROVE  RequestsTyped'
  BY <1>2, <1>6, ReturnTyped, NextAttemptTyped DEF Answered, GiveUp, Set, Carried, RequestsTyped, Steps
<1>7. ASSUME NEW r \in Requests, RefreshAccepted(r)
      PROVE  RequestsTyped'
  <2>1. live + 1 \in Pairs'
    BY <1>1, <1>7 DEF RefreshAccepted, Rotate, Pairs
  <2>. QED  BY <1>2, <1>7, <2>1 DEF RefreshAccepted, Set, Carried, RequestsTyped, Steps, Maybe
<1>8. ASSUME NEW r \in Requests, RefreshDead(r)
      PROVE  RequestsTyped'
  BY <1>2, <1>8, ReturnTyped DEF RefreshDead
<1>9. ASSUME NEW r \in Requests, RefreshFails(r) \/ PairLost(r)
      PROVE  RequestsTyped'
  BY <1>2, <1>9, RefreshAgainTyped DEF RefreshFails, PairLost
<1>10. ASSUME NEW r \in Requests, PairArrives(r)
       PROVE  RequestsTyped'
  BY <1>2, <1>10 DEF PairArrives, Set, Carried, RequestsTyped, Steps
<1>11. ASSUME NEW r \in Requests, Persist(r)
       PROVE  RequestsTyped'
  BY <1>2, <1>11, NextAttemptTyped DEF Persist
<1>12. ASSUME Crash
       PROVE  RequestsTyped'
  BY <1>12, BoundsAreNumbers DEF Crash, RequestsTyped, Steps, Maybe
<1>. QED
  BY <1>3, <1>4, <1>5, <1>6, <1>7, <1>8, <1>9, <1>10, <1>11, <1>12, Writers DEF RequestStep

---------------------------------------------------------------------------
(* What a step does to the requests. *)

\* What the other requests keep.
SameRequest(q) ==
  pc'[q] = pc[q] /\ on'[q] = on[q] /\ used'[q] = used[q] /\ got'[q] = got[q]

\* The request is over, or its next attempt begins, or its refresh is tried again.
Over(r) == pc'[r] = "idle" /\ on'[r] = None
Resent(r) == pc'[r] = "send" /\ on'[r] = on[r]
Retried(r) == pc'[r] = "refresh" /\ on'[r] = on[r] /\ used'[r] = used[r] /\ holder' = holder

LEMMA ReturnDoes ==
  ASSUME RequestsTyped, NEW r \in Requests, Return(r)
  PROVE  Over(r) /\ \A q \in Requests : q # r => SameRequest(q)
BY DEF RequestsTyped, Return, Set, Over, SameRequest

LEMMA NextAttemptDoes ==
  ASSUME RequestsTyped, NEW r \in Requests, NextAttempt(r)
  PROVE  (Over(r) \/ Resent(r)) /\ \A q \in Requests : q # r => SameRequest(q)
<1>1. CASE Return(r)
  BY <1>1, ReturnDoes
<1>2. CASE ~Return(r)
  BY <1>2 DEF RequestsTyped, NextAttempt, Set, Resent, SameRequest
<1>. QED  BY <1>1, <1>2

LEMMA RefreshAgainDoes ==
  ASSUME RequestsTyped, NEW r \in Requests, RefreshAgain(r)
  PROVE  (Retried(r) \/ (Over(r) /\ Unlock(r))) /\ \A q \in Requests : q # r => SameRequest(q)
<1>1. CASE Return(r) /\ Unlock(r)
  BY <1>1, ReturnDoes
<1>2. CASE ~(Return(r) /\ Unlock(r))
  BY <1>2 DEF RequestsTyped, RefreshAgain, Set, Retried, SameRequest
<1>. QED  BY <1>1, <1>2

\* A request's own step, whether it has to come or not.
Moves(r) == RequestStep(r) \/ GiveUp(r)

\* A request's own step, as far as the lock and the tokens go.
Stepped(r) ==
  \/ Over(r) /\ holder' = holder /\ pc[r] \notin {"refresh", "answer"}
  \/ Over(r) /\ Unlock(r) /\ pc[r] \in {"refresh", "answer"}
  \/ pc'[r] \in {"send", "sent", "lock"} /\ on'[r] = on[r] /\ holder' = holder /\ pc[r] \notin {"refresh", "answer"}
  \/ Lock(r)
  \/ Retried(r) /\ pc[r] \in {"refresh", "answer"}
  \/ RefreshAccepted(r)
  \/ PairArrives(r)

LEMMA RequestDoes ==
  ASSUME RequestsTyped, NEW r \in Requests, Moves(r)
  PROVE  Stepped(r) /\ \A q \in Requests : q # r => SameRequest(q)
<1>1. CASE Send(r) \/ Lock(r) \/ RefreshAccepted(r) \/ PairArrives(r)
  BY <1>1 DEF RequestsTyped, Send, Lock, RefreshAccepted, PairArrives, Set, Stepped, SameRequest
<1>2. CASE Answered(r)
  BY <1>2, ReturnDoes, NextAttemptDoes DEF RequestsTyped, Answered, Set, Stepped, Resent, SameRequest
<1>3. CASE RefreshDead(r)
  BY <1>3, ReturnDoes DEF RefreshDead, Stepped
<1>4. CASE RefreshFails(r) \/ PairLost(r)
  BY <1>4, RefreshAgainDoes DEF RefreshFails, PairLost, Stepped
<1>5. CASE Persist(r)
  BY <1>5, NextAttemptDoes DEF Persist, Stepped, Resent
<1>6. CASE GiveUp(r)
  BY <1>6, ReturnDoes DEF GiveUp, Stepped
<1>. QED  BY <1>1, <1>2, <1>3, <1>4, <1>5, <1>6 DEF Moves, RequestStep

\* A step is a step of one request, or leaves what the requests hold as it is, or is the crash.
LEMMA RequestsDo ==
  ASSUME IInv, [Next]_vars
  PROVE  \/ Crash
         \/ \E r \in Requests : Moves(r) /\ Stepped(r) /\ \A q \in Requests : q # r => SameRequest(q)
         \/ \E r \in Requests, c \in Clients :
              /\ Call(r, c) /\ on'[r] = c /\ pc'[r] = "send" /\ on[r] = None
              /\ UNCHANGED holder /\ \A q \in Requests : q # r => SameRequest(q)
         \/ UNCHANGED holder /\ \A q \in Requests : SameRequest(q)
<1>1. RequestsTyped
  BY TypeParts DEF IInv
<1>2. ASSUME NEW r \in Requests, NEW c \in Clients, Call(r, c)
      PROVE  /\ on'[r] = c /\ pc'[r] = "send" /\ on[r] = None /\ UNCHANGED holder
             /\ \A q \in Requests : q # r => SameRequest(q)
  <2>1. on[r] = None
    BY <1>2 DEF Call, IInv, TypeOK
  <2>. QED  BY <1>1, <1>2, <2>1 DEF Call, Set, RequestsTyped, SameRequest
<1>3. ASSUME UNCHANGED request
      PROVE  \A q \in Requests : SameRequest(q)
  BY <1>3 DEF request, SameRequest
<1>4. UNCHANGED holder \/ Crash \/ \E r \in Requests : Moves(r)
  BY Writers DEF Moves, RequestStep
<1>. QED  BY <1>1, <1>2, <1>3, <1>4, Writers, RequestDoes DEF Moves

\* A pair that was received is one that was made.
LEMMA GotPairs ==
  ASSUME IInv, [Next]_vars, NEW r \in Requests, pc'[r] \in {"answer", "persist"}
  PROVE  got'[r] \in Pairs'
<1>1. Pairs \subseteq Pairs' /\ live \in Nat /\ live' \in Nat
  BY StepLive, PairsGrow DEF IInv, TypeOK
<1>2. CASE SameRequest(r)
  BY <1>1, <1>2 DEF SameRequest, IInv, WritersHaveRead
<1>3. CASE Moves(r) /\ Stepped(r)
  <2>1. CASE RefreshAccepted(r)
    BY <1>1, <2>1 DEF RefreshAccepted, Rotate, Set, Pairs, IInv, TypeOK
  <2>2. CASE PairArrives(r)
    BY <1>1, <2>2 DEF PairArrives, Set, IInv, WritersHaveRead, TypeOK
  <2>3. CASE Lock(r)
    BY <2>3 DEF Lock, Set, IInv, TypeOK
  <2>. QED  BY <1>3, <2>1, <2>2, <2>3 DEF Stepped, Over, Retried
<1>4. CASE Crash
  BY <1>4 DEF Crash
<1>. QED  BY <1>2, <1>3, <1>4, RequestsDo

LEMMA StepWriters ==
  ASSUME IInv, [Next]_vars
  PROVE  WritersTyped' /\ WritersHaveRead'
<1>1. /\ Pairs \subseteq Pairs' /\ Rows \subseteq Rows' /\ live \in Nat /\ live' \in Nat
      /\ row \in Rows /\ None \notin Rows /\ None \notin Pairs'
  BY StepLive, PairsGrow, RowsAreRecords, ClientsAssumption DEF IInv, TypeOK, Pairs
<1>2. loop' \in [step : {"idle", "refresh", "new", "dead", "same"}, row : Maybe(Rows'), pair : Maybe(Pairs')]
      /\ (loop'.step # "idle" => loop'.row \in Rows')
      /\ (loop'.step = "new" <=> loop'.pair # None)
  <2>1. /\ loop \in [step : {"idle", "refresh", "new", "dead", "same"}, row : Maybe(Rows), pair : Maybe(Pairs)]
        /\ loop.step # "idle" => loop.row \in Rows
        /\ loop.step = "new" <=> loop.pair # None
    BY DEF IInv, TypeOK, WritersHaveRead
  <2>2. CASE UNCHANGED loop
    BY <1>1, <2>1, <2>2 DEF Maybe
  <2>3. CASE LoopReads
    BY <1>1, <2>3 DEF LoopReads, Maybe
  <2>4. CASE LoopRefreshes
    <3>1. loop.row \in Rows /\ loop.step = "refresh" /\ loop.pair = None
      BY <2>1, <2>4 DEF LoopRefreshes
    <3>2. CASE loop' = [loop EXCEPT !.step = "new", !.pair = live + 1] /\ Rotate(None)
      <4>1. live + 1 \in Pairs'
        BY <1>1, <3>2 DEF Rotate, Pairs
      <4>. QED  BY <1>1, <2>1, <3>1, <3>2, <4>1 DEF Maybe
    <3>3. CASE loop' = [loop EXCEPT !.step = "same"] \/ loop' = [loop EXCEPT !.step = "dead"]
      BY <1>1, <2>1, <3>1, <3>3 DEF Maybe
    <3>. QED  BY <2>4, <3>2, <3>3 DEF LoopRefreshes
  <2>5. CASE LoopWrites \/ Crash
    BY <2>5 DEF LoopWrites, Crash, Maybe
  <2>. QED  BY <2>2, <2>3, <2>4, <2>5, Writers
<1>3. edit' \in Maybe(Rows')
  BY <1>1, Writers DEF IInv, TypeOK, EditReads, EditWrites, Crash, Maybe
<1>4. ASSUME NEW c \in Testers, open'[c]
      PROVE  copy'[c] \in Rows'
  <2>1. c \in Clients
    BY ClientsAssumption
  <2>2. CASE \E d \in Clients : Build(d)
    <3>1. PICK d \in Clients : Build(d)
      BY <2>2
    <3>2. CASE d = c
      BY <1>1, <1>4, <2>1, <3>1, <3>2 DEF Build, Set, IInv, TypeOK
    <3>3. CASE d # c
      BY <1>1, <1>4, <2>1, <3>1, <3>3 DEF Build, Set, IInv, TypeOK, WritersHaveRead
    <3>. QED  BY <3>2, <3>3
  <2>3. CASE ~\E d \in Clients : Build(d)
    <3>1. open \in [Clients -> BOOLEAN]
      BY DEF IInv, TypeOK
    <3>2. open[c]
      BY <1>4, <2>1, <2>3, <3>1, Writers DEF Set, Close, TestEnds, Crash
    <3>3. UNCHANGED copy
      BY <2>3, Writers
    <3>. QED  BY <1>1, <3>2, <3>3 DEF IInv, WritersHaveRead
  <2>. QED  BY <2>2, <2>3
<1>5. ASSUME NEW r \in Requests, pc'[r] \in {"answer", "persist"}
      PROVE  got'[r] \in Pairs'
  BY <1>1, <1>5, GotPairs
<1>. QED  BY <1>2, <1>3, <1>4, <1>5 DEF WritersTyped, WritersHaveRead

---------------------------------------------------------------------------
(* The lock. *)

\* Two requests that hold the lock of one client are one.
LEMMA OneHolder ==
  ASSUME TypeOK, NEW q \in Requests, NEW r \in Requests, on[q] = on[r],
         pc[q] \in {"refresh", "answer"}, pc[r] \in {"refresh", "answer"}
  PROVE  q = r
BY DEF TypeOK

LEMMA StepLocked ==
  ASSUME IInv, [Next]_vars
  PROVE  Locked'
<1>1. /\ holder \in [Clients -> Maybe(Requests)]
      /\ \A r \in Requests : on[r] \in Maybe(Clients) /\ (pc[r] # "idle" <=> on[r] # None)
      /\ \A r \in Requests : pc[r] \in {"refresh", "answer"} => holder[on[r]] = r
  BY DEF IInv, TypeOK
<1>2. ASSUME NEW r \in Requests
      PROVE  pc'[r] # "idle" <=> on'[r] # None
  <2>1. CASE SameRequest(r)
    BY <1>1, <2>1 DEF SameRequest
  <2>2. CASE Moves(r) /\ Stepped(r)
    <3>1. pc[r] # "idle" /\ on[r] # None
      BY <1>1, <2>2 DEF Moves, RequestStep, Send, GiveUp, Answered, Lock, RefreshAccepted, RefreshDead, RefreshFails,
         PairArrives, PairLost, Persist
    <3>2. CASE Lock(r) \/ RefreshAccepted(r) \/ PairArrives(r)
      BY <3>1, <3>2 DEF Lock, RefreshAccepted, PairArrives, Set, IInv, TypeOK
    <3>. QED  BY <2>2, <3>1, <3>2 DEF Stepped, Over, Retried
  <2>3. CASE \E c \in Clients : pc'[r] = "send" /\ on'[r] = c
    BY <2>3, ClientsAssumption
  <2>4. CASE Crash
    BY <2>4 DEF Crash
  <2>. QED  BY <2>1, <2>2, <2>3, <2>4, RequestsDo
<1>3. ASSUME NEW r \in Requests, pc'[r] \in {"refresh", "answer"}
      PROVE  holder'[on'[r]] = r
  <2>1. ASSUME NEW q \in Requests, q # r, Moves(q), Stepped(q), SameRequest(r)
        PROVE  holder'[on'[r]] = r
    <3>1. pc[r] \in {"refresh", "answer"} /\ on'[r] = on[r] /\ holder[on[r]] = r /\ on[r] \in Clients
      BY <1>1, <1>3, <2>1 DEF SameRequest, Maybe
    <3>2. CASE Unlock(q) /\ pc[q] \in {"refresh", "answer"}
      <4>1. on[q] # on[r]
        BY <2>1, <3>1, <3>2, OneHolder DEF IInv
      <4>. QED  BY <1>1, <3>1, <3>2, <4>1 DEF Unlock, Set
    <3>3. CASE Lock(q)
      <4>1. on[q] # on[r]
        BY <3>1, <3>3, ClientsAssumption DEF Lock
      <4>. QED  BY <1>1, <3>1, <3>3, <4>1 DEF Lock, Set
    <3>4. CASE UNCHANGED holder
      BY <3>1, <3>4
    <3>. QED  BY <2>1, <3>2, <3>3, <3>4 DEF Stepped, Retried, PairArrives, RefreshAccepted
  <2>2. CASE Moves(r) /\ Stepped(r)
    <3>1. CASE Lock(r)
      BY <1>1, <3>1 DEF Lock, Set, Maybe, IInv, TypeOK
    <3>2. CASE RefreshAccepted(r)
      BY <1>1, <3>2 DEF RefreshAccepted
    <3>3. CASE PairArrives(r)
      BY <1>3, <3>3 DEF PairArrives, Set, IInv, TypeOK
    <3>4. CASE Retried(r) /\ pc[r] \in {"refresh", "answer"}
      BY <1>1, <3>4 DEF Retried
    <3>. QED  BY <1>3, <2>2, <3>1, <3>2, <3>3, <3>4 DEF Stepped, Over
  <2>3. CASE Crash
    BY <1>3, <2>3 DEF Crash
  <2>4. CASE UNCHANGED holder /\ SameRequest(r)
    BY <1>1, <1>3, <2>4 DEF SameRequest
  <2>5. CASE pc'[r] = "send"
    BY <1>3, <2>5
  <2>. QED  BY <2>1, <2>2, <2>3, <2>4, <2>5, RequestsDo
<1>. QED  BY <1>2, <1>3 DEF Locked

LEMMA StepBounded ==
  ASSUME IInv, [Next]_vars
  PROVE  Bounded'
<1>. USE DEF Bounded, bounds, history
<1>1. /\ jobs \in 0 .. MaxJobs /\ calls \in 0 .. MaxCalls
      /\ expiries \in 0 .. MaxExpiries /\ faults \in 0 .. MaxFaults
      /\ lost \in BOOLEAN /\ stale \in BOOLEAN
  BY DEF IInv, TypeOK
<1>2. jobs' \in 0 .. MaxJobs /\ calls' \in 0 .. MaxCalls /\ expiries' \in 0 .. MaxExpiries /\ faults' \in 0 .. MaxFaults
  <2>1. jobs' = jobs \/ (jobs < MaxJobs /\ jobs' = jobs + 1)
    BY DEF Fault, vars, Next, RequestStep, Expire, Build, Close, TestEnds, EditReads, EditWrites,
       Call, Send, GiveUp, Answered, Lock, RefreshAccepted, RefreshDead, RefreshFails, PairArrives, PairLost, Persist,
       DayPasses, LoopReads, LoopRefreshes, LoopWrites, Crash
  <2>2. calls' = calls \/ (calls < MaxCalls /\ calls' = calls + 1)
    BY DEF Fault, vars, Next, RequestStep, Expire, Build, Close, TestEnds, EditReads, EditWrites,
       Call, Send, GiveUp, Answered, Lock, RefreshAccepted, RefreshDead, RefreshFails, PairArrives, PairLost, Persist,
       DayPasses, LoopReads, LoopRefreshes, LoopWrites, Crash
  <2>3. expiries' = expiries \/ (expiries < MaxExpiries /\ expiries' = expiries + 1)
    BY DEF Fault, vars, Next, RequestStep, Expire, Build, Close, TestEnds, EditReads, EditWrites,
       Call, Send, GiveUp, Answered, Lock, RefreshAccepted, RefreshDead, RefreshFails, PairArrives, PairLost, Persist,
       DayPasses, LoopReads, LoopRefreshes, LoopWrites, Crash
  <2>4. faults' = faults \/ (faults < MaxFaults /\ faults' = faults + 1)
    BY DEF Fault, vars, Next, RequestStep, Expire, Build, Close, TestEnds, EditReads, EditWrites,
       Call, Send, GiveUp, Answered, Lock, RefreshAccepted, RefreshDead, RefreshFails, PairArrives, PairLost, Persist,
       DayPasses, LoopReads, LoopRefreshes, LoopWrites, Crash
  <2>. QED  BY <1>1, <2>1, <2>2, <2>3, <2>4, BoundsAreNumbers
<1>3. lost' \in BOOLEAN /\ stale' \in BOOLEAN
  BY <1>1 DEF Store, vars, Next, RequestStep, Expire, Build, Close, TestEnds, EditReads, EditWrites,
     Call, Send, GiveUp, Answered, Lock, RefreshAccepted, RefreshDead, RefreshFails, PairArrives, PairLost, Persist,
     DayPasses, LoopReads, LoopRefreshes, LoopWrites, Crash
<1>. QED  BY <1>2, <1>3

---------------------------------------------------------------------------
(* Requests and their clients. *)

LEMMA StepKeepsClients ==
  ASSUME IInv, [Next]_vars
  PROVE  RequestsKeepClients'
<1>. SUFFICES ASSUME NEW r \in Requests, on'[r] # None
              PROVE  open'[on'[r]]
  BY DEF RequestsKeepClients
<1>1. CASE Crash
  BY <1>1 DEF Crash
<1>2. ASSUME NEW c \in Clients, on'[r] = c, open[c], ~Crash
      PROVE  open'[c]
  <2>1. CASE \E d \in Clients : Build(d)
    BY <1>2, <2>1 DEF Build, Set, IInv, TypeOK
  <2>2. ASSUME NEW d \in Clients, Close(d) \/ TestEnds(d)
        PROVE  open'[c]
    <3>1. UNCHANGED request
      BY <2>2 DEF Close, TestEnds
    <3>2. c # d
      BY <1>2, <2>2, <3>1 DEF Close, TestEnds, Idle, request
    <3>. QED  BY <1>2, <2>2, <3>2 DEF Close, TestEnds, Set, IInv, TypeOK
  <2>. QED  BY <1>2, <2>1, <2>2, Writers
<1>3. CASE ~Crash
  <2>1. CASE on'[r] = on[r]
    BY <1>2, <1>3, <2>1 DEF IInv, RequestsKeepClients, TypeOK, Maybe
  <2>2. CASE \E c \in Clients : Call(r, c) /\ on'[r] = c
    BY <1>2, <1>3, <2>2 DEF Call
  <2>3. CASE Moves(r) /\ Stepped(r)
    BY <2>1, <2>3 DEF Stepped, Over, Retried, Lock, RefreshAccepted, PairArrives
  <2>. QED  BY <1>3, <2>1, <2>2, <2>3, RequestsDo DEF SameRequest
<1>. QED  BY <1>1, <1>3

\* The token pair of a client changes when it is built, and at the hands of the lock's holder.
LEMMA StepSent ==
  ASSUME IInv, [Next]_vars
  PROVE  SentIsKept'
<1>. SUFFICES ASSUME NEW r \in Requests, pc'[r] \in {"refresh", "answer"}
              PROVE  used'[r] = refresh'[on'[r]]
  BY DEF SentIsKept
<1>1. /\ refresh \in [Clients -> Maybe(Pairs)] /\ pc \in [Requests -> Steps] /\ used \in [Requests -> Maybe(Pairs)]
      /\ \A q \in Requests : on[q] \in Maybe(Clients) /\ (pc[q] # "idle" <=> on[q] # None)
  BY DEF IInv, TypeOK
<1>2. ASSUME pc[r] \in {"refresh", "answer"}, on'[r] = on[r]
      PROVE  refresh'[on[r]] = refresh[on[r]]
  <2>1. on[r] \in Clients /\ open[on[r]]
    BY <1>1, <1>2 DEF Maybe, IInv, RequestsKeepClients
  <2>2. ASSUME NEW c \in Clients, Build(c)
        PROVE  refresh'[on[r]] = refresh[on[r]]
    <3>1. c # on[r]
      BY <2>1, <2>2 DEF Build
    <3>. QED  BY <1>1, <2>1, <2>2, <3>1 DEF Build, Set
  <2>3. ASSUME NEW q \in Requests, RefreshDead(q) \/ PairArrives(q)
        PROVE  refresh'[on[r]] = refresh[on[r]]
    <3>1. q # r
      BY <1>1, <2>3 DEF RefreshDead, PairArrives, Return, Set
    <3>2. on[q] # on[r]
      BY <1>2, <2>3, <3>1, OneHolder DEF IInv, RefreshDead, PairArrives
    <3>. QED  BY <1>1, <2>1, <2>3, <3>2 DEF RefreshDead, PairArrives, Set
  <2>. QED  BY <2>2, <2>3, Writers
<1>3. CASE SameRequest(r)
  BY <1>2, <1>3 DEF SameRequest, IInv, SentIsKept
<1>4. CASE Moves(r) /\ Stepped(r)
  <2>1. CASE Lock(r)
    BY <1>1, <2>1 DEF Lock, Set, client
  <2>2. CASE RefreshAccepted(r)
    BY <1>2, <2>2 DEF RefreshAccepted, IInv, SentIsKept
  <2>3. CASE PairArrives(r)
    BY <1>1, <2>3 DEF PairArrives, Set
  <2>4. CASE Retried(r) /\ pc[r] \in {"refresh", "answer"}
    BY <1>2, <2>4 DEF Retried, IInv, SentIsKept
  <2>. QED  BY <1>4, <2>1, <2>2, <2>3, <2>4 DEF Stepped, Over
<1>5. CASE Crash
  BY <1>5 DEF Crash
<1>. QED  BY <1>3, <1>4, <1>5, RequestsDo

\* Another actor's rotation is known to every client; a client's own is alone.
LEMMA StepAnswer ==
  ASSUME IInv, [Next]_vars
  PROVE  AnswerWorks'
<1>. SUFFICES ASSUME NEW r \in Requests, pc'[r] = "answer", ~foreign'[on'[r]]
              PROVE  got'[r] = live'
  BY DEF AnswerWorks
<1>1. /\ live \in Nat /\ foreign \in [Clients -> BOOLEAN] /\ pc \in [Requests -> Steps]
      /\ got \in [Requests -> Maybe(Pairs)]
      /\ \A q \in Requests : on[q] \in Maybe(Clients) /\ (pc[q] # "idle" <=> on[q] # None)
  BY DEF IInv, TypeOK
<1>2. CASE Moves(r) /\ Stepped(r)
  <2>1. RefreshAccepted(r)
    BY <1>1, <1>2 DEF Stepped, Over, Retried, Lock, PairArrives, Set
  <2>. QED  BY <1>1, <2>1 DEF RefreshAccepted, Rotate, Set
<1>3. CASE SameRequest(r)
  <2>1. pc[r] = "answer" /\ on[r] \in Clients /\ open[on[r]] /\ ~foreign'[on[r]]
    BY <1>1, <1>3 DEF SameRequest, Maybe, IInv, RequestsKeepClients
  <2>2. CASE UNCHANGED <<live, foreign>>
    BY <1>3, <2>1, <2>2 DEF SameRequest, IInv, AnswerWorks
  <2>3. ASSUME NEW c \in Clients, Build(c)
        PROVE  UNCHANGED live /\ foreign'[on[r]] = foreign[on[r]]
    <3>1. c # on[r]
      BY <2>1, <2>3 DEF Build
    <3>. QED  BY <1>1, <2>1, <2>3, <3>1 DEF Build, Set, server
  <2>4. ASSUME NEW q \in Requests, RefreshAccepted(q)
        PROVE  FALSE
    <3>1. q # r
      BY <2>1, <2>4 DEF RefreshAccepted
    <3>2. on[q] # on[r]
      BY <2>1, <2>4, <3>1, OneHolder DEF IInv, RefreshAccepted
    <3>. QED  BY <2>1, <2>4, <3>2 DEF RefreshAccepted, Rotate
  <2>5. CASE LoopRefreshes
    <3>1. UNCHANGED <<live, foreign>> \/ Rotate(None)
      BY <2>5 DEF LoopRefreshes, server
    <3>. QED  BY <2>1, <2>2, <3>1, ClientsAssumption DEF Rotate
  <2>. QED  BY <1>3, <2>1, <2>2, <2>3, <2>4, <2>5, Writers DEF SameRequest, IInv, AnswerWorks
<1>4. CASE Crash
  BY <1>4 DEF Crash
<1>. QED  BY <1>2, <1>3, <1>4, RequestsDo

---------------------------------------------------------------------------
(* The rows. *)

\* Spent in the next state.
SpentNext(rw) == rw \in Rows' /\ ~rw.usable => rw.pair < live'

\* A spent pair stays spent.
LEMMA SpentStays ==
  ASSUME TypeOK, [Next]_vars
  PROVE  \A rw \in Maybe(Rows) : Spent(rw) => SpentNext(rw)
<1>1. live \in Nat /\ live' \in Nat /\ live <= live'
  BY StepLive DEF TypeOK
<1>2. ASSUME NEW rw \in Rows, Spent(rw)
      PROVE  SpentNext(rw)
  BY <1>1, <1>2 DEF Spent, SpentNext, Rows, Pairs
<1>3. SpentNext(None)
  <2>1. None \notin Rows'
    BY <1>1, NoneIsNoRow DEF Rows, Pairs
  <2>. QED  BY <2>1 DEF SpentNext
<1>. QED  BY <1>2, <1>3 DEF Maybe

LEMMA StepSpent ==
  ASSUME IInv, [Next]_vars
  PROVE  DeadRowsAreSpent'
<1>1. /\ live \in Nat /\ live' \in Nat /\ live <= live' /\ row \in Rows
      /\ edit \in Maybe(Rows) /\ loop.row \in Maybe(Rows) /\ \A c \in Clients : copy[c] \in Maybe(Rows)
      /\ copy \in [Clients -> Maybe(Rows)]
  BY StepLive DEF IInv, TypeOK
<1>2. SpentNext(None) /\ SpentNext(row) /\ SpentNext(edit) /\ SpentNext(loop.row) /\ \A c \in Clients : SpentNext(copy[c])
  <2>1. Spent(None)
    BY <1>1, RowsAreRecords DEF Spent
  <2>. QED  BY <1>1, <2>1, SpentStays DEF IInv, DeadRowsAreSpent, Maybe
<1>3. SpentNext(row')
  <2>1. ASSUME NEW c \in Clients, TestEnds(c)
        PROVE  SpentNext(row')
    BY <1>2, <2>1 DEF TestEnds, Store
  <2>2. ASSUME NEW r \in Requests, Persist(r)
        PROVE  SpentNext(row')
    <3>1. row' = row \/ row' = [pair |-> got[r], usable |-> TRUE, recent |-> TRUE]
      BY <2>2 DEF Persist, Store
    <3>. QED  BY <1>2, <3>1 DEF SpentNext
  <2>3. CASE EditWrites
    BY <1>2, <2>3 DEF EditWrites, Store
  <2>4. CASE DayPasses
    BY <1>1, <2>4, <1>2, RowsAreRecords DEF DayPasses, SpentNext, IInv, DeadRowsAreSpent, Spent, Rows, server
  <2>5. CASE LoopWrites
    <3>1. loop.step = "dead" => loop.row \in Rows /\ loop.row.pair < live
      BY DEF IInv, DeadRowsAreSpent, WritersHaveRead
    <3>2. row' = row \/ row' = LoopRow
      BY <2>5 DEF LoopWrites, Store
    <3>3. CASE row' = LoopRow /\ loop.step = "dead"
      <4>1. row' = [loop.row EXCEPT !.usable = FALSE] /\ UNCHANGED live
        BY <2>5, <3>3 DEF LoopRow, LoopWrites, server
      <4>. QED  BY <3>1, <3>3, <4>1 DEF SpentNext, Rows
    <3>4. CASE row' = LoopRow /\ loop.step = "new"
      BY <3>4 DEF LoopRow, SpentNext
    <3>5. CASE row' = LoopRow /\ loop.step = "same"
      BY <1>2, <3>5 DEF LoopRow
    <3>. QED  BY <1>2, <2>5, <3>2, <3>3, <3>4, <3>5 DEF LoopWrites
  <2>. QED  BY <1>2, <2>1, <2>2, <2>3, <2>4, <2>5, Writers
<1>4. SpentNext(edit')
  BY <1>2, Writers DEF EditReads, EditWrites, Crash
<1>5. SpentNext(loop'.row)
  <2>1. CASE LoopRefreshes
    <3>1. loop'.row = loop.row
      BY <2>1 DEF LoopRefreshes, IInv, TypeOK
    <3>. QED  BY <1>2, <3>1
  <2>2. CASE LoopReads
    <3>1. loop'.row = row
      BY <2>2 DEF LoopReads
    <3>. QED  BY <1>2, <3>1
  <2>3. CASE LoopWrites \/ Crash
    <3>1. loop'.row = None
      BY <2>3 DEF LoopWrites, Crash
    <3>. QED  BY <1>2, <3>1
  <2>. QED  BY <1>2, <2>1, <2>2, <2>3, Writers
<1>6. ASSUME NEW c \in Clients
      PROVE  SpentNext(copy'[c])
  BY <1>1, <1>2, Writers DEF Build, Set
<1>7. loop'.step = "dead" => loop'.row.pair < live'
  <2>1. CASE UNCHANGED loop
    <3>1. loop.step = "dead" => loop.row.pair < live /\ loop.row \in Rows
      BY DEF IInv, DeadRowsAreSpent, WritersHaveRead
    <3>. QED  BY <1>1, <2>1, <3>1 DEF Rows, Pairs
  <2>2. ASSUME LoopRefreshes, loop'.step = "dead"
        PROVE  loop'.row.pair < live'
    <3>1. loop.row \in Rows
      BY <2>2 DEF LoopRefreshes, IInv, WritersHaveRead
    <3>2. loop'.row = loop.row /\ loop.row.pair # live
      BY <2>2 DEF LoopRefreshes, IInv, TypeOK
    <3>. QED  BY <1>1, <3>1, <3>2 DEF Rows, Pairs
  <2>3. CASE LoopReads \/ LoopWrites \/ Crash
    <3>1. loop'.step # "dead"
      BY <2>3 DEF LoopReads, LoopWrites, Crash
    <3>. QED  BY <3>1
  <2>. QED  BY <2>1, <2>2, <2>3, Writers
<1>. QED  BY <1>3, <1>4, <1>5, <1>6, <1>7, Zenon DEF DeadRowsAreSpent, Spent, SpentNext

---------------------------------------------------------------------------
(* The working pair. *)

LEMMA StepOwn ==
  ASSUME IInv, [Next]_vars
  PROVE  OwnRotationsDontHurt'
<1>. SUFFICES ASSUME NEW c \in Clients, open'[c], ~foreign'[c], ~lost'
              PROVE  \/ refresh'[c] = live'
                     \/ \E r \in Requests : on'[r] = c /\ pc'[r] = "answer" /\ got'[r] = live'
  BY DEF OwnRotationsDontHurt
<1>1. /\ live \in Nat /\ open \in [Clients -> BOOLEAN] /\ foreign \in [Clients -> BOOLEAN]
      /\ refresh \in [Clients -> Maybe(Pairs)] /\ got \in [Requests -> Maybe(Pairs)]
      /\ on \in [Requests -> Maybe(Clients)] /\ pc \in [Requests -> Steps] /\ row.pair \in Pairs
  BY RowsAreRecords DEF IInv, TypeOK
<1>2. ~lost
  BY Writers
<1>3. CASE Build(c)
  BY <1>1, <1>3 DEF Build, Set, server
<1>4. CASE open[c] /\ ~foreign[c] /\ ~Build(c)
  <2>1. \/ refresh[c] = live
        \/ \E r \in Requests : on[r] = c /\ pc[r] = "answer" /\ got[r] = live
    BY <1>2, <1>4 DEF IInv, OwnRotationsDontHurt
  <2>2. CASE UNCHANGED live
    <3>1. ASSUME NEW r \in Requests, PairArrives(r), on[r] = c
          PROVE  refresh'[c] = live'
      BY <1>1, <1>4, <2>2, <3>1 DEF PairArrives, Set, IInv, AnswerWorks
    <3>2. ASSUME NEW r \in Requests, RefreshDead(r), on[r] = c
          PROVE  FALSE
      <4>1. used[r] = refresh[c] /\ used[r] # live
        BY <3>2 DEF RefreshDead, IInv, SentIsKept
      <4>2. PICK q \in Requests : on[q] = c /\ pc[q] = "answer"
        BY <2>1, <4>1
      <4>3. q = r
        BY <3>2, <4>2, OneHolder DEF RefreshDead, IInv
      <4>. QED  BY <3>2, <4>2, <4>3 DEF RefreshDead
    <3>3. CASE \A r \in Requests : ~(on[r] = c /\ (PairArrives(r) \/ RefreshDead(r)))
      <4>1. refresh'[c] = refresh[c]
        BY <1>1, <1>4, <3>3, Writers DEF Build, PairArrives, RefreshDead, Set
      <4>2. ASSUME NEW r \in Requests, on[r] = c, pc[r] = "answer", got[r] = live
            PROVE  on'[r] = c /\ pc'[r] = "answer" /\ got'[r] = live'
        <5>1. ~PairArrives(r) /\ ~PairLost(r) /\ ~Crash
          BY <3>3, <4>2 DEF PairLost, Crash
        <5>2. ~Moves(r)
          BY <4>2, <5>1 DEF Moves, RequestStep, Send, GiveUp, Answered, Lock, RefreshAccepted, RefreshDead, RefreshFails, Persist
        <5>3. on[r] # None /\ pc[r] # "idle"
          BY <4>2, ClientsAssumption
        <5>4. SameRequest(r)
          BY <5>1, <5>2, <5>3, RequestsDo
        <5>. QED  BY <2>2, <4>2, <5>4 DEF SameRequest
      <4>. QED  BY <2>1, <2>2, <4>1, <4>2
    <3>. QED  BY <3>1, <3>2, <3>3
  <2>3. CASE ~UNCHANGED live
    <3>1. CASE LoopRefreshes
      BY <2>3, <3>1, ClientsAssumption DEF LoopRefreshes, Rotate, server
    <3>2. ASSUME NEW r \in Requests, RefreshAccepted(r)
          PROVE  on'[r] = c /\ pc'[r] = "answer" /\ got'[r] = live'
      <4>1. on[r] = c
        BY <3>2 DEF RefreshAccepted, Rotate
      <4>. QED  BY <1>1, <3>2, <4>1 DEF RefreshAccepted, Rotate, Set
    <3>. QED  BY <2>3, <3>1, <3>2, Writers
  <2>. QED  BY <2>2, <2>3
<1>5. CASE ~Build(c)
  <2>1. open[c]
    <3>1. ASSUME NEW d \in Clients, Build(d)
          PROVE  open'[c] = open[c]
      BY <1>1, <1>5, <3>1 DEF Build, Set
    <3>2. ASSUME NEW d \in Clients, Close(d) \/ TestEnds(d)
          PROVE  open'[c] = open[c] \/ open'[c] = FALSE
      BY <1>1, <3>2 DEF Close, TestEnds, Set
    <3>3. ~Crash
      BY DEF Crash
    <3>. QED  BY <3>1, <3>2, <3>3, Writers
  <2>2. ~foreign[c]
    BY <1>1, <1>5, Writers DEF Build, LoopRefreshes, RefreshAccepted, Rotate, Set
  <2>. QED  BY <1>4, <1>5, <2>1, <2>2
<1>. QED  BY <1>3, <1>5

\* Nobody forgets a pair unless the pair is written or lost.
LEMMA StepKept ==
  ASSUME IInv, [Next]_vars, ~lost', ~stale'
  PROVE  live' \in {row'.pair} \union OnItsWay'
<1>1. /\ live \in Nat /\ pc \in [Requests -> Steps] /\ got \in [Requests -> Maybe(Pairs)]
      /\ on \in [Requests -> Maybe(Clients)] /\ row.pair \in Pairs /\ live \notin {None}
      /\ loop \in [step : {"idle", "refresh", "new", "dead", "same"}, row : Maybe(Rows), pair : Maybe(Pairs)]
      /\ loop.step = "new" <=> loop.pair # None
  BY RowsAreRecords, ClientsAssumption DEF IInv, TypeOK, WritersHaveRead
<1>2. live \in {row.pair} \union OnItsWay
  BY Writers DEF IInv, WorkingPairIsKept
<1>3. ASSUME NEW r \in Requests, pc'[r] \in {"answer", "persist"}, got'[r] = live'
      PROVE  live' \in {row'.pair} \union OnItsWay'
  BY <1>3 DEF OnItsWay
<1>4. ASSUME NEW r \in Requests, RefreshAccepted(r)
      PROVE  live' \in {row'.pair} \union OnItsWay'
  BY <1>1, <1>3, <1>4 DEF RefreshAccepted, Rotate, Set
<1>5. CASE LoopRefreshes /\ ~UNCHANGED live
  BY <1>1, <1>5 DEF LoopRefreshes, Rotate, server, OnItsWay
<1>6. CASE UNCHANGED live
  <2>1. CASE row.pair = live /\ live' # row'.pair
    <3>1. ASSUME NEW rw, rw.pair \in Pairs, Store(rw)
          PROVE  FALSE
      <4>1. row' = rw
        BY <3>1 DEF Store
      <4>2. rw.pair < row.pair
        BY <1>1, <1>6, <2>1, <3>1, <4>1 DEF Pairs
      <4>. QED  BY <3>1, <4>2 DEF Store
    <3>2. ~DayPasses
      BY <1>6, <2>1 DEF DayPasses, IInv, TypeOK, Rows
    <3>3. \A rw \in Rows : rw.pair \in Pairs
      BY <1>1, RowsAreRecords
    <3>4. ~EditWrites
      BY <3>1, <3>3 DEF EditWrites, IInv, TypeOK, Maybe
    <3>5. ASSUME NEW c \in Clients, TestEnds(c)
          PROVE  FALSE
      BY <1>6, <2>1, <3>1, <3>3, <3>5 DEF TestEnds, Idle, IInv, WritersHaveRead
    <3>6. ASSUME NEW r \in Requests, Persist(r)
          PROVE  FALSE
      <4>1. got[r] \in Pairs
        BY <3>6 DEF Persist, IInv, WritersHaveRead
      <4>. QED  BY <1>6, <2>1, <3>1, <3>6, <4>1 DEF Persist
    <3>7. ~LoopWrites
      <4>1. LoopWrites => LoopRow.pair \in Pairs
        BY <1>1, <3>3 DEF LoopWrites, LoopRow, IInv, WritersHaveRead, Maybe
      <4>. QED  BY <1>6, <2>1, <3>1, <4>1 DEF LoopWrites
    <3>. QED  BY <1>6, <2>1, <3>2, <3>4, <3>5, <3>6, <3>7, Writers
  <2>2. ASSUME NEW r \in Requests, pc[r] \in {"answer", "persist"}, got[r] = live
        PROVE  live' \in {row'.pair} \union OnItsWay'
    <3>1. CASE SameRequest(r)
      BY <1>3, <1>6, <2>2, <3>1 DEF SameRequest
    <3>2. CASE PairArrives(r)
      BY <1>1, <1>3, <1>6, <2>2, <3>2 DEF PairArrives, Set
    <3>3. CASE Persist(r)
      BY <1>6, <2>2, <3>3 DEF Persist, Store
    <3>4. ~PairLost(r) /\ ~Crash
      BY DEF PairLost, Crash
    <3>5. ~(Moves(r) /\ ~PairArrives(r) /\ ~Persist(r))
      BY <2>2, <3>4 DEF Moves, RequestStep, Send, GiveUp, Answered, Lock, RefreshAccepted, RefreshDead, RefreshFails
    <3>6. on[r] # None
      BY <2>2 DEF IInv, TypeOK
    <3>. QED  BY <3>1, <3>2, <3>3, <3>4, <3>5, <3>6, RequestsDo
  <2>3. CASE loop.pair = live
    <3>1. loop.step = "new"
      BY <1>1, <2>3
    <3>2. CASE UNCHANGED loop
      BY <1>6, <2>3, <3>2 DEF OnItsWay
    <3>3. CASE LoopWrites
      <4>1. Store(LoopRow)
        BY <3>3 DEF LoopWrites
      <4>. QED  BY <1>6, <2>3, <3>1, <4>1 DEF Store, LoopRow
    <3>4. ~LoopReads /\ ~LoopRefreshes /\ ~Crash
      BY <3>1 DEF LoopReads, LoopRefreshes, Crash
    <3>. QED  BY <3>2, <3>3, <3>4, Writers
  <2>. QED  BY <1>2, <1>6, <2>1, <2>2, <2>3 DEF OnItsWay
<1>. QED  BY <1>4, <1>5, <1>6, Writers

---------------------------------------------------------------------------
(* The theorems. *)

LEMMA InitHolds == Init => IInv
<1>. SUFFICES ASSUME Init
              PROVE  IInv
  OBVIOUS
<1>. USE DEF Init
<1>1. Pairs = {0} /\ row \in Rows
  BY DEF Pairs, Rows
<1>2. ServerTyped /\ ClientsTyped
  BY <1>1 DEF ServerTyped, ClientsTyped, Maybe
<1>3. RequestsTyped /\ Locked
  BY BoundsAreNumbers DEF RequestsTyped, Locked, Steps, Maybe
<1>4. WritersTyped /\ Bounded
  <2>1. WritersTyped
    BY DEF WritersTyped, Maybe
  <2>2. lost \in BOOLEAN /\ stale \in BOOLEAN
    OBVIOUS
  <2>3. /\ jobs \in 0 .. MaxJobs /\ calls \in 0 .. MaxCalls
        /\ expiries \in 0 .. MaxExpiries /\ faults \in 0 .. MaxFaults
    BY BoundsAreNumbers
  <2>. QED  BY <2>1, <2>2, <2>3 DEF Bounded
<1>5. TypeOK
  BY <1>2, <1>3, <1>4, TypeParts
<1>6. WritersHaveRead /\ RequestsKeepClients /\ SentIsKept /\ AnswerWorks
  BY ClientsAssumption DEF WritersHaveRead, RequestsKeepClients, SentIsKept, AnswerWorks
<1>7. OwnRotationsDontHurt /\ WorkingPairIsKept
  BY DEF OwnRotationsDontHurt, WorkingPairIsKept, OnItsWay
<1>8. DeadRowsAreSpent
  <2>1. None \notin Rows
    BY RowsAreRecords
  <2>. QED  BY <2>1 DEF DeadRowsAreSpent, Spent
<1>. QED  BY <1>5, <1>6, <1>7, <1>8 DEF IInv

LEMMA StepInv ==
  ASSUME IInv, [Next]_vars
  PROVE  IInv'
<1>1. TypeOK'
  <2>1. (TypeOK <=> ServerTyped /\ ClientsTyped /\ RequestsTyped /\ WritersTyped /\ Locked /\ Bounded)'
    BY TypeParts, PTL
  <2>. QED  BY <2>1, StepServer, StepClients, StepRequests, StepWriters, StepLocked, StepBounded
<1>2. WorkingPairIsKept'
  <2>1. ~row'.usable => row'.pair # live'
    <3>1. live' \in Nat /\ row' \in Rows'
      BY <1>1 DEF TypeOK
    <3>. QED  BY <3>1, StepSpent DEF DeadRowsAreSpent, Spent, Rows, Pairs
  <2>. QED  BY <2>1, StepKept DEF WorkingPairIsKept
<1>. QED
  BY <1>1, <1>2, StepWriters, StepKeepsClients, StepSent, StepAnswer, StepSpent, StepOwn DEF IInv

\* The strengthening of the invariants below that is inductive: the lock of a client keeps
\* what a refresh has sent and got apart from what other requests do to the pair.
THEOREM Inductive == Spec => []IInv
<1>1. IInv /\ UNCHANGED vars => IInv'
  BY StepInv
<1>. QED  BY <1>1, InitHolds, StepInv, PTL DEF Spec

\* Every pair in memory or in the row was made by the server; a request in the middle of
\* a refresh holds the lock of its client.
THEOREM TypeCorrect == Spec => []TypeOK
BY Inductive, PTL DEF IInv

\* Unless an answer, a write or the process was lost, or an older copy of the row was
\* written over a newer one, the working pair is in the row or on its way there; a row
\* marked as dead is dead.
THEOREM WorkingPairKept == Spec => []WorkingPairIsKept
BY Inductive, PTL DEF IInv

\* However many of its requests refresh, a client that nobody else has rotated for keeps
\* the working pair.
THEOREM OwnRotationsHarmless == Spec => []OwnRotationsDontHurt
BY Inductive, PTL DEF IInv
=============================================================================
