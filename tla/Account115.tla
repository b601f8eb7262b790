----------------------------- MODULE Account115 -----------------------------
(***************************************************************************)
(* The token pair of one 115 account: OpenClient.doJSON and its refresh    *)
(* (internal/service/cloud115/client.go), the clients that providerFor     *)
(* builds from the account row, the row's writers - persist115Tokens,      *)
(* refresh115TokensOnce, TestStrmAccount, UpdateStrmAccount - and the      *)
(* server's rotation of one-time refresh tokens (external).                *)
(*                                                                         *)
(* A pair is named by the number of rotations that led to it.  Every job   *)
(* has a client of its own; the goroutines of a job share it.              *)
(***************************************************************************)
EXTENDS Integers, FiniteSets

CONSTANTS
  Requests,         \* goroutines that call doJSON
  Clients,          \* clients alive at the same time
  Testers,          \* those of them that TestStrmAccount builds
  None,
  Retries,          \* 2 or 1 in the code
  RefreshAttempts,  \* 3 in the code
  MaxExpiries, MaxJobs, MaxCalls, MaxFaults

ASSUME ClientsAssumption == Testers \subseteq Clients /\ None \notin Requests \union Clients \union Nat
ASSUME NoneIsNoRow == None \notin [pair : Nat, usable : BOOLEAN, recent : BOOLEAN]
ASSUME BoundsAssumption ==
  /\ RefreshAttempts \in Nat \ {0}
  /\ {Retries, MaxExpiries, MaxJobs, MaxCalls, MaxFaults} \subseteq Nat

VARIABLES
  live, fresh,        \* the server: the refresh token it accepts, the access tokens it accepts
  row,                \* the account row
  open,               \* clients in use
  access, refresh,    \* AccessToken and RefreshTokenStr of a client
  holder,             \* who holds tokenMu for writing
  copy,               \* the row as the tester of a client has read it
  pinged,             \* testers whose Ping has been made
  pc, on, used, attempt, tries, got,    \* requests
  loop,               \* refresh115TokensOnce: step, row read, pair received
  edit,               \* the row as UpdateStrmAccount has read it
  jobs, calls, expiries, faults,        \* bounds
  lost, stale, foreign                  \* history, for the properties

server == <<live, fresh>>
client == <<open, access, refresh, copy, pinged>>
request == <<pc, on, used, attempt, tries, got>>
bounds == <<jobs, calls, expiries, faults>>
history == <<lost, stale, foreign>>
vars == <<server, row, client, holder, request, loop, edit, bounds, history>>

Pairs == 0 .. live   \* the pairs made so far
Rows == [pair : Pairs, usable : BOOLEAN, recent : BOOLEAN]
Steps == {"idle", "send", "sent", "lock", "refresh", "answer", "persist"}

Set(f, x, v) == [f EXCEPT ![x] = v]
Fault == faults < MaxFaults /\ faults' = faults + 1 /\ UNCHANGED <<jobs, calls, expiries>>

\* A write of the row; a pair older than the stored one comes back by it.
Store(r) ==
  /\ row' = r
  /\ stale' = (stale \/ r.pair < row.pair)

Init ==
  /\ live = 0 /\ fresh = {0}
  /\ row = [pair |-> 0, usable |-> TRUE, recent |-> FALSE]
  /\ open = [c \in Clients |-> FALSE]
  /\ access = [c \in Clients |-> None] /\ refresh = [c \in Clients |-> None]
  /\ holder = [c \in Clients |-> None]
  /\ copy = [c \in Clients |-> None] /\ pinged = {}
  /\ pc = [r \in Requests |-> "idle"] /\ on = [r \in Requests |-> None]
  /\ used = [r \in Requests |-> None] /\ got = [r \in Requests |-> None]
  /\ attempt = [r \in Requests |-> 0] /\ tries = [r \in Requests |-> 0]
  /\ loop = [step |-> "idle", row |-> None, pair |-> None]
  /\ edit = None
  /\ jobs = 0 /\ calls = 0 /\ expiries = 0 /\ faults = 0
  /\ lost = FALSE /\ stale = FALSE /\ foreign = [c \in Clients |-> FALSE]

---------------------------------------------------------------------------
(* The server. *)

\* An access token runs out, or ends with the rotation that replaced it.
Expire(g) ==
  /\ g \in fresh
  /\ fresh' = fresh \ {g}
  /\ IF g = live THEN expiries < MaxExpiries /\ expiries' = expiries + 1 ELSE UNCHANGED expiries
  /\ UNCHANGED <<live, row, client, holder, request, loop, edit, jobs, calls, faults, history>>

\* The refresh token is spent and a new pair made, on the way to client c (None: the loop).
Rotate(c) ==
  /\ live' = live + 1 /\ fresh' = fresh \union {live + 1}
  /\ foreign' = [d \in Clients |-> foreign[d] \/ d # c]

---------------------------------------------------------------------------
(* Clients. *)

\* providerFor; TestStrmAccount keeps the row it has read.
Build(c) ==
  /\ ~open[c] /\ jobs < MaxJobs
  /\ jobs' = jobs + 1
  /\ open' = Set(open, c, TRUE)
  /\ access' = Set(access, c, IF row.usable THEN row.pair ELSE None)
  /\ refresh' = Set(refresh, c, row.pair)
  /\ copy' = Set(copy, c, IF c \in Testers THEN row ELSE None)
  /\ pinged' = pinged \ {c}
  /\ foreign' = Set(foreign, c, row.pair # live)
  /\ UNCHANGED <<server, row, holder, request, loop, edit, calls, expiries, faults, lost, stale>>

Idle(c) == open[c] /\ \A r \in Requests : on[r] # c

Close(c) ==
  /\ Idle(c) /\ c \notin Testers
  /\ open' = Set(open, c, FALSE)
  /\ UNCHANGED <<server, row, access, refresh, copy, pinged, holder, request, loop, edit, bounds, history>>

\* TestStrmAccount writes its copy of the whole row with the result of the test; an error
\* of the write is dropped.
TestEnds(c) ==
  /\ Idle(c) /\ c \in Testers
  /\ c \in pinged \/ access[c] = None
  /\ open' = Set(open, c, FALSE)
  /\ \/ Store(copy[c]) /\ UNCHANGED bounds
     \/ Fault /\ UNCHANGED <<row, stale>>
  /\ UNCHANGED <<server, access, refresh, copy, pinged, holder, request, loop, edit, lost, foreign>>

\* UpdateStrmAccount: name or switch, written with the rest of the row as it was read.
EditReads ==
  /\ edit = None /\ jobs < MaxJobs
  /\ jobs' = jobs + 1
  /\ edit' = row
  /\ UNCHANGED <<server, row, client, holder, request, loop, calls, expiries, faults, history>>

EditWrites ==
  /\ edit # None
  /\ edit' = None
  /\ Store(edit)
  /\ UNCHANGED <<server, client, holder, request, loop, bounds, lost, foreign>>

---------------------------------------------------------------------------
(* doJSON. *)

Return(r) ==
  /\ pc' = Set(pc, r, "idle") /\ on' = Set(on, r, None)
  /\ used' = Set(used, r, None) /\ got' = Set(got, r, None)
  /\ attempt' = Set(attempt, r, 0) /\ tries' = Set(tries, r, 0)

\* Mutant: one attempt too many.
NextAttempt_OneMore(r) ==
  \/ /\ attempt[r] <= Retries
     /\ pc' = Set(pc, r, "send") /\ attempt' = Set(attempt, r, attempt[r] + 1)
     /\ used' = Set(used, r, None) /\ got' = Set(got, r, None) /\ tries' = Set(tries, r, 0)
     /\ UNCHANGED on
  \/ attempt[r] > Retries /\ Return(r)

\* The next round of the loop, or its end.
NextAttempt(r) ==
  \/ /\ attempt[r] < Retries
     /\ pc' = Set(pc, r, "send") /\ attempt' = Set(attempt, r, attempt[r] + 1)
     /\ used' = Set(used, r, None) /\ got' = Set(got, r, None) /\ tries' = Set(tries, r, 0)
     /\ UNCHANGED on
  \/ attempt[r] = Retries /\ Return(r)

\* Ping makes one request and none without an access token.
Call(r, c) ==
  /\ pc[r] = "idle" /\ open[c] /\ calls < MaxCalls
  /\ c \in Testers => c \notin pinged /\ access[c] # None
  /\ calls' = calls + 1
  /\ pinged' = IF c \in Testers THEN pinged \union {c} ELSE pinged
  /\ pc' = Set(pc, r, "send") /\ on' = Set(on, r, c)
  /\ UNCHANGED <<server, row, open, access, refresh, copy, holder, used, attempt, tries, got, loop, edit,
                 jobs, expiries, faults, history>>

\* The access token is read under the read lock.
Send(r) ==
  /\ pc[r] = "send" /\ holder[on[r]] = None
  /\ pc' = Set(pc, r, "sent") /\ used' = Set(used, r, access[on[r]])
  /\ UNCHANGED <<server, row, client, holder, on, attempt, tries, got, loop, edit, bounds, history>>

\* The caller's context ends while the request waits for its turn (Acquire), or no
\* request can be built: doJSON returns without another attempt.
GiveUp(r) ==
  /\ pc[r] = "send"
  /\ Return(r)
  /\ UNCHANGED <<server, row, client, holder, loop, edit, bounds, history>>

Answered(r) ==
  /\ pc[r] = "sent"
  /\ \/ used[r] \in fresh /\ Return(r) /\ UNCHANGED bounds
     \/ /\ Fault
        /\ \/ NextAttempt(r)    \* network, status, throttling or another refusal
           \/ Return(r)         \* an answer that cannot be parsed, or the wait for the throttle ended
     \/ /\ used[r] \notin fresh
        /\ pc' = Set(pc, r, "lock")
        /\ UNCHANGED <<on, used, attempt, tries, got, bounds>>
  /\ UNCHANGED <<server, row, client, holder, loop, edit, history>>

\* Mutant: the refresh runs without the lock.
Lock_NotTaken(r) ==
  /\ pc[r] = "lock"
  /\ pc' = Set(pc, r, "refresh") /\ used' = Set(used, r, refresh[on[r]])
  /\ UNCHANGED <<server, row, client, holder, on, attempt, tries, got, loop, edit, bounds, history>>

\* tryRefreshTokenLocked compares the token with itself: under the lock it is
\* always refreshed once more, also after another request has just done so.
Lock(r) ==
  /\ pc[r] = "lock" /\ holder[on[r]] = None
  /\ holder' = Set(holder, on[r], r)
  /\ pc' = Set(pc, r, "refresh") /\ used' = Set(used, r, refresh[on[r]])
  /\ UNCHANGED <<server, row, client, on, attempt, tries, got, loop, edit, bounds, history>>

Unlock(r) == holder' = Set(holder, on[r], None)

\* The server takes the refresh token; the answer is on its way.
RefreshAccepted(r) ==
  /\ pc[r] = "refresh" /\ used[r] = live
  /\ Rotate(on[r])
  /\ got' = Set(got, r, live + 1)
  /\ pc' = Set(pc, r, "answer")
  /\ UNCHANGED <<row, client, holder, on, used, attempt, tries, loop, edit, bounds, lost, stale>>

\* Mutant: the early return keeps the lock.
RefreshDead_KeepsLock(r) ==
  /\ pc[r] = "refresh" /\ used[r] \notin {live, None}
  /\ access' = Set(access, on[r], None) /\ refresh' = Set(refresh, on[r], None)
  /\ Return(r)
  /\ UNCHANGED <<server, row, open, copy, pinged, holder, loop, edit, bounds, history>>

\* A dead refresh token clears the pair of the client; the request fails at once.
RefreshDead(r) ==
  /\ pc[r] = "refresh" /\ used[r] \notin {live, None}
  /\ access' = Set(access, on[r], None) /\ refresh' = Set(refresh, on[r], None)
  /\ Unlock(r) /\ Return(r)
  /\ UNCHANGED <<server, row, open, copy, pinged, loop, edit, bounds, history>>

\* The refresh is tried again with the same token; after the last time, or when the
\* context ends during the backoff, the request fails.
RefreshAgain(r) ==
  \/ /\ tries[r] + 1 < RefreshAttempts
     /\ tries' = Set(tries, r, tries[r] + 1)
     /\ pc' = Set(pc, r, "refresh") /\ got' = Set(got, r, None)
     /\ UNCHANGED <<on, used, attempt, holder>>
  \/ Unlock(r) /\ Return(r)

\* Any other failure than a dead token, or no token at all.
RefreshFails(r) ==
  /\ pc[r] = "refresh"
  /\ \/ Fault
     \/ used[r] = None /\ UNCHANGED bounds
  /\ RefreshAgain(r)
  /\ UNCHANGED <<server, row, client, loop, edit, history>>

PairArrives(r) ==
  /\ pc[r] = "answer"
  /\ access' = Set(access, on[r], got[r]) /\ refresh' = Set(refresh, on[r], got[r])
  /\ Unlock(r)
  /\ pc' = Set(pc, r, "persist")
  /\ UNCHANGED <<server, row, open, copy, pinged, on, used, attempt, tries, got, loop, edit, bounds, history>>

\* The answer is lost, and the new pair with it.
PairLost(r) ==
  /\ pc[r] = "answer"
  /\ Fault
  /\ lost' = TRUE
  /\ RefreshAgain(r)
  /\ UNCHANGED <<server, row, client, loop, edit, stale, foreign>>

\* Mutant: the callback is not called.
Persist_Dropped(r) ==
  /\ pc[r] = "persist"
  /\ NextAttempt(r)
  /\ UNCHANGED <<server, row, client, holder, loop, edit, bounds, history>>

\* OnTokenRefreshed, after the unlock.  Only the token columns of the row matter here
\* and they are replaced whatever was read.
Persist(r) ==
  /\ pc[r] = "persist"
  /\ \/ Store([pair |-> got[r], usable |-> TRUE, recent |-> TRUE]) /\ UNCHANGED <<bounds, lost>>
     \/ Fault /\ lost' = TRUE /\ UNCHANGED <<row, stale>>
  /\ NextAttempt(r)
  /\ UNCHANGED <<server, client, holder, loop, edit, foreign>>

---------------------------------------------------------------------------
(* refresh115TokensOnce. *)

DayPasses ==
  /\ row.recent
  /\ row' = [row EXCEPT !.recent = FALSE]
  /\ UNCHANGED <<server, client, holder, request, loop, edit, bounds, history>>

LoopReads ==
  /\ loop.step = "idle" /\ jobs < MaxJobs
  /\ row.usable /\ ~row.recent
  /\ jobs' = jobs + 1
  /\ loop' = [step |-> "refresh", row |-> row, pair |-> None]
  /\ UNCHANGED <<server, row, client, holder, request, edit, calls, expiries, faults, history>>

LoopRefreshes ==
  /\ loop.step = "refresh"
  /\ \/ /\ loop.row.pair = live /\ Rotate(None)
        /\ \/ loop' = [loop EXCEPT !.step = "new", !.pair = live + 1] /\ UNCHANGED <<bounds, lost>>
           \/ Fault /\ loop' = [loop EXCEPT !.step = "same"] /\ lost' = TRUE
     \/ /\ loop.row.pair # live /\ loop' = [loop EXCEPT !.step = "dead"]
        /\ UNCHANGED <<server, bounds, lost, foreign>>
     \/ Fault /\ loop' = [loop EXCEPT !.step = "same"] /\ UNCHANGED <<server, lost, foreign>>
  /\ UNCHANGED <<row, client, holder, request, edit, stale>>

LoopRow ==
  CASE loop.step = "new" -> [pair |-> loop.pair, usable |-> TRUE, recent |-> TRUE]
    [] loop.step = "dead" -> [loop.row EXCEPT !.usable = FALSE]
    [] OTHER -> loop.row

\* The whole row is written, also when nothing was received.
LoopWrites ==
  /\ loop.step \in {"new", "dead", "same"}
  /\ loop' = [step |-> "idle", row |-> None, pair |-> None]
  /\ \/ Store(LoopRow) /\ UNCHANGED <<bounds, lost>>
     \/ Fault /\ lost' = TRUE /\ UNCHANGED <<row, stale>>
  /\ UNCHANGED <<server, client, holder, request, edit, foreign>>

---------------------------------------------------------------------------
\* What is only in memory is gone.
Crash ==
  /\ Fault
  /\ open' = [c \in Clients |-> FALSE] /\ holder' = [c \in Clients |-> None]
  /\ pc' = [r \in Requests |-> "idle"] /\ on' = [r \in Requests |-> None]
  /\ used' = [r \in Requests |-> None] /\ got' = [r \in Requests |-> None]
  /\ attempt' = [r \in Requests |-> 0] /\ tries' = [r \in Requests |-> 0]
  /\ loop' = [step |-> "idle", row |-> None, pair |-> None]
  /\ edit' = None
  /\ lost' = TRUE
  /\ UNCHANGED <<server, row, access, refresh, copy, pinged, stale, foreign>>

RequestStep(r) ==
  \/ Send(r) \/ Answered(r) \/ Lock(r)
  \/ RefreshAccepted(r) \/ RefreshDead(r) \/ RefreshFails(r)
  \/ PairArrives(r) \/ PairLost(r) \/ Persist(r)

Next ==
  \/ \E g \in fresh : Expire(g)
  \/ \E c \in Clients : Build(c) \/ Close(c) \/ TestEnds(c)
  \/ EditReads \/ EditWrites
  \/ \E r \in Requests, c \in Clients : Call(r, c)
  \/ \E r \in Requests : RequestStep(r) \/ GiveUp(r)
  \/ DayPasses \/ LoopReads \/ LoopRefreshes \/ LoopWrites
  \/ Crash

Spec == Init /\ [][Next]_vars

\* Requests go on: answers and timeouts come, the mutex is given.  No context has to end.
FairSpec == Spec /\ \A r \in Requests : WF_vars(RequestStep(r))

---------------------------------------------------------------------------
(* Properties. *)

Maybe(S) == S \union {None}

\* Types; a request in the middle of a refresh holds the lock of its client.
TypeOK ==
  /\ live \in Nat /\ fresh \subseteq Pairs
  /\ row \in Rows
  /\ open \in [Clients -> BOOLEAN]
  /\ access \in [Clients -> Maybe(Pairs)] /\ refresh \in [Clients -> Maybe(Pairs)]
  /\ holder \in [Clients -> Maybe(Requests)]
  /\ copy \in [Clients -> Maybe(Rows)] /\ pinged \subseteq Testers
  /\ pc \in [Requests -> Steps] /\ on \in [Requests -> Maybe(Clients)]
  /\ used \in [Requests -> Maybe(Pairs)] /\ got \in [Requests -> Maybe(Pairs)]
  /\ attempt \in [Requests -> 0 .. Retries] /\ tries \in [Requests -> 0 .. RefreshAttempts - 1]
  /\ loop \in [step : {"idle", "refresh", "new", "dead", "same"}, row : Maybe(Rows), pair : Maybe(Pairs)]
  /\ edit \in Maybe(Rows)
  /\ \A r \in Requests : pc[r] # "idle" <=> on[r] # None
  /\ \A r \in Requests : pc[r] \in {"refresh", "answer"} => holder[on[r]] = r
  /\ jobs \in 0 .. MaxJobs /\ calls \in 0 .. MaxCalls /\ expiries \in 0 .. MaxExpiries /\ faults \in 0 .. MaxFaults
  /\ lost \in BOOLEAN /\ stale \in BOOLEAN /\ foreign \in [Clients -> BOOLEAN]

OnItsWay == {got[r] : r \in {q \in Requests : pc[q] \in {"answer", "persist"}}} \union {loop.pair}

\* A refresh token works once, and a lost one locks the user out.  Unless an answer, a
\* write or the process was lost, or an older copy of the row was written over a newer
\* one, the working pair is in the row or on its way there, and an account marked as
\* dead (access token cleared) is dead.
WorkingPairIsKept ==
  /\ ~lost /\ ~stale => live \in {row.pair} \union OnItsWay
  /\ ~row.usable => row.pair # live

\* The requests of one client may rotate the pair again and again, but only one at a
\* time: while nobody else has rotated it and no answer was lost, the client keeps the
\* working pair and is never told that its refresh token is dead.
OwnRotationsDontHurt ==
  \A c \in Clients :
    open[c] /\ ~foreign[c] /\ ~lost =>
      refresh[c] = live \/ \E r \in Requests : on[r] = c /\ pc[r] = "answer" /\ got[r] = live

\* A refreshed pair must reach the database (comment of providerFor): when nothing is on
\* its way and nothing was lost, the row has the working pair.
RefreshedPairIsStored ==
  (\A r \in Requests : pc[r] = "idle") /\ loop.step = "idle" /\ ~lost => row.pair = live

\* No request waits for ever for the token lock.
RequestsReturn == \A r \in Requests : pc[r] # "idle" ~> pc[r] = "idle"
=============================================================================
