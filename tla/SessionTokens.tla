---------------------------- MODULE SessionTokens ----------------------------
(***************************************************************************)
(* The refresh tokens of one user: TokenService in internal/service/       *)
(* token_svc.go and token_svc_pending.go, and the refresh_tokens table.    *)
(* A token is handed out before it is stored; until then it is known from  *)
(* the map delayedStores, and a goroutine brings it into the table however *)
(* long the database is busy.  Tokens are numbered as they are issued.     *)
(* The thirty days of a token do not pass in this model, and the rows are  *)
(* ordered as they are committed (by created_at in the code).              *)
(***************************************************************************)
EXTENDS Integers, Sequences, FiniteSets

CONSTANTS
  Clients,        \* requests that refresh
  Limit,          \* MaxLoggedClients
  MaxAttempts,    \* of storeRefreshTokenEventually; 8 in the code
  Earlier,        \* sessions in the table when the program starts
  MaxTokens, MaxLogouts, MaxFaults

ASSUME LimitAssumption == Limit \in Nat \ {0}
ASSUME BoundsAssumption ==
  /\ MaxAttempts \in Nat \ {0} /\ {MaxTokens, MaxLogouts, MaxFaults} \subseteq Nat
  /\ Earlier \in 0 .. MaxTokens /\ Earlier <= Limit

VARIABLES
  issued,           \* tokens 1 .. issued have been handed out
  rows,             \* the table, oldest first
  revoked,          \* rows that are revoked
  delayedStores,    \* tokens handed out and not stored
  step, attempt,    \* the goroutine that stores a token
  surplus,          \* what it has read as the oldest active rows
  pc, token,        \* refreshing requests
  logouts, faults,  \* bounds
  rotated, late,    \* history: replaced tokens; those of them stored or being stored then
  out, outLate,     \* history: tokens of a logout; those of them not stored then
  given,            \* history: evicted by the limit, given up by their goroutine, lost in a crash
  untrimmed         \* history: a row came without the limit being enforced

table == <<rows, revoked>>
store == <<step, attempt, surplus>>
request == <<pc, token>>
bounds == <<logouts, faults>>
history == <<rotated, late, out, outLate, given, untrimmed>>
vars == <<issued, table, delayedStores, store, request, bounds, history>>

Tokens == 1 .. MaxTokens
Stored == {rows[i] : i \in DOMAIN rows}
Active == Stored \ revoked
Set(f, x, v) == [f EXCEPT ![x] = v]
Fault == faults < MaxFaults /\ faults' = faults + 1 /\ UNCHANGED logouts

Init ==
  /\ issued = Earlier
  /\ rows = [i \in 1 .. Earlier |-> i] /\ revoked = {}
  /\ delayedStores = {}
  /\ step = [t \in Tokens |-> IF t <= Earlier THEN "over" ELSE "none"] /\ attempt = [t \in Tokens |-> 0]
  /\ surplus = [t \in Tokens |-> {}]
  /\ pc = [c \in Clients |-> "idle"] /\ token = [c \in Clients |-> 0]
  /\ logouts = 0 /\ faults = 0
  /\ rotated = {} /\ late = {} /\ out = {} /\ outLate = {} /\ given = {} /\ untrimmed = FALSE

---------------------------------------------------------------------------
(* A pair is issued. *)

\* storeRefreshTokenBestEffort: tracked, and left to a goroutine.
Issue ==
  /\ issued < MaxTokens
  /\ issued' = issued + 1
  /\ step' = Set(step, issued + 1, "first")

Login ==
  /\ Issue
  /\ delayedStores' = delayedStores \union {issued + 1}
  /\ UNCHANGED <<table, attempt, surplus, request, bounds, history>>

---------------------------------------------------------------------------
(* The goroutine of a token. *)

Over(t) == step' = Set(step, t, "over") /\ delayedStores' = delayedStores \ {t}

\* The database was busy or the time was up: again later, unless this was the last time.
Later(t) ==
  \/ /\ step[t] = "first" \/ attempt[t] < MaxAttempts
     /\ step' = Set(step, t, "wait")
     /\ UNCHANGED <<delayedStores, given>>
  \/ /\ step[t] = "again" /\ attempt[t] = MaxAttempts
     /\ Over(t)
     /\ given' = given \union {t}

\* Mutant: a replaced token is stored all the same.
Recheck_Skipped(t) ==
  /\ step[t] = "wait"
  /\ step' = Set(step, t, "again") /\ attempt' = Set(attempt, t, attempt[t] + 1)
  /\ UNCHANGED <<issued, table, delayedStores, surplus, request, bounds, history>>

\* Mutant: the token leaves the map before it is stored.
Recheck_Forgets(t) ==
  /\ step[t] = "wait"
  /\ IF t \in delayedStores
       THEN step' = Set(step, t, "again") /\ attempt' = Set(attempt, t, attempt[t] + 1)
            /\ delayedStores' = delayedStores \ {t}
       ELSE step' = Set(step, t, "over") /\ UNCHANGED <<attempt, delayedStores>>
  /\ UNCHANGED <<issued, table, surplus, request, bounds, history>>

\* Before another try: a token that was replaced meanwhile must not be stored.
Recheck(t) ==
  /\ step[t] = "wait"
  /\ IF t \in delayedStores
       THEN step' = Set(step, t, "again") /\ attempt' = Set(attempt, t, attempt[t] + 1)
       ELSE step' = Set(step, t, "over") /\ UNCHANGED attempt
  /\ UNCHANGED <<issued, table, delayedStores, surplus, request, bounds, history>>

\* Mutant: the table has no unique index.
Create_NotUnique(t) ==
  /\ step[t] \in {"first", "again"}
  /\ rows' = Append(rows, t)
  /\ \/ step' = Set(step, t, "trim") /\ UNCHANGED <<delayedStores, given, untrimmed, bounds>>
     \/ Fault /\ untrimmed' = TRUE /\ Later(t)
  /\ UNCHANGED <<issued, revoked, attempt, surplus, request, rotated, late, out, outLate>>

Create(t) ==
  /\ step[t] \in {"first", "again"} /\ t \notin Stored
  /\ rows' = Append(rows, t)
  /\ \/ step' = Set(step, t, "trim") /\ UNCHANGED <<delayedStores, given, untrimmed, bounds>>
     \/ Fault /\ untrimmed' = TRUE /\ Later(t)     \* committed, but the answer was too late
  /\ UNCHANGED <<issued, revoked, attempt, surplus, request, rotated, late, out, outLate>>

CreateBusy(t) ==
  /\ step[t] \in {"first", "again"}
  /\ Fault
  /\ Later(t)
  /\ UNCHANGED <<issued, table, attempt, surplus, request, rotated, late, out, outLate, untrimmed>>

\* Any other error is final; so is the unique index when the row is there already.
CreateRefused(t) ==
  /\ step[t] \in {"first", "again"}
  /\ \/ t \in Stored /\ UNCHANGED <<given, bounds>>
     \/ t \notin Stored /\ Fault /\ given' = given \union {t}
  /\ Over(t)
  /\ UNCHANGED <<issued, table, attempt, surplus, request, rotated, late, out, outLate, untrimmed>>

\* RevokeOldestActiveByUserID: read, then revoke what was read.
\* Mutant: off by one.
Oldest_OneTooFew(n) ==
  {rows[i] : i \in {j \in DOMAIN rows :
     rows[j] \notin revoked /\ Cardinality({k \in j + 1 .. Len(rows) : rows[k] \notin revoked}) > n}}

Oldest(n) ==
  {rows[i] : i \in {j \in DOMAIN rows :
     rows[j] \notin revoked /\ Cardinality({k \in j + 1 .. Len(rows) : rows[k] \notin revoked}) >= n}}

TrimReads(t) ==
  /\ step[t] = "trim"
  /\ \/ /\ surplus' = Set(surplus, t, Oldest(Limit))
        /\ step' = Set(step, t, "trimming")
        /\ UNCHANGED <<delayedStores, untrimmed, bounds>>
     \/ Fault /\ untrimmed' = TRUE /\ Over(t) /\ UNCHANGED surplus
  /\ UNCHANGED <<issued, table, attempt, request, rotated, late, out, outLate, given>>

TrimWrites(t) ==
  /\ step[t] = "trimming"
  /\ \/ /\ revoked' = revoked \union surplus[t] /\ given' = given \union surplus[t]
        /\ UNCHANGED <<untrimmed, bounds>>
     \/ Fault /\ untrimmed' = TRUE /\ UNCHANGED <<revoked, given>>
  /\ Over(t)
  /\ surplus' = Set(surplus, t, {})
  /\ UNCHANGED <<issued, rows, attempt, request, rotated, late, out, outLate>>

---------------------------------------------------------------------------
(* Refresh. *)

Refuse(c) == pc' = Set(pc, c, "idle") /\ token' = Set(token, c, 0)

Find(c, t) ==
  /\ pc[c] = "idle"
  /\ t \in 1 .. issued /\ t \notin revoked
  /\ pc' = Set(pc, c, IF t \in Stored THEN "valid" ELSE "missing")
  /\ token' = Set(token, c, t)
  /\ UNCHANGED <<issued, table, delayedStores, store, bounds, history>>

\* The map is asked after the table: a token stored in between is refused, although the
\* comment of the lookup (token_svc.go:180-181) does not want it to be.
FindDelayed(c) ==
  /\ pc[c] = "missing"
  /\ \/ token[c] \in delayedStores /\ pc' = Set(pc, c, "valid") /\ UNCHANGED token
     \/ token[c] \notin delayedStores /\ Refuse(c)
  /\ UNCHANGED <<issued, table, delayedStores, store, bounds, history>>

\* A failure to revoke is only logged.
RevokeOld(c) ==
  /\ pc[c] = "valid"
  /\ \/ revoked' = revoked \union ({token[c]} \cap Stored) /\ UNCHANGED bounds
     \/ Fault /\ UNCHANGED revoked
  /\ pc' = Set(pc, c, "revoked")
  /\ UNCHANGED <<issued, rows, delayedStores, store, token, history>>

\* untrackDelayedStore and IssuePairBestEffort.
IssueNew(c) ==
  /\ pc[c] = "revoked"
  /\ Issue
  /\ delayedStores' = (delayedStores \ {token[c]}) \union {issued + 1}
  /\ rotated' = rotated \union {token[c]}
  /\ late' = IF token[c] \in Active \/ step[token[c]] \in {"first", "again"}
               THEN late \union {token[c]} ELSE late
  /\ Refuse(c)
  /\ UNCHANGED <<table, attempt, surplus, bounds, out, outLate, given, untrimmed>>

---------------------------------------------------------------------------
\* RevokeAll marks the rows; the tokens in delayedStores stay.
Logout ==
  /\ logouts < MaxLogouts
  /\ logouts' = logouts + 1
  /\ revoked' = Stored
  /\ out' = 1 .. issued /\ outLate' = 1 .. issued \ Stored
  /\ UNCHANGED <<issued, rows, delayedStores, store, request, faults, rotated, late, given, untrimmed>>

\* The map and the goroutines are gone, and the tokens in it with them; a token that was
\* revoked has no successor.
Crash ==
  /\ Fault
  /\ delayedStores' = {}
  /\ step' = [t \in Tokens |-> IF step[t] = "none" THEN "none" ELSE "over"]
  /\ surplus' = [t \in Tokens |-> {}]
  /\ pc' = [c \in Clients |-> "idle"] /\ token' = [c \in Clients |-> 0]
  /\ given' = given \union delayedStores \union {token[c] : c \in {d \in Clients : pc[d] = "revoked"}}
  /\ untrimmed' = TRUE
  /\ UNCHANGED <<issued, table, attempt, rotated, late, out, outLate>>

StoreStep(t) ==
  \/ Recheck(t) \/ Create(t) \/ CreateBusy(t) \/ CreateRefused(t) \/ TrimReads(t) \/ TrimWrites(t)

Next ==
  \/ Login \/ Logout \/ Crash
  \/ \E t \in Tokens : StoreStep(t)
  \/ \E c \in Clients : (\E t \in Tokens : Find(c, t)) \/ FindDelayed(c) \/ RevokeOld(c) \/ IssueNew(c)

Spec == Init /\ [][Next]_vars

---------------------------------------------------------------------------
(* Properties. *)

\* Types; the table has each token once, and only tokens that were handed out.
TypeOK ==
  /\ issued \in 0 .. MaxTokens
  /\ rows \in Seq(1 .. issued) /\ \A i, j \in DOMAIN rows : rows[i] = rows[j] => i = j
  /\ revoked \subseteq Stored
  /\ delayedStores \subseteq 1 .. issued
  /\ step \in [Tokens -> {"none", "first", "wait", "again", "trim", "trimming", "over"}]
  /\ attempt \in [Tokens -> 0 .. MaxAttempts]
  /\ surplus \in [Tokens -> SUBSET Stored]
  /\ pc \in [Clients -> {"idle", "missing", "valid", "revoked"}] /\ token \in [Clients -> 0 .. issued]
  /\ \A t \in Tokens : step[t] = "none" <=> t > issued
  /\ logouts \in 0 .. MaxLogouts /\ faults \in 0 .. MaxFaults
  /\ \A S \in {rotated, late, out, outLate, given} : S \subseteq 1 .. issued
  /\ untrimmed \in BOOLEAN

Usable(t) == t \in Active \/ (t \notin Stored /\ t \in delayedStores)

\* A token in the hands of a user: not replaced or about to be, not signed out, evicted by
\* the limit, given up by its goroutine or lost in a crash.
Live(t) ==
  /\ t \in 1 .. issued
  /\ t \notin rotated \union out \union given
  /\ \A c \in Clients : ~(pc[c] = "revoked" /\ token[c] = t)

\* A live token never leaves the map before it is in the table, and is not revoked there.
TokenIsKnown == \A t \in 1 .. issued : Live(t) => Usable(t)

\* However long the database is busy, a refresh with a live token is accepted: after every
\* step no row of such a token is revoked, and one without a row is in the map; and a
\* request finds it there, unless it came into the table between the two lookups
\* (token_svc.go:175-184).  It is valid there then, so that the next refresh succeeds.
TokenIsAccepted ==
  [][/\ TokenIsKnown'
     /\ \A c \in Clients :
          FindDelayed(c) /\ Live(token[c]) => pc'[c] = "valid" \/ token[c] \in Active]_vars

\* A replaced token is refused from then on, and so is every token of a user who has
\* signed out.  The exceptions are named: a replaced token whose row was written, or was
\* being written, between its revocation and its removal from the map (or whose
\* revocation failed), and a token that was not stored yet at the logout.
DeadTokensStayDead ==
  /\ \A t \in rotated \ late : ~Usable(t)
  /\ \A t \in out \ outLate : ~Usable(t)

\* When every goroutine has finished and each has enforced the limit after its row came,
\* a user has at most Limit sessions, whatever the order of rows and trims was.
SessionLimit ==
  ~untrimmed /\ (\A t \in Tokens : step[t] \in {"none", "over"}) => Cardinality(Active) <= Limit
=============================================================================
