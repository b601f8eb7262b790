------------------------ MODULE SessionTokensProofs ------------------------
(***************************************************************************)
(* Proofs about SessionTokens, for any number of clients and tokens, any   *)
(* limit of sessions, and any number of logouts, faults and crashes.       *)
(***************************************************************************)
EXTENDS SessionTokens, SequenceTheorems, FiniteSetTheorems, WellFoundedInduction, TLAPS

\* A goroutine that has tries left waits; one that has used them up gives up.
AttemptsLeft ==
  \A t \in Tokens :
    /\ step[t] \in {"none", "first"} => attempt[t] = 0
    /\ step[t] = "wait" => attempt[t] < MaxAttempts

\* The limit is enforced on behalf of a token that has its row.
TrimsAfterStore == \A t \in Tokens : step[t] \in {"trim", "trimming"} => t \in Stored

RequestHasToken == \A c \in Clients : pc[c] # "idle" => token[c] \in 1 .. issued

\* A dead token is revoked for good, or it has no row, is not in the map, and its goroutine
\* will not store it any more: it can only find out that the token has left the map.
DeadForGood ==
  /\ \A t \in rotated \ late :
       \/ t \in revoked
       \/ t \notin Stored /\ t \notin delayedStores /\ step[t] \notin {"first", "again"}
  /\ out \ outLate \subseteq revoked

\* While the limit has always been enforced: whoever has stored the newest row is going to
\* enforce it, or holds what has to be revoked, or has revoked it.
Newest == rows[Len(rows)]
NewestTrims ==
  ~untrimmed =>
    /\ \A t \in Stored : step[t] \in {"trim", "trimming", "over"}
    /\ rows # <<>> =>
         \/ step[Newest] = "trim"
         \/ step[Newest] = "trimming" /\ Cardinality(Active \ surplus[Newest]) <= Limit
         \/ step[Newest] = "over" /\ Cardinality(Active) <= Limit

IInv ==
  /\ TypeOK
  /\ AttemptsLeft
  /\ TrimsAfterStore
  /\ RequestHasToken
  /\ DeadForGood
  /\ TokenIsKnown
  /\ NewestTrims

USE DEF Set, Tokens

---------------------------------------------------------------------------
(* The table. *)

\* A row is a token that was handed out.
LEMMA StoredAreIssued == TypeOK => Stored \subseteq 1 .. issued
BY LenProperties, ElementOfSeq DEF TypeOK, Stored

\* What a new row does to the table.
LEMMA NewRow ==
  ASSUME TypeOK, NEW t \in 1 .. issued, t \notin Stored, rows' = Append(rows, t)
  PROVE  /\ rows' \in Seq(1 .. issued)
         /\ \A i, j \in DOMAIN rows' : rows'[i] = rows'[j] => i = j
         /\ Stored' = Stored \union {t}
         /\ rows' # <<>> /\ Newest' = t
<1>1. rows \in Seq(1 .. issued) /\ Len(rows) \in Nat /\ DOMAIN rows = 1 .. Len(rows)
  BY LenProperties DEF TypeOK
<1>2. /\ rows' \in Seq(1 .. issued)
      /\ Len(rows') = Len(rows) + 1
      /\ \A i \in 1 .. Len(rows) : rows'[i] = rows[i]
      /\ rows'[Len(rows) + 1] = t
  BY <1>1
<1>3. DOMAIN rows' = 1 .. Len(rows) + 1
  BY <1>2, LenProperties
<1>4. \A i \in 1 .. Len(rows) : rows[i] # t
  BY <1>1 DEF Stored
<1>5. \A i, j \in DOMAIN rows' : rows'[i] = rows'[j] => i = j
  BY <1>1, <1>2, <1>3, <1>4 DEF TypeOK
<1>6. Stored' = Stored \union {t}
  BY <1>1, <1>2, <1>3 DEF Stored
<1>7. rows' # <<>> /\ Newest' = t
  BY <1>1, <1>2, EmptySeq DEF Newest
<1>. QED  BY <1>2, <1>5, <1>6, <1>7

\* The table is unharmed when tokens are handed out.
LEMMA RowsStay ==
  ASSUME TypeOK, issued' \in Nat, issued <= issued', rows' = rows
  PROVE  /\ rows' \in Seq(1 .. issued')
         /\ \A i, j \in DOMAIN rows' : rows'[i] = rows'[j] => i = j
         /\ Stored' = Stored
<1>1. 1 .. issued \subseteq 1 .. issued'
  BY DEF TypeOK
<1>2. rows \in Seq(1 .. issued')
  BY <1>1, SeqMonotonic DEF TypeOK
<1>. QED  BY <1>2 DEF TypeOK, Stored

\* Counting: the surplus leaves at most Limit sessions.

\* A set of numbers of which not more than Limit - 1 follow any member has at most Limit.
LEMMA FewFollow ==
  ASSUME NEW n \in Nat, NEW J \in SUBSET (1 .. n), NEW K \in SUBSET (1 .. n), J \subseteq K,
         \A m \in J : Cardinality({k \in m + 1 .. n : k \in K}) < Limit
  PROVE  IsFiniteSet(J) /\ Cardinality(J) <= Limit
<1>1. IsFiniteSet(J) /\ IsFiniteSet(1 .. n)
  <2>1. IsFiniteSet(1 .. n)
    BY FS_Interval
  <2>. QED  BY <2>1, FS_Subset
<1>2. CASE J = {}
  BY <1>1, <1>2, FS_EmptySet, LimitAssumption
<1>3. CASE J # {}
  <2>. DEFINE Starts == {1 .. j : j \in J}
  <2>1. Starts \subseteq FiniteSubsetsOf(1 .. n) /\ Starts # {}
    <3>1. \A j \in J : 1 .. j \subseteq 1 .. n /\ IsFiniteSet(1 .. j)
      BY FS_Interval
    <3>. QED  BY <1>3, <3>1 DEF FiniteSubsetsOf
  <2>2. PICK P \in Starts : \A Q \in Starts : ~(<<Q, P>> \in StrictSubsetOrdering(1 .. n))
    BY <2>1, FS_StrictSubsetOrderingWellFounded, WFMin
  <2>3. PICK m \in J : P = 1 .. m
    OBVIOUS
  <2>4. \A k \in J : m <= k
    <3>. SUFFICES ASSUME NEW k \in J, k < m  PROVE FALSE
      OBVIOUS
    <3>1. 1 .. k \in Starts /\ 1 .. k \subseteq 1 .. n /\ 1 .. m \subseteq 1 .. n
      OBVIOUS
    <3>2. 1 .. k \subseteq 1 .. m /\ 1 .. k # 1 .. m
      <4>1. m \in 1 .. m /\ m \notin 1 .. k
        OBVIOUS
      <4>. QED  BY <4>1
    <3>3. <<1 .. k, 1 .. m>> \in StrictSubsetOrdering(1 .. n)
      BY <3>1, <3>2 DEF StrictSubsetOrdering
    <3>. QED  BY <2>2, <2>3, <3>1, <3>3
  <2>. DEFINE After == {k \in m + 1 .. n : k \in K}
  <2>5. IsFiniteSet(After) /\ Cardinality(After) \in Nat
    <3>1. m + 1 .. n \subseteq 1 .. n /\ After \in SUBSET (1 .. n)
      OBVIOUS
    <3>. QED  BY <1>1, <3>1, FS_Subset, FS_CardinalityType
  <2>6. J \subseteq After \union {m}
    BY <2>4
  <2>7. Cardinality(After) < Limit
    BY DEF After
  <2>. HIDE DEF After
  <2>8. IsFiniteSet(After \union {m}) /\ Cardinality(After \union {m}) <= Cardinality(After) + 1
    <3>1. /\ IsFiniteSet(After \union {m})
          /\ \/ Cardinality(After \union {m}) = Cardinality(After)
             \/ Cardinality(After \union {m}) = Cardinality(After) + 1
      BY <2>5, FS_AddElement
    <3>. QED  BY <2>5, <3>1
  <2>9. Cardinality(J) <= Cardinality(After \union {m}) /\ Cardinality(J) \in Nat
    BY <1>1, <2>6, <2>8, FS_Subset, FS_CardinalityType
  <2>10. Cardinality(After \union {m}) \in Nat
    BY <2>8, FS_CardinalityType
  <2>. QED  BY <1>1, <2>5, <2>7, <2>8, <2>9, <2>10, LimitAssumption
<1>. QED  BY <1>2, <1>3

LEMMA SurplusLeavesLimit ==
  ASSUME TypeOK
  PROVE  Cardinality(Active \ Oldest(Limit)) <= Limit
<1>. DEFINE K == {k \in 1 .. Len(rows) : rows[k] \notin revoked}
            J == {j \in K : Cardinality({k \in j + 1 .. Len(rows) : k \in K}) < Limit}
            f == [j \in J |-> rows[j]]
            S == Active \ Oldest(Limit)
<1>1. Len(rows) \in Nat /\ DOMAIN rows = 1 .. Len(rows)
  BY LenProperties DEF TypeOK
<1>2. \A j \in 1 .. Len(rows) :
         {k \in j + 1 .. Len(rows) : k \in K} = {k \in j + 1 .. Len(rows) : rows[k] \notin revoked}
  BY <1>1
<1>3. \A j \in 1 .. Len(rows) :
         Cardinality({k \in j + 1 .. Len(rows) : rows[k] \notin revoked}) \in Nat
  <2>. SUFFICES ASSUME NEW j \in 1 .. Len(rows)
                PROVE  Cardinality({k \in j + 1 .. Len(rows) : rows[k] \notin revoked}) \in Nat
    OBVIOUS
  <2>1. IsFiniteSet(j + 1 .. Len(rows))
    BY <1>1, FS_Interval
  <2>. QED  BY <2>1, FS_Subset, FS_CardinalityType
<1>4. S \subseteq {rows[j] : j \in J}
  <2>. SUFFICES ASSUME NEW t \in Active, t \notin Oldest(Limit)  PROVE t \in {rows[j] : j \in J}
    OBVIOUS
  <2>1. PICK j \in 1 .. Len(rows) : t = rows[j] /\ rows[j] \notin revoked
    BY <1>1 DEF Active, Stored
  <2>2. ~(Cardinality({k \in j + 1 .. Len(rows) : rows[k] \notin revoked}) >= Limit)
    BY <1>1, <2>1 DEF Oldest
  <2>. DEFINE n == Cardinality({k \in j + 1 .. Len(rows) : rows[k] \notin revoked})
  <2>3. Cardinality({k \in j + 1 .. Len(rows) : k \in K}) = n
    BY <1>2
  <2>4. n \in Nat
    BY <1>3
  <2>. HIDE DEF n
  <2>5. ~(n >= Limit)
    BY <2>2 DEF n
  <2>6. n < Limit
    BY <2>4, <2>5, LimitAssumption
  <2>. QED  BY <2>1, <2>3, <2>6
<1>5. IsFiniteSet(J) /\ Cardinality(J) <= Limit
  BY <1>1, FewFollow
<1>. HIDE DEF J, S
<1>6. f \in Surjection(J, {rows[j] : j \in J})
  BY DEF Surjection
<1>7. /\ IsFiniteSet({rows[j] : j \in J})
      /\ Cardinality({rows[j] : j \in J}) <= Cardinality(J)
  BY <1>5, <1>6, FS_Surjection
<1>8. Cardinality(S) <= Cardinality({rows[j] : j \in J})
  BY <1>4, <1>7, FS_Subset
<1>9. Cardinality(S) \in Nat /\ Cardinality(J) \in Nat /\ Cardinality({rows[j] : j \in J}) \in Nat
  BY <1>4, <1>5, <1>7, FS_Subset, FS_CardinalityType
<1>. QED  BY <1>5, <1>7, <1>8, <1>9, LimitAssumption DEF S

\* The sessions are finitely many, and fewer do not exceed a limit that more keep.
LEMMA FewerKeepLimit ==
  ASSUME TypeOK, NEW T \in SUBSET Active, NEW S \in SUBSET T, Cardinality(T) <= Limit
  PROVE  Cardinality(S) <= Limit
<1>1. IsFiniteSet(1 .. issued)
  BY FS_Interval DEF TypeOK
<1>2. T \subseteq 1 .. issued
  BY StoredAreIssued DEF Active
<1>3. IsFiniteSet(T)
  BY <1>1, <1>2, FS_Subset
<1>4. IsFiniteSet(S) /\ Cardinality(S) <= Cardinality(T) /\ Cardinality(S) \in Nat /\ Cardinality(T) \in Nat
  BY <1>3, FS_Subset, FS_CardinalityType
<1>. QED  BY <1>4, LimitAssumption

---------------------------------------------------------------------------
(* Each step keeps the types and where the goroutines and requests stand. *)

LEMMA Bounds == MaxTokens \in Nat /\ MaxLogouts \in Nat /\ MaxFaults \in Nat
BY BoundsAssumption

TableTyped == rows \in Seq(1 .. issued) /\ \A i, j \in DOMAIN rows : rows[i] = rows[j] => i = j

TokensTyped ==
  /\ issued \in 0 .. MaxTokens
  /\ revoked \subseteq Stored /\ delayedStores \subseteq 1 .. issued
  /\ rotated \subseteq 1 .. issued /\ late \subseteq 1 .. issued /\ out \subseteq 1 .. issued
  /\ outLate \subseteq 1 .. issued /\ given \subseteq 1 .. issued

Goroutines ==
  /\ step \in [Tokens -> {"none", "first", "wait", "again", "trim", "trimming", "over"}]
  /\ attempt \in [Tokens -> 0 .. MaxAttempts]
  /\ surplus \in [Tokens -> SUBSET Stored]
  /\ \A t \in Tokens : step[t] = "none" <=> t > issued
  /\ AttemptsLeft
  /\ TrimsAfterStore

Requests ==
  /\ pc \in [Clients -> {"idle", "missing", "valid", "revoked"}] /\ token \in [Clients -> 0 .. issued]
  /\ RequestHasToken

Bounded == logouts \in 0 .. MaxLogouts /\ faults \in 0 .. MaxFaults /\ untrimmed \in BOOLEAN

Kept == TableTyped /\ TokensTyped /\ Goroutines /\ Requests /\ Bounded

LEMMA KeptIsTypes == Kept <=> TypeOK /\ AttemptsLeft /\ TrimsAfterStore /\ RequestHasToken
<1>1. (\A S \in {rotated, late, out, outLate, given} : S \subseteq 1 .. issued)
        <=> /\ rotated \subseteq 1 .. issued /\ late \subseteq 1 .. issued /\ out \subseteq 1 .. issued
            /\ outLate \subseteq 1 .. issued /\ given \subseteq 1 .. issued
  BY Zenon
<1>. QED  BY <1>1, Zenon DEF Kept, TableTyped, TokensTyped, Goroutines, Requests, Bounded, TypeOK

\* A step that writes no row.
LEMMA SameTable ==
  ASSUME Kept, rows' = rows, issued' \in 0 .. MaxTokens, issued <= issued'
  PROVE  TableTyped' /\ Stored' = Stored
BY KeptIsTypes, RowsStay, BoundsAssumption DEF TableTyped

LEMMA LoginKept == Kept /\ Login => Kept'
<1>. SUFFICES ASSUME Kept, Login  PROVE Kept'
  OBVIOUS
<1>. USE BoundsAssumption DEF Login, Issue, table, request, bounds, history
<1>1. issued \in 0 .. MaxTokens /\ issued' \in 0 .. MaxTokens /\ issued' = issued + 1 /\ rows' = rows
  BY DEF Kept, TokensTyped
<1>2. TableTyped' /\ Stored' = Stored
  BY <1>1, SameTable
<1>3. TokensTyped'
  BY <1>1, <1>2 DEF Kept, TokensTyped
<1>4. Goroutines'
  BY <1>1, <1>2 DEF Kept, Goroutines, AttemptsLeft, TrimsAfterStore
<1>5. Requests' /\ Bounded'
  BY <1>1 DEF Kept, Requests, RequestHasToken, Bounded
<1>. QED  BY <1>2, <1>3, <1>4, <1>5 DEF Kept

LEMMA IssueNewKept == ASSUME Kept, NEW c \in Clients, IssueNew(c)  PROVE Kept'
<1>. USE BoundsAssumption DEF IssueNew, Issue, Refuse, table, request, bounds, history
<1>1. issued \in 0 .. MaxTokens /\ issued' \in 0 .. MaxTokens /\ issued' = issued + 1 /\ rows' = rows
  BY DEF Kept, TokensTyped
<1>2. TableTyped' /\ Stored' = Stored
  BY <1>1, SameTable
<1>3. token[c] \in 1 .. issued
  BY DEF Kept, Requests, RequestHasToken
<1>4. TokensTyped'
  <2>1. 1 .. issued \subseteq 1 .. issued' /\ issued + 1 \in 1 .. issued'
    BY <1>1
  <2>2. rotated' \subseteq 1 .. issued /\ late' \subseteq 1 .. issued
    BY <1>3 DEF Kept, TokensTyped
  <2>3. delayedStores' \subseteq 1 .. issued'
    BY <2>1 DEF Kept, TokensTyped
  <2>. QED  BY <1>1, <1>2, <2>1, <2>2, <2>3 DEF Kept, TokensTyped
<1>5. Goroutines'
  BY <1>1, <1>2 DEF Kept, Goroutines, AttemptsLeft, TrimsAfterStore
<1>6. Requests' /\ Bounded'
  BY <1>1 DEF Kept, Requests, RequestHasToken, Bounded
<1>. QED  BY <1>2, <1>4, <1>5, <1>6 DEF Kept

LEMMA RequestKept ==
  ASSUME Kept, NEW c \in Clients,
         (\E t \in Tokens : Find(c, t)) \/ FindDelayed(c) \/ RevokeOld(c)
  PROVE  Kept'
<1>. USE DEF Refuse, table, store, request, bounds, history, Find, FindDelayed, RevokeOld, Fault
<1>1. rows' = rows /\ issued' = issued /\ issued \in 0 .. MaxTokens
  BY DEF Kept, TokensTyped
<1>2. TableTyped' /\ Stored' = Stored
  BY <1>1, SameTable
<1>3. TokensTyped'
  BY <1>1, <1>2 DEF Kept, TokensTyped
<1>4. Goroutines'
  BY <1>1, <1>2 DEF Kept, Goroutines, AttemptsLeft, TrimsAfterStore
<1>5. Requests'
  BY <1>1 DEF Kept, Requests, RequestHasToken
<1>6. Bounded'
  BY BoundsAssumption DEF Kept, Bounded
<1>. QED  BY <1>2, <1>3, <1>4, <1>5, <1>6 DEF Kept

LEMMA LogoutKept == Kept /\ Logout => Kept'
<1>. SUFFICES ASSUME Kept, Logout  PROVE Kept'
  OBVIOUS
<1>. USE BoundsAssumption DEF Logout, store, request
<1>1. rows' = rows /\ issued' = issued /\ issued \in 0 .. MaxTokens
  BY DEF Kept, TokensTyped
<1>2. TableTyped' /\ Stored' = Stored
  BY <1>1, SameTable
<1>3. TokensTyped'
  BY <1>1, <1>2 DEF Kept, TokensTyped
<1>4. Goroutines'
  BY <1>1, <1>2 DEF Kept, Goroutines, AttemptsLeft, TrimsAfterStore
<1>5. Requests' /\ Bounded'
  BY <1>1 DEF Kept, Requests, RequestHasToken, Bounded
<1>. QED  BY <1>2, <1>3, <1>4, <1>5 DEF Kept

LEMMA CrashKept == Kept /\ Crash => Kept'
<1>. SUFFICES ASSUME Kept, Crash  PROVE Kept'
  OBVIOUS
<1>. USE BoundsAssumption DEF Crash, Fault, table
<1>1. rows' = rows /\ issued' = issued /\ issued \in 0 .. MaxTokens
  BY DEF Kept, TokensTyped
<1>2. TableTyped' /\ Stored' = Stored
  BY <1>1, SameTable
<1>3. given' \subseteq 1 .. issued
  BY DEF Kept, TokensTyped, Requests, RequestHasToken
<1>4. TokensTyped'
  BY <1>1, <1>2, <1>3 DEF Kept, TokensTyped
<1>5. Goroutines'
  BY <1>1, <1>2 DEF Kept, Goroutines, AttemptsLeft, TrimsAfterStore
<1>6. Requests' /\ Bounded'
  BY <1>1 DEF Kept, Requests, RequestHasToken, Bounded
<1>. QED  BY <1>2, <1>4, <1>5, <1>6 DEF Kept

\* A goroutine stores a token that was handed out.
LEMMA GoroutineHasToken ==
  ASSUME Kept, NEW t \in Tokens, step[t] # "none"
  PROVE  t \in 1 .. issued /\ issued \in 0 .. MaxTokens
BY BoundsAssumption DEF Kept, Goroutines, TokensTyped

LEMMA CreateKept == ASSUME Kept, NEW t \in Tokens, Create(t)  PROVE Kept'
<1>. USE BoundsAssumption DEF Create, bounds, request, Later, Over, Fault
<1>1. /\ t \in 1 .. issued /\ issued' = issued /\ revoked' = revoked
      /\ t \notin Stored /\ rows' = Append(rows, t)
  BY GoroutineHasToken
<1>2. TableTyped' /\ Stored' = Stored \union {t}
  BY <1>1, NewRow, KeptIsTypes DEF TableTyped
<1>3. TokensTyped'
  BY <1>1, <1>2 DEF Kept, TokensTyped
<1>4. Goroutines'
  BY <1>1, <1>2 DEF Kept, Goroutines, AttemptsLeft, TrimsAfterStore
<1>5. Requests'
  BY <1>1 DEF Kept, Requests, RequestHasToken
<1>6. Bounded'
  <2>1. logouts' = logouts /\ (faults' = faults \/ (faults < MaxFaults /\ faults' = faults + 1))
    OBVIOUS
  <2>2. untrimmed' \in {TRUE, untrimmed}
    BY Zenon
  <2>3. logouts' \in 0 .. MaxLogouts /\ faults' \in 0 .. MaxFaults
    BY <2>1, Bounds DEF Kept, Bounded
  <2>4. untrimmed' \in BOOLEAN
    BY <2>2, Zenon DEF Kept, Bounded
  <2>. QED  BY <2>3, <2>4, Zenon DEF Bounded
<1>. QED  BY <1>2, <1>3, <1>4, <1>5, <1>6 DEF Kept

LEMMA GoroutineKept ==
  ASSUME Kept, NEW t \in Tokens,
         Recheck(t) \/ CreateBusy(t) \/ CreateRefused(t) \/ TrimReads(t) \/ TrimWrites(t)
  PROVE  Kept'
<1>. USE BoundsAssumption DEF table, bounds, request, history, Later, Over, Fault
<1>1. rows' = rows /\ issued' = issued /\ t \in 1 .. issued /\ issued \in 0 .. MaxTokens
  BY GoroutineHasToken DEF Recheck, CreateBusy, CreateRefused, TrimReads, TrimWrites
<1>2. TableTyped' /\ Stored' = Stored
  BY <1>1, SameTable
<1>3. Oldest(Limit) \subseteq Stored
  BY DEF Oldest, Stored
<1>4. surplus[t] \subseteq Stored /\ Stored \subseteq 1 .. issued
  BY StoredAreIssued, KeptIsTypes DEF Kept, Goroutines
<1>5. TokensTyped'
  BY <1>1, <1>2, <1>4 DEF Recheck, CreateBusy, CreateRefused, TrimReads, TrimWrites, Kept, TokensTyped
<1>6. Goroutines'
  <2>1. CASE Recheck(t)
    BY <1>1, <1>2, <2>1 DEF Recheck, Kept, Goroutines, AttemptsLeft, TrimsAfterStore
  <2>2. CASE CreateBusy(t) \/ CreateRefused(t)
    BY <1>1, <1>2, <2>2 DEF CreateBusy, CreateRefused, Kept, Goroutines, AttemptsLeft, TrimsAfterStore
  <2>3. CASE TrimReads(t) \/ TrimWrites(t)
    BY <1>1, <1>2, <1>3, <2>3 DEF TrimReads, TrimWrites, Kept, Goroutines, AttemptsLeft, TrimsAfterStore
  <2>. QED  BY <2>1, <2>2, <2>3
<1>7. Requests'
  BY <1>1 DEF Recheck, CreateBusy, CreateRefused, TrimReads, TrimWrites, Kept, Requests, RequestHasToken
<1>8. Bounded'
  <2>1. logouts' = logouts /\ (faults' = faults \/ (faults < MaxFaults /\ faults' = faults + 1))
    BY DEF Recheck, CreateBusy, CreateRefused, TrimReads, TrimWrites
  <2>2. untrimmed' \in {TRUE, untrimmed}
    BY Zenon DEF Recheck, CreateBusy, CreateRefused, TrimReads, TrimWrites
  <2>3. /\ logouts \in 0 .. MaxLogouts /\ faults \in 0 .. MaxFaults
        /\ logouts' \in 0 .. MaxLogouts /\ faults' \in 0 .. MaxFaults
    BY <2>1, Bounds DEF Kept, Bounded
  <2>4. untrimmed' \in BOOLEAN
    BY <2>2, Zenon DEF Kept, Bounded
  <2>. QED  BY <2>3, <2>4, Zenon DEF Bounded
<1>. QED  BY <1>2, <1>5, <1>6, <1>7, <1>8 DEF Kept

LEMMA StutterKept == Kept /\ UNCHANGED vars => Kept'
<1>. SUFFICES ASSUME Kept, UNCHANGED vars  PROVE Kept'
  OBVIOUS
<1>. USE DEF vars, table, store, request, bounds, history
<1>1. issued \in 0 .. MaxTokens
  BY DEF Kept, TokensTyped
<1>2. TableTyped' /\ Stored' = Stored
  BY <1>1, SameTable, BoundsAssumption
<1>3. TokensTyped' /\ Goroutines' /\ Requests' /\ Bounded'
  BY <1>2 DEF Kept, TokensTyped, Goroutines, Requests, Bounded, AttemptsLeft, TrimsAfterStore,
              RequestHasToken
<1>. QED  BY <1>2, <1>3 DEF Kept

LEMMA StepKept == Kept /\ [Next]_vars => Kept'
BY LoginKept, IssueNewKept, RequestKept, LogoutKept, CrashKept, CreateKept, GoroutineKept, StutterKept
   DEF Next, StoreStep

---------------------------------------------------------------------------
(* The first state. *)

LEMMA InitInv == Init => IInv
<1>. SUFFICES ASSUME Init  PROVE IInv
  OBVIOUS
<1>. USE BoundsAssumption, LimitAssumption DEF Init
<1>1. /\ rows \in [1 .. Earlier -> 1 .. Earlier] /\ rows \in Seq(1 .. issued)
      /\ Stored = 1 .. Earlier /\ DOMAIN rows = 1 .. Earlier
  BY DEF Stored
<1>2. Len(rows) = Earlier
  BY <1>1, LenProperties
<1>3. Kept
  <2>1. TableTyped
    BY <1>1 DEF TableTyped
  <2>2. TokensTyped
    BY <1>1 DEF TokensTyped
  <2>3. Goroutines
    BY <1>1 DEF Goroutines, AttemptsLeft, TrimsAfterStore
  <2>4. Requests
    BY DEF Requests, RequestHasToken
  <2>5. Bounded
    <3>1. logouts \in 0 .. MaxLogouts /\ faults \in 0 .. MaxFaults
      BY Bounds
    <3>2. untrimmed \in BOOLEAN
      BY Zenon
    <3>. QED  BY <3>1, <3>2, Zenon DEF Bounded
  <2>. QED  BY <2>1, <2>2, <2>3, <2>4, <2>5 DEF Kept
<1>4. IsFiniteSet(1 .. Earlier) /\ Cardinality(1 .. Earlier) = Earlier
  BY FS_Interval
<1>5. Cardinality(Active) <= Limit
  BY <1>1, <1>4 DEF Active
<1>6. rows # <<>> => step[Newest] = "over"
  <2>. SUFFICES ASSUME rows # <<>>  PROVE step[Newest] = "over"
    OBVIOUS
  <2>1. Len(rows) # 0
    BY <1>1, EmptySeq
  <2>2. rows[Len(rows)] = Len(rows) /\ Len(rows) \in Tokens /\ Len(rows) <= Earlier
    BY <1>1, <1>2, <2>1
  <2>. QED  BY <2>2 DEF Newest
<1>7. NewestTrims
  <2>1. \A t \in Stored : step[t] \in {"trim", "trimming", "over"}
    BY <1>1
  <2>. QED  BY <1>5, <1>6, <2>1 DEF NewestTrims
<1>8. DeadForGood /\ TokenIsKnown
  BY <1>1 DEF DeadForGood, TokenIsKnown, Live, Usable, Active
<1>. QED  BY <1>3, <1>7, <1>8, KeptIsTypes DEF IInv

---------------------------------------------------------------------------
(* Dead tokens stay dead, live ones known. *)

\* Once dead, a token is revoked or can no longer come into the table.
LEMMA StepDead == IInv /\ [Next]_vars => DeadForGood'
<1>. SUFFICES ASSUME IInv, [Next]_vars  PROVE DeadForGood'
  OBVIOUS
<1>. USE BoundsAssumption DEF IInv, table, store, request, bounds, history, Refuse, Fault, Later, Over
<1>0. /\ Kept /\ revoked \subseteq Stored /\ issued \in 0 .. MaxTokens
      /\ rotated \subseteq 1 .. issued /\ Stored \subseteq 1 .. issued
  BY KeptIsTypes, StoredAreIssued DEF Kept, TokensTyped
<1>1. CASE Login
  <2>1. Stored' = Stored
    BY <1>1 DEF Login, Stored
  <2>. QED  BY <1>0, <1>1, <2>1 DEF Login, Issue, DeadForGood, Kept, Goroutines
<1>2. CASE Logout
  BY <1>0, <1>2 DEF Logout, DeadForGood, Stored
<1>3. CASE Crash
  BY <1>0, <1>3 DEF Crash, DeadForGood, Stored, Kept, Goroutines
<1>4. ASSUME NEW t \in Tokens, StoreStep(t)  PROVE DeadForGood'
  <2>. USE DEF Kept, Goroutines, DeadForGood
  <2>1. CASE Create(t)
    <3>1. Stored' = Stored \union {t} /\ t \notin revoked
      BY <1>0, <2>1, NewRow, GoroutineHasToken DEF Create
    <3>. QED  BY <1>0, <2>1, <3>1 DEF Create
  <2>2. CASE Recheck(t) \/ CreateBusy(t) \/ CreateRefused(t)
    <3>1. Stored' = Stored
      BY <2>2 DEF Recheck, CreateBusy, CreateRefused, Stored
    <3>2. /\ rotated' = rotated /\ late' = late /\ out' = out /\ outLate' = outLate
          /\ delayedStores' \subseteq delayedStores /\ revoked' = revoked
          /\ \A u \in Tokens \ {t} : step'[u] = step[u]
          /\ step'[t] \in {"first", "again"} => step[t] \in {"first", "again"} \/ t \in delayedStores
      BY <1>0, <2>2 DEF Recheck, CreateBusy, CreateRefused
    <3>. QED  BY <1>0, <3>1, <3>2
  <2>3. CASE TrimReads(t) \/ TrimWrites(t)
    <3>1. Stored' = Stored
      BY <2>3 DEF TrimReads, TrimWrites, Stored
    <3>2. /\ rotated' = rotated /\ late' = late /\ out' = out /\ outLate' = outLate
          /\ delayedStores' \subseteq delayedStores /\ revoked \subseteq revoked'
          /\ \A u \in Tokens \ {t} : step'[u] = step[u]
      BY <1>0, <2>3 DEF TrimReads, TrimWrites
    <3>3. step'[t] \notin {"first", "again"}
      BY <1>0, <2>3 DEF TrimReads, TrimWrites
    <3>4. DeadForGood /\ rotated \subseteq Tokens
      BY <1>0 DEF Tokens
    <3>. QED  BY <3>1, <3>2, <3>3, <3>4, Zenon DEF DeadForGood
  <2>. QED  BY <1>4, <2>1, <2>2, <2>3 DEF StoreStep
<1>5. ASSUME NEW c \in Clients, (\E t \in Tokens : Find(c, t)) \/ FindDelayed(c) \/ RevokeOld(c)
      PROVE  DeadForGood'
  <2>1. Stored' = Stored
    BY <1>5 DEF Find, FindDelayed, RevokeOld, Stored
  <2>2. /\ rotated' = rotated /\ late' = late /\ out' = out /\ outLate' = outLate
        /\ step' = step /\ delayedStores' = delayedStores /\ revoked \subseteq revoked'
    BY <1>5 DEF Find, FindDelayed, RevokeOld
  <2>. QED  BY <2>1, <2>2 DEF DeadForGood
<1>6. ASSUME NEW c \in Clients, IssueNew(c)  PROVE DeadForGood'
  <2>1. Stored' = Stored /\ token[c] \in 1 .. issued
    BY <1>0, <1>6 DEF IssueNew, Stored, Kept, Requests, RequestHasToken
  <2>. QED  BY <1>0, <1>6, <2>1 DEF IssueNew, Issue, DeadForGood, Kept, Goroutines, Active
<1>7. CASE UNCHANGED vars
  BY <1>7 DEF vars, DeadForGood, Stored
<1>. QED  BY <1>1, <1>2, <1>3, <1>4, <1>5, <1>6, <1>7 DEF Next

\* A token leaves the map for the table, or for a reason that is accounted for.
LEMMA StepKnown == IInv /\ [Next]_vars => TokenIsKnown'
<1>. SUFFICES ASSUME IInv, [Next]_vars  PROVE TokenIsKnown'
  OBVIOUS
<1>. USE BoundsAssumption DEF IInv, table, store, request, bounds, history, Refuse, Fault, Later, Over
<1>0. /\ Kept /\ revoked \subseteq Stored /\ issued \in 0 .. MaxTokens
      /\ rotated \subseteq 1 .. issued /\ Stored \subseteq 1 .. issued
  BY KeptIsTypes, StoredAreIssued DEF Kept, TokensTyped
<1>. USE DEF TokenIsKnown, Live, Usable, Active
<1>1. CASE Login
  <2>1. Stored' = Stored
    BY <1>1 DEF Login, Stored
  <2>. QED  BY <1>0, <1>1, <2>1 DEF Login, Issue
<1>2. CASE Logout
  BY <1>0, <1>2 DEF Logout
<1>3. CASE Crash
  <2>1. Stored' = Stored
    BY <1>3 DEF Crash, Stored
  <2>. QED  BY <1>0, <1>3, <2>1 DEF Crash
<1>4. ASSUME NEW t \in Tokens, StoreStep(t)  PROVE TokenIsKnown'
  <2>1. CASE Create(t)
    <3>1. Stored' = Stored \union {t} /\ t \notin revoked
      BY <1>0, <2>1, NewRow, GoroutineHasToken DEF Create
    <3>. QED  BY <1>0, <2>1, <3>1 DEF Create
  <2>2. CASE Recheck(t) \/ CreateBusy(t) \/ CreateRefused(t)
    <3>1. Stored' = Stored
      BY <2>2 DEF Recheck, CreateBusy, CreateRefused, Stored
    <3>. QED  BY <1>0, <2>2, <3>1 DEF Recheck, CreateBusy, CreateRefused
  <2>3. CASE TrimReads(t) \/ TrimWrites(t)
    <3>1. Stored' = Stored /\ t \in Stored
      BY <1>0, <2>3 DEF TrimReads, TrimWrites, Stored, TrimsAfterStore
    <3>. QED  BY <1>0, <2>3, <3>1 DEF TrimReads, TrimWrites
  <2>. QED  BY <1>4, <2>1, <2>2, <2>3 DEF StoreStep
<1>5. ASSUME NEW c \in Clients, (\E t \in Tokens : Find(c, t)) \/ FindDelayed(c) \/ RevokeOld(c)
      PROVE  TokenIsKnown'
  <2>1. Stored' = Stored
    BY <1>5 DEF Find, FindDelayed, RevokeOld, Stored
  <2>. QED  BY <1>0, <1>5, <2>1 DEF Find, FindDelayed, RevokeOld, Kept, Requests
<1>6. ASSUME NEW c \in Clients, IssueNew(c)  PROVE TokenIsKnown'
  <2>1. Stored' = Stored /\ token[c] \in 1 .. issued
    BY <1>0, <1>6 DEF IssueNew, Stored, Kept, Requests, RequestHasToken
  <2>. QED  BY <1>0, <1>6, <2>1 DEF IssueNew, Issue, Kept, Requests
<1>7. CASE UNCHANGED vars
  BY <1>7 DEF vars, Stored
<1>. QED  BY <1>1, <1>2, <1>3, <1>4, <1>5, <1>6, <1>7 DEF Next

---------------------------------------------------------------------------
(* Whoever stored the newest row enforces the limit. *)

\* Nothing but revocations happens to the table and to the goroutine of its newest row.
LEMMA OnlyRevoked ==
  ASSUME Kept, NewestTrims, rows' = rows, revoked \subseteq revoked', untrimmed' = untrimmed,
         \A t \in Stored : step'[t] = step[t] /\ surplus'[t] = surplus[t]
  PROVE  NewestTrims'
<1>1. Stored' = Stored /\ Newest' = Newest /\ Active' \subseteq Active
  BY DEF Stored, Newest, Active
<1>2. rows # <<>> => Newest \in Stored
  BY EmptySeq, LenProperties DEF Kept, TableTyped, Newest, Stored
<1>3. /\ Cardinality(Active) <= Limit => Cardinality(Active') <= Limit
      /\ Cardinality(Active \ surplus[Newest]) <= Limit => Cardinality(Active' \ surplus[Newest]) <= Limit
  BY <1>1, FewerKeepLimit, KeptIsTypes
<1>. QED  BY <1>1, <1>2, <1>3 DEF NewestTrims

\* The newest row's goroutine is the one that matters: the rows before it are in what it reads.
LEMMA StepTrims == IInv /\ [Next]_vars => NewestTrims'
<1>. SUFFICES ASSUME IInv, [Next]_vars, ~untrimmed'  PROVE NewestTrims'
  BY DEF NewestTrims
<1>. USE BoundsAssumption DEF table, store, request, bounds, history, Refuse, Fault, Later, Over
<1>0. /\ Kept /\ revoked \subseteq Stored /\ issued \in 0 .. MaxTokens
      /\ Stored \subseteq 1 .. issued /\ NewestTrims
  BY KeptIsTypes, StoredAreIssued DEF IInv, Kept, TokensTyped
<1>10. Stored \subseteq Tokens
  BY <1>0, Bounds
<1>1. CASE Login \/ \E c \in Clients : IssueNew(c)
  BY <1>0, <1>1, OnlyRevoked DEF Login, IssueNew, Issue, Kept, Goroutines
<1>2. CASE Logout
  BY <1>0, <1>2, OnlyRevoked DEF Logout
<1>3. ~Crash
  BY DEF Crash
<1>4. ASSUME NEW t \in Tokens, StoreStep(t)  PROVE NewestTrims'
  <2>. USE DEF Kept, Goroutines
  <2>1. CASE Create(t)
    <3>1. Stored' = Stored \union {t} /\ rows' # <<>> /\ Newest' = t
      BY <1>0, <2>1, NewRow, GoroutineHasToken, KeptIsTypes DEF Create
    <3>. QED  BY <1>0, <2>1, <3>1 DEF Create, NewestTrims
  <2>2. CASE Recheck(t) \/ CreateBusy(t) \/ CreateRefused(t)
    <3>1. ~untrimmed /\ t \notin Stored
      BY <1>0, <2>2 DEF Recheck, CreateBusy, CreateRefused, NewestTrims
    <3>. QED  BY <1>0, <2>2, <3>1, OnlyRevoked DEF Recheck, CreateBusy, CreateRefused
  <2>3. CASE TrimReads(t)
    <3>1. CASE rows # <<>> /\ t = Newest
      <4>1. Cardinality(Active \ Oldest(Limit)) <= Limit
        BY <1>0, SurplusLeavesLimit, KeptIsTypes
      <4>2. Active' = Active /\ Stored' = Stored /\ Newest' = Newest
        BY <2>3 DEF TrimReads, Active, Stored, Newest
      <4>3. /\ step'[t] = "trimming" /\ surplus'[t] = Oldest(Limit) /\ rows' = rows /\ ~untrimmed
            /\ \A u \in Tokens \ {t} : step'[u] = step[u]
        BY <1>0, <2>3 DEF TrimReads
      <4>. QED  BY <1>0, <3>1, <4>1, <4>2, <4>3 DEF NewestTrims
    <3>2. CASE ~(rows # <<>> /\ t = Newest)
      <4>1. Active' = Active /\ Stored' = Stored /\ Newest' = Newest
        BY <2>3 DEF TrimReads, Active, Stored, Newest
      <4>2. /\ step'[t] = "trimming" /\ rows' = rows /\ ~untrimmed
            /\ \A u \in Tokens \ {t} : step'[u] = step[u] /\ surplus'[u] = surplus[u]
        BY <1>0, <2>3 DEF TrimReads
      <4>3. rows # <<>> => Newest \in Stored
        BY <1>0, EmptySeq, LenProperties DEF TableTyped, Newest, Stored
      <4>4. Newest # t \/ rows = <<>>
        BY <3>2
      <4>. HIDE DEF Kept, Goroutines
      <4>5. step[t] = "trim"
        BY <2>3 DEF TrimReads
      <4>6. \A u \in Stored : step'[u] \in {"trim", "trimming", "over"}
        BY <1>0, <1>10, <4>2, <4>5 DEF NewestTrims
      <4>7. rows # <<>> => step'[Newest] = step[Newest] /\ surplus'[Newest] = surplus[Newest]
        BY <1>0, <1>10, <4>2, <4>3, <4>4
      <4>. QED  BY <1>0, <4>1, <4>2, <4>6, <4>7 DEF NewestTrims
    <3>. QED  BY <3>1, <3>2
  <2>4. CASE TrimWrites(t)
    <3>1. Stored' = Stored /\ Newest' = Newest /\ Active' = Active \ surplus[t]
      BY <2>4 DEF TrimWrites, Stored, Newest, Active
    <3>2. /\ Cardinality(Active) <= Limit => Cardinality(Active') <= Limit
          /\ Cardinality(Active \ surplus[Newest]) <= Limit
               => Cardinality(Active' \ surplus[Newest]) <= Limit
      <4>1. Active' \subseteq Active /\ Active' \ surplus[Newest] \subseteq Active \ surplus[Newest]
        BY <3>1
      <4>. QED  BY <1>0, <4>1, FewerKeepLimit, KeptIsTypes
    <3>3. /\ step[t] = "trimming" /\ step'[t] = "over" /\ rows' = rows /\ ~untrimmed
          /\ \A u \in Tokens \ {t} : step'[u] = step[u] /\ surplus'[u] = surplus[u]
      BY <1>0, <2>4 DEF TrimWrites
    <3>4. rows # <<>> => Newest \in Stored
      BY <1>0, EmptySeq, LenProperties DEF TableTyped, Newest, Stored
    <3>. HIDE DEF Kept, Goroutines
    <3>5. \A u \in Stored : step'[u] \in {"trim", "trimming", "over"}
      BY <1>0, <1>10, <3>3 DEF NewestTrims
    <3>6. rows # <<>> /\ Newest # t => step'[Newest] = step[Newest] /\ surplus'[Newest] = surplus[Newest]
      BY <1>0, <1>10, <3>3, <3>4
    <3>7. /\ rows # <<>> /\ Newest = t => Cardinality(Active') <= Limit
          /\ rows' # <<>> => rows # <<>>
      BY <1>0, <3>1, <3>3 DEF NewestTrims
    <3>. QED  BY <1>0, <3>1, <3>2, <3>3, <3>5, <3>6, <3>7 DEF NewestTrims
  <2>. QED  BY <1>4, <2>1, <2>2, <2>3, <2>4 DEF StoreStep
<1>5. ASSUME NEW c \in Clients, (\E t \in Tokens : Find(c, t)) \/ FindDelayed(c) \/ RevokeOld(c)
      PROVE  NewestTrims'
  BY <1>0, <1>5, OnlyRevoked DEF Find, FindDelayed, RevokeOld
<1>6. CASE UNCHANGED vars
  BY <1>0, <1>6, OnlyRevoked DEF vars
<1>. QED  BY <1>1, <1>2, <1>3, <1>4, <1>5, <1>6 DEF Next

---------------------------------------------------------------------------
(* The theorems. *)

\* The invariant holds in every state of every execution.
THEOREM Inductive == Spec => []IInv
<1>1. (Kept <=> TypeOK /\ AttemptsLeft /\ TrimsAfterStore /\ RequestHasToken)'
  BY KeptIsTypes, PTL
<1>2. IInv /\ [Next]_vars => IInv'
  BY <1>1, StepKept, StepDead, StepKnown, StepTrims, KeptIsTypes, Zenon DEF IInv
<1>. QED  BY InitInv, <1>2, PTL DEF Spec

\* Types; the table has each token once, and only tokens that were handed out.
THEOREM TypeCorrect == Spec => []TypeOK
<1>1. IInv => TypeOK
  BY DEF IInv
<1>. QED  BY Inductive, <1>1, PTL

\* However long the database is busy, a live token is valid in the table or in the map, and
\* a refresh with it is refused only if it came into the table between the two lookups.
THEOREM TokenAccepted == Spec => TokenIsAccepted
<1>1. ASSUME IInv, NEW c \in Clients, FindDelayed(c), Live(token[c])
      PROVE  pc'[c] = "valid" \/ token[c] \in Active
  <2>1. pc \in [Clients -> {"idle", "missing", "valid", "revoked"}]
    BY <1>1 DEF IInv, TypeOK
  <2>2. CASE token[c] \in delayedStores
    BY <1>1, <2>1, <2>2 DEF FindDelayed
  <2>3. CASE token[c] \notin delayedStores
    BY <1>1, <2>3 DEF IInv, TokenIsKnown, Live, Usable
  <2>. QED  BY <2>2, <2>3
<1>2. IInv /\ IInv' =>
        [/\ TokenIsKnown'
         /\ \A c \in Clients :
              FindDelayed(c) /\ Live(token[c]) => pc'[c] = "valid" \/ token[c] \in Active]_vars
  BY <1>1 DEF IInv
<1>. QED  BY Inductive, <1>2, PTL DEF TokenIsAccepted

\* A replaced token and a token of a user who has signed out are refused from then on,
\* except those that were being stored at that moment.
THEOREM DeadStayDead == Spec => []DeadTokensStayDead
<1>1. IInv => DeadTokensStayDead
  BY DEF IInv, TypeOK, DeadForGood, DeadTokensStayDead, Usable, Active
<1>. QED  BY Inductive, <1>1, PTL

\* When every goroutine has finished and none has failed to enforce the limit, a user has
\* at most Limit sessions, in whatever order rows were stored and old ones revoked.
THEOREM LimitHolds == Spec => []SessionLimit
<1>1. IInv => SessionLimit
  <2>. SUFFICES ASSUME IInv, ~untrimmed, \A t \in Tokens : step[t] \in {"none", "over"}
                PROVE  Cardinality(Active) <= Limit
    BY DEF SessionLimit
  <2>1. CASE rows = <<>>
    <3>1. Active = {}
      BY <2>1 DEF Active, Stored
    <3>. QED  BY <3>1, FS_EmptySet, LimitAssumption
  <2>2. CASE rows # <<>>
    <3>1. Newest \in Stored /\ Stored \subseteq 1 .. issued /\ issued \in 0 .. MaxTokens
      BY <2>2, EmptySeq, LenProperties, StoredAreIssued DEF IInv, TypeOK, Newest, Stored
    <3>. QED  BY <2>2, <3>1, BoundsAssumption DEF IInv, NewestTrims
  <2>. QED  BY <2>1, <2>2
<1>. QED  BY Inductive, <1>1, PTL
=============================================================================
