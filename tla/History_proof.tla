---------------------------- MODULE History_proof ----------------------------
(***************************************************************************)
(* Proofs about paging through a history: for any number of messages, any  *)
(* time stamps, equal ones too, and any limits.                            *)
(***************************************************************************)
EXTENDS History, Integers, FiniteSetTheorems, TLAPS

\* All the messages the client was given.
Given == got \cup page

\* A message is visible after its insert began, and what the client knows, was
\* given or uses as a cursor has begun, so that its time stamp stays.
BegunInv ==
    /\ \A m \in Msg : commits[m] > 0 => created[m] > 0
    /\ known \subseteq Visible
    /\ \A m \in Given \cup cursors : created[m] > 0
    /\ cursor # None => cursor \in cursors

\* What was given is no older than the cursor; there is none to begin with.
GivenInv ==
    /\ pc = "idle" => cursor = None
    /\ pc # "done" /\ cursor = None => Given = {}
    /\ pc = "paging" /\ cursor # None => \A m \in Given : created[m] >= created[cursor]

\* What the client knows and was not given lies behind the cursor or has the
\* time stamp of one.
Tied(m) == \E c \in cursors : created[m] = created[c]

AheadInv ==
    pc = "paging" => \A m \in known : m \in Given \/ Tied(m) \/ OlderThan(m, cursor)

IInv == TypeOK /\ BegunInv /\ GivenInv /\ AheadInv /\ CompleteUnlessTied /\ PagesDescend

-----------------------------------------------------------------------------
(* The order of messages *)

Stamps == created \in [Msg -> Nat]

\* There are finitely many messages, and none of them is None.
LEMMA MsgFinite == IsFiniteSet(Msg) /\ Cardinality(Msg) = MaxMsg /\ Msg \subseteq Nat \ {0}
  BY HistoryAssumption, FS_Interval DEF Msg

\* Newer is a strict order in which any two messages are comparable.
LEMMA NewerOrders ==
    ASSUME Stamps, NEW k \in Msg, NEW m \in Msg
    PROVE  /\ ~Newer(m, m)
           /\ k # m => Newer(k, m) \/ Newer(m, k)
           /\ Newer(k, m) => ~Newer(m, k) /\ created[k] >= created[m]
           /\ \A j \in Msg : Newer(j, k) /\ Newer(k, m) => Newer(j, m)
  BY MsgFinite DEF Stamps, Newer

\* How many of the messages R are newer than m: its place in the answer.
Before(m, R) == {k \in R : Newer(k, m)}
Rank(m, R) == Cardinality(Before(m, R))

\* Places are below the number of rows, and a newer message has an earlier one.
LEMMA RankOf ==
    ASSUME Stamps, NEW R \in SUBSET Msg, NEW m \in R
    PROVE  /\ IsFiniteSet(R) /\ IsFiniteSet(Before(m, R))
           /\ Cardinality(R) \in Nat /\ Rank(m, R) \in 0..(Cardinality(R) - 1)
           /\ \A k \in R : Newer(k, m) => Rank(k, R) < Rank(m, R)
  <1>1. IsFiniteSet(R) /\ Cardinality(R) \in Nat
    BY MsgFinite, FS_Subset, FS_CardinalityType
  <1>2. \A k \in R : IsFiniteSet(Before(k, R)) /\ Rank(k, R) \in Nat
    BY <1>1, FS_Subset, FS_CardinalityType DEF Before, Rank
  <1>3. Before(m, R) \subseteq R \ {m}
    BY NewerOrders DEF Before
  <1>4. Rank(m, R) <= Cardinality(R) - 1
    <2>1. IsFiniteSet(R \ {m}) /\ Cardinality(R \ {m}) = Cardinality(R) - 1
      BY <1>1, FS_RemoveElement
    <2>2. Cardinality(Before(m, R)) <= Cardinality(R \ {m})
      BY <1>3, <2>1, FS_Subset
    <2> QED
      BY <2>1, <2>2 DEF Rank
  <1>5. ASSUME NEW k \in R, Newer(k, m) PROVE Rank(k, R) < Rank(m, R)
    <2>1. Before(k, R) \cup {k} \subseteq Before(m, R)
      BY <1>5, NewerOrders DEF Before
    <2>2. k \notin Before(k, R)
      BY NewerOrders DEF Before
    <2>3. Cardinality(Before(k, R) \cup {k}) = Rank(k, R) + 1
      BY <1>2, <2>2, FS_AddElement DEF Rank
    <2>4. Cardinality(Before(k, R) \cup {k}) <= Rank(m, R)
      BY <1>2, <2>1, FS_Subset DEF Rank
    <2> QED
      BY <1>2, <2>3, <2>4
  <1> QED
    BY <1>1, <1>2, <1>4, <1>5

\* The newest n of R: the LIMIT of the query.
FirstOf(R, n) == {m \in R : Rank(m, R) < n}

\* What the LIMIT leaves out is older than what it lets through.
LEMMA FirstAreNewer ==
    ASSUME Stamps, NEW R \in SUBSET Msg, NEW n \in Nat, NEW k \in FirstOf(R, n), NEW m \in R \ FirstOf(R, n)
    PROVE  Newer(k, m)
  <1>1. k \in R /\ Rank(k, R) < n /\ ~(Rank(m, R) < n)
    BY DEF FirstOf
  <1>2. Rank(k, R) \in Int /\ Rank(m, R) \in Int /\ (Newer(m, k) => Rank(m, R) < Rank(k, R))
    BY <1>1, RankOf
  <1> QED
    BY <1>1, <1>2, NewerOrders

\* Every place of the order is somebody's.
LEMMA RankIsOnto ==
    ASSUME Stamps, NEW R \in SUBSET Msg, NEW i \in 0..(Cardinality(R) - 1)
    PROVE  \E m \in R : Rank(m, R) = i
  <1> DEFINE T == 0..(Cardinality(R) - 1)
             f == [m \in R |-> Rank(m, R)]
  <1>1. IsFiniteSet(R) /\ Cardinality(R) \in Nat
    BY MsgFinite, FS_Subset, FS_CardinalityType
  <1>2. IsFiniteSet(T) /\ Cardinality(T) = Cardinality(R)
    BY <1>1, FS_Interval
  <1>3. f \in [R -> T]
    BY RankOf
  <1>4. \A k, m \in R : f[k] = f[m] => k = m
    <2> SUFFICES ASSUME NEW k \in R, NEW m \in R, Rank(k, R) = Rank(m, R), k # m PROVE FALSE
      OBVIOUS
    <2>1. Newer(k, m) \/ Newer(m, k)
      BY NewerOrders
    <2> QED
      BY <2>1, RankOf
  <1>5. f \in Injection(R, T)
    BY <1>3, <1>4 DEF Injection, IsInjective
  <1>6. f \in Surjection(R, T)
    BY <1>2, <1>5, FS_Injection
  <1> QED
    BY <1>6 DEF Surjection

\* At most n rows come back, and exactly n if there are more.
LEMMA FirstAreFew ==
    ASSUME Stamps, NEW R \in SUBSET Msg, NEW n \in Nat \ {0}
    PROVE  /\ IsFiniteSet(FirstOf(R, n)) /\ Cardinality(FirstOf(R, n)) \in 0..n
           /\ FirstOf(R, n) # R => Cardinality(FirstOf(R, n)) = n
  <1> DEFINE P == FirstOf(R, n)
             T == 0..(n - 1)
             f == [m \in P |-> Rank(m, R)]
  <1>1. P \subseteq R /\ IsFiniteSet(R) /\ Cardinality(R) \in Nat
    BY MsgFinite, FS_Subset, FS_CardinalityType DEF FirstOf
  <1>2. IsFiniteSet(P) /\ Cardinality(P) \in Nat
    BY <1>1, FS_Subset, FS_CardinalityType
  <1>3. IsFiniteSet(T) /\ Cardinality(T) = n
    BY FS_Interval
  <1>4. \A m \in P : Rank(m, R) \in T
    BY <1>1, RankOf DEF FirstOf
  <1>5. \A k, m \in P : f[k] = f[m] => k = m
    <2> SUFFICES ASSUME NEW k \in P, NEW m \in P, Rank(k, R) = Rank(m, R), k # m PROVE FALSE
      OBVIOUS
    <2>1. Newer(k, m) \/ Newer(m, k)
      BY <1>1, NewerOrders
    <2> QED
      BY <1>1, <2>1, RankOf
  <1>6. f \in Injection(P, T)
    BY <1>4, <1>5 DEF Injection, IsInjective
  <1>7. Cardinality(P) <= n
    BY <1>3, <1>6, FS_Injection
  <1>8. ASSUME P # R PROVE Cardinality(P) = n
    <2>1. PICK m \in R : ~(Rank(m, R) < n)
      BY <1>8 DEF FirstOf
    <2>2. n <= Cardinality(R) - 1
      BY <1>1, <2>1, RankOf
    <2>3. ASSUME NEW i \in T PROVE \E k \in P : f[k] = i
      <3>1. i \in 0..(Cardinality(R) - 1) /\ i < n
        BY <1>1, <2>2, <2>3
      <3>2. PICK k \in R : Rank(k, R) = i
        BY <3>1, RankIsOnto
      <3>3. k \in P
        BY <3>1, <3>2 DEF FirstOf
      <3> QED
        BY <3>2, <3>3
    <2>4. f \in Surjection(P, T)
      BY <1>6, <2>3 DEF Surjection, Injection
    <2> QED
      BY <1>3, <1>6, <2>4, FS_Injection
  <1> QED
    BY <1>2, <1>7, <1>8

\* A full page has an oldest message, the one the next cursor is made of.
LEMMA FullHasOldest ==
    ASSUME Stamps, NEW R \in SUBSET Msg, NEW n \in Nat \ {0}, Cardinality(FirstOf(R, n)) = n
    PROVE  LET P == FirstOf(R, n)
           IN  /\ Oldest(P) \in P
               /\ \A m \in P \ {Oldest(P)} : Newer(m, Oldest(P))
  <1> DEFINE P == FirstOf(R, n)
  <1>1. P \subseteq R /\ IsFiniteSet(R) /\ Cardinality(R) \in Nat
    BY MsgFinite, FS_Subset, FS_CardinalityType DEF FirstOf
  <1>2. n <= Cardinality(R)
    BY <1>1, FS_Subset
  <1>3. n - 1 \in 0..(Cardinality(R) - 1)
    BY <1>1, <1>2
  <1>4. PICK o \in R : Rank(o, R) = n - 1
    BY <1>3, RankIsOnto
  <1>5. o \in P
    BY <1>4 DEF FirstOf
  <1>6. ASSUME NEW m \in P \ {o} PROVE Newer(m, o)
    <2>1. Rank(m, R) < n /\ Rank(m, R) \in Int
      BY <1>1, RankOf DEF FirstOf
    <2>2. Newer(o, m) => Rank(o, R) < Rank(m, R)
      BY <1>1, RankOf
    <2> QED
      BY <1>1, <1>4, <2>1, <2>2, NewerOrders
  <1> HIDE DEF P
  <1> QED
    BY <1>5, <1>6 DEF Oldest, P

-----------------------------------------------------------------------------
(* The pages *)

\* A page within its limit lies behind the cursor; the next cursor is its
\* oldest message, and without one nothing that is visible is left behind.
PageOK(rows, next) ==
    /\ rows \subseteq Visible /\ \A m \in rows : OlderThan(m, cursor)
    /\ IsFiniteSet(rows) /\ Cardinality(rows) <= Effective(limit)
    /\ next = None =>
         \A m \in Visible : OlderThan(m, cursor) => m \in rows
    /\ next # None =>
         /\ next \in rows
         /\ \A m \in rows : created[m] >= created[next]
         /\ \A m \in Visible : OlderThan(m, cursor) => m \in rows \/ created[m] <= created[next]

\* Whatever limit the client asks for, GetHistory uses one in 1..maxHistoryLimit
\* that is not above it.
LEMMA EffectiveOf ==
    ASSUME limit \in Limits
    PROVE  Effective(limit) \in 1..MaxLimit /\ (limit > 0 => Effective(limit) <= limit)
  BY HistoryAssumption DEF Effective

\* GetMessageHistory and the cursor that GetHistory returns are such a page.
LEMMA PageIsOK ==
    ASSUME TypeOK
    PROVE  LET rows == Page(cursor, Effective(limit)) IN PageOK(rows, NextCursor(rows))
  <1> DEFINE R == {m \in Visible : OlderThan(m, cursor)}
             N == Effective(limit)
             rows == FirstOf(R, N)
  <1>1. Stamps /\ R \subseteq Msg /\ R \subseteq Visible
    BY DEF TypeOK, Stamps, Visible, Committed
  <1>2. N \in Nat \ {0} /\ N <= MaxLimit /\ MaxLimit \in Nat
    BY EffectiveOf, HistoryAssumption DEF TypeOK
  <1>3. Page(cursor, N) = rows
    BY DEF Page, FirstOf, Rank, Before
  <1> HIDE DEF N
  <1>4. rows \subseteq R
    BY DEF FirstOf
  <1>5. IsFiniteSet(rows) /\ Cardinality(rows) \in 0..N /\ (rows # R => Cardinality(rows) = N)
    BY <1>1, <1>2, FirstAreFew
  <1>6. \A m \in rows : m \in Visible /\ OlderThan(m, cursor)
    BY <1>4
  <1>7. CASE Cardinality(rows) = N
    <2> DEFINE o == Oldest(rows)
    <2>1. o \in rows /\ \A m \in rows \ {o} : Newer(m, o)
      BY <1>1, <1>2, <1>7, FullHasOldest
    <2>2. NextCursor(rows) = o /\ o # None
      BY <1>1, <1>4, <1>7, <2>1, MsgFinite DEF NextCursor, N, None
    <2> HIDE DEF o
    <2>3. \A m \in rows : created[m] >= created[o]
      <3> TAKE m \in rows
      <3>1. m \in Msg /\ o \in Msg /\ created[m] \in Nat
        BY <1>1, <1>4, <2>1 DEF Stamps
      <3> QED
        BY <1>1, <2>1, <3>1, NewerOrders
    <2>4. ASSUME NEW m \in R \ rows PROVE created[m] <= created[o]
      <3>1. Newer(o, m)
        BY <1>1, <1>2, <2>1, FirstAreNewer
      <3>2. o \in Msg /\ m \in Msg /\ created[m] \in Nat /\ created[o] \in Nat
        BY <1>1, <1>4, <2>1 DEF Stamps
      <3> QED
        BY <1>1, <3>1, <3>2, NewerOrders
    <2> HIDE DEF rows
    <2>5. \A m \in Visible : OlderThan(m, cursor) => m \in rows \/ created[m] <= created[o]
      BY <2>4
    <2> QED
      BY <1>2, <1>3, <1>5, <1>6, <2>1, <2>2, <2>3, <2>5 DEF PageOK, N
  <1>8. CASE Cardinality(rows) # N
    <2>1. NextCursor(rows) = None /\ rows = R
      BY <1>5, <1>8 DEF NextCursor, N
    <2> QED
      BY <1>2, <1>3, <1>5, <1>6, <2>1 DEF PageOK, N
  <1> QED
    BY <1>7, <1>8

-----------------------------------------------------------------------------
(* The invariant *)

\* Nothing is sent and nobody pages yet.
LEMMA InitIInv == Init => IInv
  <1> SUFFICES ASSUME Init PROVE IInv
    OBVIOUS
  <1>1. now \in 1..MaxTime /\ replayed \in 0..MaxMsg
    BY HistoryAssumption DEF Init
  <1>2. created \in [Msg -> 0..now] /\ commits \in [Msg -> 0..MaxMsg]
    BY HistoryAssumption DEF Init
  <1>3. TypeOK
    BY <1>1, <1>2 DEF Init, TypeOK
  <1>4. BegunInv /\ GivenInv
    BY DEF Init, BegunInv, GivenInv, Given
  <1>5. AheadInv /\ CompleteUnlessTied
    BY DEF Init, AheadInv, CompleteUnlessTied
  <1>6. PagesDescend
    BY FS_EmptySet, HistoryAssumption DEF Init, PagesDescend
  <1> QED
    BY <1>3, <1>4, <1>5, <1>6 DEF IInv

\* Senders and the replica take no time stamp back and nothing out of sight.
LEMMA WritesMove ==
    ASSUME TypeOK, BegunInv,
           \/ Tick \/ Replay
           \/ \E m \in Msg : StartInsert(m) \/ CommitInsert(m)
    PROVE  /\ TypeOK' /\ Visible \subseteq Visible'
           /\ \A m \in Msg : created[m] > 0 => created'[m] = created[m]
           /\ \A m \in Msg : commits'[m] > 0 => created'[m] > 0
           /\ UNCHANGED clientVars
  <1>f. IsFiniteSet(Committed) /\ Cardinality(Committed) \in 0..MaxMsg
    <2>1. Committed \in SUBSET Msg
      BY DEF Committed
    <2>2. IsFiniteSet(Committed) /\ Cardinality(Committed) <= MaxMsg
      BY <2>1, MsgFinite, FS_Subset
    <2>3. Cardinality(Committed) \in Nat
      BY <2>2, FS_CardinalityType
    <2> QED
      BY <2>2, <2>3, HistoryAssumption
  <1>1. CASE Tick
    <2>1. UNCHANGED <<created, commits, replayed, clientVars>> /\ now' = now + 1 /\ now < MaxTime
      BY <1>1 DEF Tick
    <2>2. now \in 1..MaxTime /\ created \in [Msg -> 0..now]
      BY DEF TypeOK
    <2>3. now' \in 1..MaxTime /\ \A i \in 0..now : i \in 0..now'
      BY <2>1, <2>2, HistoryAssumption
    <2>4. created' \in [Msg -> 0..now']
      BY <2>1, <2>2, <2>3
    <2>5. TypeOK'
      BY <2>1, <2>3, <2>4 DEF TypeOK, clientVars
    <2>6. Visible' = Visible
      BY <2>1 DEF Visible, Committed
    <2>7. \A m \in Msg : commits'[m] > 0 => created'[m] > 0
      BY <2>1 DEF BegunInv
    <2> QED
      BY <2>1, <2>5, <2>6, <2>7
  <1>2. CASE Replay
    <2>1. replayed' \in 0..MaxMsg /\ replayed <= replayed'
      BY <1>2, <1>f, HistoryAssumption DEF Replay, TypeOK
    <2>2. Visible \subseteq Visible'
      BY <1>2, <2>1, HistoryAssumption DEF Replay, TypeOK, Visible, Committed, writeVars
    <2> QED
      BY <1>2, <2>1, <2>2 DEF Replay, clientVars, writeVars, TypeOK, BegunInv
  <1>3. ASSUME NEW m \in Msg, StartInsert(m) PROVE TypeOK' /\ Visible \subseteq Visible'
           /\ (\A k \in Msg : created[k] > 0 => created'[k] = created[k])
           /\ (\A k \in Msg : commits'[k] > 0 => created'[k] > 0)
           /\ UNCHANGED clientVars
    <2>1. /\ created' \in [Msg -> 0..now]
          /\ \A k \in Msg : created[k] > 0 => created'[k] = created[k]
          /\ created'[m] > 0 /\ \A k \in Msg \ {m} : created'[k] = created[k]
      BY <1>3, HistoryAssumption DEF StartInsert, TypeOK
    <2> QED
      BY <1>3, <2>1 DEF StartInsert, clientVars, TypeOK, BegunInv, Visible, Committed
  <1>4. ASSUME NEW m \in Msg, CommitInsert(m) PROVE TypeOK' /\ Visible \subseteq Visible'
           /\ (\A k \in Msg : created[k] > 0 => created'[k] = created[k])
           /\ (\A k \in Msg : commits'[k] > 0 => created'[k] > 0)
           /\ UNCHANGED clientVars
    <2>1. Cardinality(Committed) + 1 \in 0..MaxMsg
      <3>1. Committed \cup {m} \in SUBSET Msg /\ m \notin Committed
        BY <1>4 DEF CommitInsert, Committed
      <3>2. Cardinality(Committed \cup {m}) = Cardinality(Committed) + 1
        BY <1>f, <3>1, FS_AddElement
      <3>3. Cardinality(Committed \cup {m}) <= MaxMsg
        BY <3>1, MsgFinite, FS_Subset
      <3> QED
        BY <1>f, <3>2, <3>3, HistoryAssumption
    <2>2. commits' \in [Msg -> 0..MaxMsg] /\ \A k \in Msg : commits[k] > 0 => commits'[k] = commits[k]
      BY <1>4, <2>1 DEF CommitInsert, TypeOK
    <2>3. \A k \in Msg : commits'[k] > 0 => created[k] > 0
      BY <1>4 DEF CommitInsert, TypeOK, BegunInv
    <2> QED
      BY <1>4, <2>2, <2>3 DEF CommitInsert, clientVars, TypeOK, Visible, Committed
  <1> QED
    BY <1>1, <1>2, <1>3, <1>4

\* So the client's part of the invariant does not notice them.
LEMMA WritesKeep ==
    ASSUME IInv,
           \/ Tick \/ Replay
           \/ \E m \in Msg : StartInsert(m) \/ CommitInsert(m)
    PROVE  IInv'
  <1>1. /\ TypeOK' /\ Visible \subseteq Visible'
        /\ \A m \in Msg : created[m] > 0 => created'[m] = created[m]
        /\ \A m \in Msg : commits'[m] > 0 => created'[m] > 0
        /\ UNCHANGED <<pc, limit, cursor, cursors, page, got, known>>
    BY WritesMove DEF IInv, clientVars
  <1>2. \A m \in Given \cup known \cup cursors : m \in Msg /\ created[m] > 0 /\ created'[m] = created[m]
    BY <1>1 DEF IInv, TypeOK, BegunInv, Given, Visible, Committed
  <1>g. Given' = Given
    BY <1>1 DEF Given
  <1>3. BegunInv'
    BY <1>1, <1>2, <1>g DEF IInv, BegunInv
  <1>4. GivenInv'
    BY <1>1, <1>2, <1>g DEF IInv, GivenInv, BegunInv
  <1>5. \A m \in known : (Tied(m)' <=> Tied(m)) /\ (OlderThan(m, cursor)' <=> OlderThan(m, cursor))
    <2> TAKE m \in known
    <2>1. Tied(m)' <=> Tied(m)
      BY <1>1, <1>2 DEF Tied
    <2>2. cursor # None => cursor \in cursors
      BY DEF IInv, BegunInv
    <2> QED
      BY <1>1, <1>2, <2>1, <2>2 DEF OlderThan
  <1>6. AheadInv'
    BY <1>1, <1>5, <1>g DEF IInv, AheadInv
  <1>7. CompleteUnlessTied'
    BY <1>1, <1>5 DEF IInv, CompleteUnlessTied, Tied
  <1>8. PagesDescend'
    BY <1>1, <1>2 DEF IInv, PagesDescend, Newer, Given
  <1> QED
    BY <1>1, <1>3, <1>4, <1>6, <1>7, <1>8 DEF IInv

\* The client that begins knows what the replica shows.
LEMMA BeginKeeps == ASSUME IInv, Begin PROVE IInv'
  <1>1. /\ pc = "idle" /\ pc' = "paging" /\ known' = Visible
        /\ UNCHANGED <<now, created, commits, replayed, limit, cursor, cursors, page, got>>
    BY DEF Begin, writeVars
  <1>2. cursor = None /\ Given = {} /\ Given' = {} /\ Visible' = Visible /\ Visible \subseteq Msg
    BY <1>1 DEF IInv, GivenInv, Given, Visible, Committed
  <1>3. TypeOK'
    BY <1>1, <1>2 DEF IInv, TypeOK
  <1>4. BegunInv'
    BY <1>1, <1>2 DEF IInv, BegunInv
  <1>5. GivenInv' /\ CompleteUnlessTied'
    BY <1>1, <1>2 DEF GivenInv, CompleteUnlessTied
  <1>6. AheadInv'
    BY <1>1, <1>2 DEF AheadInv, OlderThan
  <1>7. PagesDescend'
    BY <1>1 DEF IInv, PagesDescend, Newer
  <1> QED
    BY <1>3, <1>4, <1>5, <1>6, <1>7 DEF IInv

\* An answer keeps the promise: what it leaves out is behind the next cursor,
\* or has its time stamp; without a next cursor it leaves nothing out.
LEMMA GetHistoryKeeps == ASSUME IInv, GetHistory PROVE IInv'
  <1> DEFINE rows == Page(cursor, Effective(limit))
             next == NextCursor(rows)
  <1>1. /\ pc = "paging" /\ page' = rows /\ got' = got \cup page /\ cursor' = next
        /\ cursors' = cursors \cup ({next} \ {None})
        /\ pc' = IF next = None THEN "done" ELSE "paging"
        /\ UNCHANGED <<now, created, commits, replayed, limit, known>>
    BY DEF GetHistory, writeVars
  <1>2. PageOK(rows, next)
    BY PageIsOK DEF IInv
  <1> HIDE DEF rows, next
  <1>g. Given' = Given \cup rows
    BY <1>1 DEF Given
  <1>t. /\ created \in [Msg -> Nat] /\ Visible \subseteq Msg /\ Visible' = Visible
        /\ \A m \in Visible : created[m] > 0
        /\ known \subseteq Visible /\ Given \subseteq Msg /\ cursors \subseteq Msg
        /\ cursor \in cursors \cup {None}
    BY <1>1 DEF IInv, TypeOK, BegunInv, Given, Visible, Committed
  <1>p. rows \subseteq Visible /\ (next # None => next \in rows)
    BY <1>2 DEF PageOK
  <1>3. TypeOK'
    BY <1>1, <1>t, <1>p DEF IInv, TypeOK
  <1>4. BegunInv'
    BY <1>1, <1>t, <1>p, <1>g DEF IInv, BegunInv
  <1>5. GivenInv'
    <2>1. CASE next = None
      BY <1>1, <2>1 DEF GivenInv
    <2>2. CASE next # None
      <3>1. \A m \in rows : created[m] >= created[next]
        BY <1>2, <2>2 DEF PageOK
      <3>2. ASSUME NEW m \in Given PROVE created[m] >= created[next]
        <4>1. cursor # None /\ created[m] >= created[cursor] /\ cursor \in Msg
          BY <1>1, <1>t, <3>2 DEF IInv, GivenInv
        <4>2. created[next] < created[cursor] /\ next \in Msg
          BY <1>2, <1>p, <1>t, <2>2, <4>1 DEF PageOK, OlderThan
        <4> QED
          BY <1>t, <3>2, <4>1, <4>2
      <3> QED
        BY <1>1, <1>g, <2>2, <3>1, <3>2 DEF GivenInv
    <2> QED
      BY <2>1, <2>2
  <1>6. \A m \in known : m \in Given' \/ Tied(m)' \/ OlderThan(m, cursor)'
    <2> SUFFICES ASSUME NEW m \in known, m \notin Given', ~Tied(m)' PROVE OlderThan(m, cursor)'
      OBVIOUS
    <2>1. m \notin rows /\ m \notin Given /\ ~Tied(m) /\ m \in Visible
      BY <1>1, <1>t, <1>g DEF Tied
    <2>2. OlderThan(m, cursor)
      BY <1>1, <2>1 DEF IInv, AheadInv
    <2>3. CASE next = None
      BY <1>1, <2>3 DEF OlderThan
    <2>4. CASE next # None
      <3>1. created[m] <= created[next] /\ next \in Msg /\ m \in Msg
        BY <1>2, <1>p, <1>t, <2>1, <2>2, <2>4 DEF PageOK
      <3>2. created[m] # created[next]
        BY <1>1, <2>4 DEF Tied
      <3> QED
        BY <1>1, <1>t, <3>1, <3>2 DEF OlderThan
    <2> QED
      BY <2>3, <2>4
  <1>7. AheadInv'
    BY <1>1, <1>6 DEF AheadInv
  <1>8. CompleteUnlessTied'
    <2> SUFFICES ASSUME next = None, NEW m \in known PROVE m \in Given' \/ Tied(m)'
      BY <1>1 DEF CompleteUnlessTied, Tied, Given
    <2>1. m \in Given \/ Tied(m) \/ OlderThan(m, cursor)
      BY <1>1 DEF IInv, AheadInv
    <2>2. OlderThan(m, cursor) => m \in rows
      BY <1>2, <1>t DEF PageOK
    <2>3. Tied(m) => Tied(m)'
      BY <1>1 DEF Tied
    <2> QED
      BY <1>g, <2>1, <2>2, <2>3
  <1>9. PagesDescend'
    <2>1. ASSUME NEW m \in rows, NEW n \in Given PROVE Newer(n, m)
      <3>1. cursor # None /\ created[n] >= created[cursor] /\ cursor \in Msg
        BY <1>1, <1>t, <2>1 DEF IInv, GivenInv
      <3>2. created[m] < created[cursor]
        BY <1>2, <3>1 DEF PageOK, OlderThan
      <3> QED
        BY <1>t, <1>p, <3>1, <3>2 DEF Newer
    <2>2. Cardinality(rows) <= MaxLimit /\ (limit > 0 => Cardinality(rows) <= limit)
      <3>1. Cardinality(rows) \in Nat /\ Cardinality(rows) <= Effective(limit)
        BY <1>2, FS_CardinalityType DEF PageOK
      <3>2. limit \in Nat /\ Effective(limit) \in 1..MaxLimit /\ (limit > 0 => Effective(limit) <= limit)
        BY EffectiveOf, HistoryAssumption DEF IInv, TypeOK
      <3> QED
        BY <3>1, <3>2, HistoryAssumption
    <2> QED
      BY <1>1, <2>1, <2>2 DEF PagesDescend, Newer, Given
  <1> QED
    BY <1>3, <1>4, <1>5, <1>7, <1>8, <1>9 DEF IInv

\* The inductive invariant holds whatever senders, the replica and the client
\* do.
THEOREM Inductive == Spec => []IInv
  <1>1. Init => IInv
    BY InitIInv
  <1>2. IInv /\ [Next]_vars => IInv'
    <2> SUFFICES ASSUME IInv, [Next]_vars PROVE IInv'
      OBVIOUS
    <2>1. CASE Tick \/ Replay \/ \E m \in Msg : StartInsert(m) \/ CommitInsert(m)
      BY <2>1, WritesKeep
    <2>2. CASE Begin
      BY <2>2, BeginKeeps
    <2>3. CASE GetHistory
      BY <2>3, GetHistoryKeeps
    <2>4. CASE UNCHANGED vars
      BY <2>4 DEF vars, IInv, TypeOK, BegunInv, GivenInv, AheadInv, Tied, CompleteUnlessTied,
                  PagesDescend, Newer, Given, OlderThan, Visible, Committed
    <2> QED
      BY <2>1, <2>2, <2>3, <2>4 DEF Next
  <1> QED
    BY <1>1, <1>2, PTL DEF Spec

\* GetHistory's pages end with every message that was visible when paging
\* began, or with the time stamp of a cursor for what is missing: for any number
\* of messages, time stamps and limits.
THEOREM PagingComplete == Spec => []Inv
  <1>1. IInv => Inv
    BY DEF IInv, Inv
  <1> QED
    BY <1>1, Inductive, PTL

\* Each page GetHistory answers with lies wholly behind all the pages before,
\* and has no more messages than the client asked for nor than
\* maxHistoryLimit.
THEOREM Descends == Spec => []PagesDescend
  <1>1. IInv => PagesDescend
    BY DEF IInv
  <1> QED
    BY <1>1, Inductive, PTL
=============================================================================
