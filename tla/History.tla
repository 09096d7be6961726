------------------------------ MODULE History ------------------------------
(***************************************************************************)
(* The history of one conversation: chat-service inserts messages on the   *)
(* primary, a replica follows, and a client pages through GetHistory       *)
(* (services/chat-service/cmd/server.go) from the newest message to the    *)
(* oldest, handing each answer's next_cursor to the next call.             *)
(*                                                                         *)
(* created_at is NOW(), taken when an insert starts; inserts overlap, so   *)
(* time stamps may be equal and messages may become visible out of their   *)
(* order.  Message ids are random: a message is a number and its id is     *)
(* ordered like the number, whatever its time stamp.  A call that fails    *)
(* changes nothing and is left out.                                        *)
(***************************************************************************)
EXTENDS Naturals, FiniteSets

CONSTANTS
    MaxMsg,        \* bound: messages
    MaxTime,       \* bound: the primary's clock
    Limits,        \* limits the client may ask for
    DefaultLimit,  \* taken for a limit that is not positive (20)
    MaxLimit       \* maxHistoryLimit (50)

ASSUME HistoryAssumption ==
    /\ MaxMsg \in Nat /\ MaxTime \in Nat \ {0}
    /\ Limits \subseteq Nat
    /\ MaxLimit \in Nat /\ DefaultLimit \in 1..MaxLimit

Msg  == 1..MaxMsg
None == 0

VARIABLES
    now,       \* the primary's clock
    created,   \* created_at of each message; 0 before its insert starts
    commits,   \* committed messages, with their place in the write-ahead log
    replayed,  \* how much of that log the replica has applied
    pc,        \* the paging client
    limit,     \* the limit it asks for
    cursor,    \* the cursor of its next call
    cursors,   \* history: the cursors it has used
    page,      \* the last page it was given
    got,       \* the messages of the pages before
    known      \* history: the messages that were visible when it began

writeVars == <<now, created, commits>>
clientVars == <<pc, limit, cursor, cursors, page, got, known>>
vars == <<now, created, commits, replayed, pc, limit, cursor, cursors, page, got, known>>

TypeOK ==
    /\ now \in 1..MaxTime
    /\ created \in [Msg -> 0..now]
    /\ commits \in [Msg -> 0..MaxMsg]
    /\ replayed \in 0..MaxMsg
    /\ pc \in {"idle", "paging", "done"}
    /\ limit \in Limits
    /\ cursor \in Msg \cup {None}
    /\ cursors \subseteq Msg
    /\ page \subseteq Msg
    /\ got \subseteq Msg
    /\ known \subseteq Msg

Init ==
    /\ now = 1
    /\ created = [m \in Msg |-> 0]
    /\ commits = [m \in Msg |-> 0]
    /\ replayed = 0
    /\ pc = "idle"
    /\ limit \in Limits
    /\ cursor = None
    /\ cursors = {}
    /\ page = {}
    /\ got = {}
    /\ known = {}

-----------------------------------------------------------------------------
Committed == {m \in Msg : commits[m] > 0}
Visible   == {m \in Committed : commits[m] <= replayed}

Tick ==
    /\ now < MaxTime
    /\ now' = now + 1
    /\ UNCHANGED <<created, commits, replayed, clientVars>>

\* InsertMessage starts and takes its time stamp ...
StartInsert(m) ==
    /\ created[m] = 0
    /\ created' = [created EXCEPT ![m] = now]
    /\ UNCHANGED <<now, commits, replayed, clientVars>>

\* ... and commits; SendMessage can report success now.
CommitInsert(m) ==
    /\ created[m] > 0
    /\ commits[m] = 0
    /\ commits' = [commits EXCEPT ![m] = Cardinality(Committed) + 1]
    /\ UNCHANGED <<now, created, replayed, clientVars>>

\* The replica applies the next commit.
Replay ==
    /\ replayed < Cardinality(Committed)
    /\ replayed' = replayed + 1
    /\ UNCHANGED <<writeVars, clientVars>>

-----------------------------------------------------------------------------
\* The limit GetHistory uses.
Effective(n) == IF n = 0 THEN DefaultLimit ELSE IF n > MaxLimit THEN MaxLimit ELSE n

\* ORDER BY created_at DESC, id DESC.
Newer(m, n) ==
    \/ created[m] > created[n]
    \/ created[m] = created[n] /\ m > n

\* Mutant: the comparison with the cursor is not strict.
OlderOrSame(m, c) == c = None \/ created[m] <= created[c]

\* The cursor's filter: a time stamp older than that of the cursor message.
OlderThan(m, c) == c = None \/ created[m] < created[c]

\* GetMessageHistory on the replica: the newest n of the messages the cursor
\* leaves.
Page(c, n) ==
    LET rows == {m \in Visible : OlderThan(m, c)}
    IN  {m \in rows : Cardinality({k \in rows : Newer(k, m)}) < n}

Oldest(S) == CHOOSE m \in S : \A n \in S \ {m} : Newer(n, m)

Newest(S) == CHOOSE m \in S : \A n \in S \ {m} : Newer(m, n)

\* Mutant: only an overfull page has a successor.
NextCursorStrict(rows) ==
    IF Cardinality(rows) > Effective(limit) THEN Oldest(rows) ELSE None

\* Mutant: the first row of the page is the cursor, not the last.
NextCursorFirst(rows) ==
    IF Cardinality(rows) = Effective(limit) THEN Newest(rows) ELSE None

\* A full page may have a successor; its oldest message is the cursor.
NextCursor(rows) ==
    IF Cardinality(rows) = Effective(limit) THEN Oldest(rows) ELSE None

\* The client begins to page.
Begin ==
    /\ pc = "idle"
    /\ pc' = "paging"
    /\ known' = Visible
    /\ UNCHANGED <<writeVars, replayed, limit, cursor, cursors, page, got>>

\* GetHistory answers the next page.
GetHistory ==
    /\ pc = "paging"
    /\ page' = Page(cursor, Effective(limit))
    /\ got' = got \cup page
    /\ cursor' = NextCursor(page')
    /\ cursors' = cursors \cup ({cursor'} \ {None})
    /\ pc' = IF cursor' = None THEN "done" ELSE "paging"
    /\ UNCHANGED <<writeVars, replayed, limit, known>>

-----------------------------------------------------------------------------
Next ==
    \/ Tick
    \/ \E m \in Msg : StartInsert(m) \/ CommitInsert(m)
    \/ Replay
    \/ Begin
    \/ GetHistory

Spec == Init /\ [][Next]_vars

\* A client that began goes on; senders, the clock and the replica owe nothing.
FairSpec == Spec /\ WF_vars(GetHistory)
-----------------------------------------------------------------------------
(* Safety *)

\* Paging to the end gives every message that was visible when it began,
\* unless it has the time stamp of a cursor: the filter compares only time
\* stamps, the order also ids.  Messages that arrive meanwhile do no harm.
CompleteUnlessTied ==
    pc = "done" =>
      \A m \in known : m \in got \cup page \/ \E c \in cursors : created[m] = created[c]

\* States are what they should be, and finished paging is complete.
Inv == TypeOK /\ CompleteUnlessTied

\* Each page lies wholly behind all the pages before, so that no message is
\* given twice, although messages with old time stamps turn up while the
\* client pages.  A page never has more messages than the client asked for,
\* nor than maxHistoryLimit.
PagesDescend ==
    /\ \A m \in page, n \in got : Newer(n, m)
    /\ Cardinality(page) <= MaxLimit
    /\ limit > 0 => Cardinality(page) <= limit

(* Liveness *)

\* A client that follows the cursors comes to an end.
PagingEnds == (pc = "paging") ~> (pc = "done")
=============================================================================
