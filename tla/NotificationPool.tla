-------------------------- MODULE NotificationPool --------------------------
(***************************************************************************)
(* The worker pool of push notifications (internal/notification/worker.go):*)
(* a bounded queue, workers that post a message up to Attempts times with  *)
(* a pause after each failure, a context that may be cancelled, and Stop.  *)
(* The select of a worker picks any branch that is ready.                  *)
(***************************************************************************)
EXTENDS Naturals, Sequences

CONSTANTS
    Sender,    \* worker goroutines
    Message,   \* messages handed to Enqueue, each once
    Capacity,  \* of the queue (1024)
    Attempts   \* to post one message (4)

PoolAssumption == Message # {} /\ Capacity \in Nat /\ Attempts \in Nat \ {0}

VARIABLES
    jobs,      \* the queue
    offered,   \* messages Enqueue was called with ...
    refused,   \* ... and those it returned an error for
    sender,    \* where each worker is
    held,      \* the message it is busy with
    failures,  \* failed attempts for each message
    posted,    \* messages the push service has accepted
    cancelled, \* the context
    stop       \* where Stop is

poolVars == <<jobs, offered, refused, sender, held, failures, posted, cancelled, stop>>

TypeOK ==
    /\ jobs \in Seq(Message) /\ Len(jobs) <= Capacity
    /\ offered \subseteq Message /\ refused \subseteq offered /\ posted \subseteq offered \ refused
    /\ sender \in [Sender -> {"select", "send", "pause", "gone"}]
    /\ held \in [Sender -> Message]
    /\ failures \in [Message -> 0..Attempts]
    /\ cancelled \in BOOLEAN
    /\ stop \in {"not called", "waits", "returned"}

\* New and Start.
PoolInit ==
    /\ jobs = <<>>
    /\ offered = {} /\ refused = {}
    /\ sender = [w \in Sender |-> "select"]
    /\ held = [w \in Sender |-> CHOOSE m \in Message : TRUE]
    /\ failures = [m \in Message |-> 0]
    /\ posted = {}
    /\ cancelled = FALSE
    /\ stop = "not called"

Shutdown == stop # "not called"
-----------------------------------------------------------------------------
Enqueue(m) ==
    /\ m \notin offered
    /\ offered' = offered \cup {m}
    /\ \/ Len(jobs) < Capacity /\ jobs' = Append(jobs, m) /\ UNCHANGED refused
       \/ Len(jobs) = Capacity /\ refused' = refused \cup {m} /\ UNCHANGED jobs
    /\ UNCHANGED <<sender, held, failures, posted, cancelled, stop>>

At(w, place) == sender' = [sender EXCEPT ![w] = place]

Take(w) ==
    /\ sender[w] = "select" /\ jobs # <<>>
    /\ jobs' = Tail(jobs)
    /\ held' = [held EXCEPT ![w] = Head(jobs)]
    /\ At(w, "send")
    /\ UNCHANGED <<offered, refused, failures, posted, cancelled, stop>>

Quit(w) ==
    /\ sender[w] = "select" /\ (cancelled \/ Shutdown)
    /\ At(w, "gone")
    /\ UNCHANGED <<jobs, offered, refused, held, failures, posted, cancelled, stop>>

\* One POST.  It fails by an answer of 300 and more, by its time limit or by
\* the context.
Send(w) ==
    /\ sender[w] = "send"
    /\ \/ posted' = posted \cup {held[w]} /\ At(w, "select") /\ UNCHANGED failures
       \/ /\ failures' = [failures EXCEPT ![held[w]] = @ + 1]
          /\ At(w, "pause")
          /\ UNCHANGED posted
    /\ UNCHANGED <<jobs, offered, refused, held, cancelled, stop>>

\* Mutant: one attempt too few.
AttemptTooFew(m) == failures[m] + 1 < Attempts

\* The loop over the attempts.
AnotherAttempt(m) == failures[m] < Attempts

\* The pause is over; it is made after the last attempt too.
Resume(w) ==
    /\ sender[w] = "pause"
    /\ At(w, IF AnotherAttempt(held[w]) THEN "send" ELSE "select")
    /\ UNCHANGED <<jobs, offered, refused, held, failures, posted, cancelled, stop>>

\* The context ends the pause and the attempts; Stop does not.
GiveUp(w) ==
    /\ sender[w] = "pause" /\ cancelled
    /\ At(w, "select")
    /\ UNCHANGED <<jobs, offered, refused, held, failures, posted, cancelled, stop>>

Cancel ==
    /\ ~cancelled /\ cancelled' = TRUE
    /\ UNCHANGED <<jobs, offered, refused, sender, held, failures, posted, stop>>

Stop ==
    /\ stop = "not called" /\ stop' = "waits"
    /\ UNCHANGED <<jobs, offered, refused, sender, held, failures, posted, cancelled>>

\* wg.Wait.
AllDone == \A w \in Sender : sender[w] = "gone"

StopReturns ==
    /\ stop = "waits" /\ AllDone /\ stop' = "returned"
    /\ UNCHANGED <<jobs, offered, refused, sender, held, failures, posted, cancelled>>

-----------------------------------------------------------------------------
SenderStep(w) == Take(w) \/ Quit(w) \/ Send(w) \/ Resume(w) \/ GiveUp(w)

PoolNext ==
    \/ Cancel \/ Stop \/ StopReturns
    \/ \E m \in Message : Enqueue(m)
    \/ \E w \in Sender : SenderStep(w)

\* Goroutines go on: posts end by the time limit of their client, pauses by
\* their timer.
PoolFairness == WF_poolVars(StopReturns) /\ \A w \in Sender : WF_poolVars(SenderStep(w))
-----------------------------------------------------------------------------
Waiting == {jobs[i] : i \in DOMAIN jobs}
InHand == {held[w] : w \in {v \in Sender : sender[v] \in {"send", "pause"}}}

\* A message Enqueue accepted is not forgotten before all its attempts failed,
\* unless the context is cancelled: it is in the queue, with one worker, or
\* posted.
KeepsJobs ==
    \A m \in offered \ refused :
      \/ m \in Waiting \cup InHand \cup posted
      \/ failures[m] = Attempts \/ cancelled

\* When Stop returns nothing is posted any more.
QuietAfterStop == stop = "returned" => InHand = {}

\* A failing push service delays the others of the queue but stops neither
\* them nor Stop: what is accepted gets its attempts unless the pool is told
\* to end, and then Stop returns.
Serves ==
    []<>(/\ stop # "waits"
         /\ \/ cancelled \/ Shutdown
            \/ \A m \in offered \ refused : m \in posted \/ failures[m] = Attempts)
=============================================================================
