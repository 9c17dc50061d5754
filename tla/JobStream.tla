------------------------------ MODULE JobStream ------------------------------
(***************************************************************************)
(* What the subscribers of one job see: the bounded ring of its progress,  *)
(* the bounded queue of each subscriber, the drop-oldest _offer, the end   *)
(* sentinel and the replay, drain and live parts of JobManager.stream      *)
(* (app/jobs/manager.py, consumed by GET /v1/jobs/{id}/stream).            *)
(*                                                                         *)
(* Events are numbered in the order they are published.  A reader is one   *)
(* call of stream; between two events it is suspended in its consumer's    *)
(* hands, so anything may happen there, but not inside a step.             *)
(***************************************************************************)
EXTENDS Naturals, Sequences, FiniteSets

CONSTANTS
    Readers,      \* calls of stream
    MaxProgress,  \* JOB_MAX_PROGRESS_EVENTS
    QueueSize,    \* JOB_SUBSCRIBER_QUEUE_SIZE
    MaxEvents     \* bound: events published in a behaviour

ASSUME StreamAssumption ==
    /\ MaxProgress \in Nat \ {0}
    /\ QueueSize \in Nat \ {0}
    /\ MaxEvents \in Nat

VARIABLES
    stage,   \* of the job: where its _run stands
    n,       \* events published so far
    ring,    \* Job.progress, a deque with maxlen
    finals,  \* the published events that carry an outcome
    late,    \* history: a task the body left running emitted after the outcome
    pc,      \* of each reader: the part of stream it is in
    todo,    \* of each reader: what is left of its snapshot of the ring
    queue,   \* of each reader: its asyncio.Queue
    got,     \* history: what stream yielded to the reader
    lost,    \* history: what _offer dropped from its queue
    joined   \* history: n when the reader subscribed

jobVars    == <<stage, n, ring, finals, late>>
readerVars == <<pc, todo, queue, got, lost, joined>>
vars       == <<jobVars, readerVars>>

End    == 0   \* _SENTINEL
Events == 1..MaxEvents

Attached == {"replay", "drain", "live"}

TypeOK ==
    /\ stage \in {"pending", "running", "settled", "closed", "evicted"}
    /\ n \in 0..MaxEvents
    /\ ring \in Seq(Events) /\ Len(ring) <= MaxProgress
    /\ finals \subseteq Events
    /\ late \in BOOLEAN
    /\ pc \in [Readers -> {"idle", "done", "gone"} \cup Attached]
    /\ todo \in [Readers -> Seq(Events)]
    /\ queue \in [Readers -> Seq(Events \cup {End})]
    /\ \A r \in Readers : Len(queue[r]) <= QueueSize
    /\ got \in [Readers -> Seq(Events)]
    /\ lost \in [Readers -> SUBSET (Events \cup {End})]
    /\ joined \in [Readers -> 0..MaxEvents]

Init ==
    /\ stage = "pending"
    /\ n = 0
    /\ ring = <<>>
    /\ finals = {}
    /\ late = FALSE
    /\ pc = [r \in Readers |-> "idle"]
    /\ todo = [r \in Readers |-> <<>>]
    /\ queue = [r \in Readers |-> <<>>]
    /\ got = [r \in Readers |-> <<>>]
    /\ lost = [r \in Readers |-> {}]
    /\ joined = [r \in Readers |-> 0]

-----------------------------------------------------------------------------
(* Publishing: _publish up to its first await, _fanout and _offer.         *)

\* job.terminal
Terminal == stage \in {"settled", "closed", "evicted"}

\* s with e at its end, and the oldest entry gone if s held cap of them.
Push(s, e, cap) == Append(IF Len(s) < cap THEN s ELSE Tail(s), e)

Offer(q, e) == Push(q, e, QueueSize)
Dropped(q)  == IF Len(q) < QueueSize THEN {} ELSE {Head(q)}

SubscribedLateBug(r) == pc[r] \in {"drain", "live"} /\ stage # "evicted"

\* _subscribers holds the queues of the readers inside stream.
Subscribed(r) == pc[r] \in Attached /\ stage # "evicted"

FanoutIntoReplayBug(e) ==
    /\ queue' = [r \in Readers |-> IF Subscribed(r) THEN Offer(queue[r], e) ELSE queue[r]]
    /\ lost' = [r \in Readers |->
                  IF Subscribed(r) THEN lost[r] \cup Dropped(queue[r]) ELSE lost[r]]
    /\ todo' = [r \in Readers |->
                  IF pc[r] = "replay" /\ e # End THEN Append(todo[r], e) ELSE todo[r]]
    /\ UNCHANGED <<pc, got, joined>>

Fanout(e) ==
    /\ queue' = [r \in Readers |-> IF Subscribed(r) THEN Offer(queue[r], e) ELSE queue[r]]
    /\ lost' = [r \in Readers |->
                  IF Subscribed(r) THEN lost[r] \cup Dropped(queue[r]) ELSE lost[r]]
    /\ UNCHANGED <<pc, todo, got, joined>>

Publish ==
    /\ n < MaxEvents
    /\ n' = n + 1
    /\ ring' = Push(ring, n + 1, MaxProgress)
    /\ Fanout(n + 1)

\* The task starts: the status event "running".
Begin ==
    /\ stage = "pending"
    /\ stage' = "running"
    /\ Publish
    /\ UNCHANGED <<finals, late>>

\* The body emits, or a task it started and abandoned does.
Emit ==
    /\ stage = "running" \/ Terminal
    /\ Publish
    /\ late' = (late \/ Terminal)
    /\ UNCHANGED <<stage, finals>>

\* The outcome is set and its event published, with no await in between; once
\* more if a shutdown cancels the task while "completed" is being persisted.
Settle ==
    /\ stage = "running" \/ (stage = "settled" /\ Cardinality(finals) = 1)
    /\ stage' = "settled"
    /\ Publish
    /\ finals' = finals \cup {n + 1}
    /\ UNCHANGED late

\* The finally of _run.
EndOfStream ==
    /\ stage = "settled"
    /\ stage' = "closed"
    /\ Fanout(End)
    /\ UNCHANGED <<n, ring, finals, late>>

\* _evict: the readers keep their queues, the job forgets them.
Evict ==
    /\ stage = "closed"
    /\ stage' = "evicted"
    /\ UNCHANGED <<n, ring, finals, late, readerVars>>

-----------------------------------------------------------------------------
(* The generator, one action per resumption.                               *)

\* Subscribing and snapshotting; an evicted job is not found.
Subscribe(r) ==
    /\ pc[r] = "idle"
    /\ stage # "evicted"
    /\ pc' = [pc EXCEPT ![r] = "replay"]
    /\ todo' = [todo EXCEPT ![r] = ring]
    /\ joined' = [joined EXCEPT ![r] = n]
    /\ UNCHANGED <<jobVars, queue, got, lost>>

Replay(r) ==
    /\ pc[r] = "replay"
    /\ todo[r] # <<>>
    /\ got' = [got EXCEPT ![r] = Append(@, Head(todo[r]))]
    /\ todo' = [todo EXCEPT ![r] = Tail(@)]
    /\ UNCHANGED <<jobVars, pc, queue, lost, joined>>

Replayed(r) == pc[r] = "replay" /\ todo[r] = <<>>

\* One look at the queue; dry says where the reader is if it is empty.
Pull(r, mode, dry) ==
    \/ /\ queue[r] = <<>>
       /\ pc' = [pc EXCEPT ![r] = dry]
       /\ UNCHANGED <<queue, got>>
    \/ /\ queue[r] # <<>>
       /\ Head(queue[r]) = End
       /\ pc' = [pc EXCEPT ![r] = "done"]
       /\ queue' = [queue EXCEPT ![r] = Tail(@)]
       /\ UNCHANGED got
    \/ /\ queue[r] # <<>>
       /\ Head(queue[r]) # End
       /\ pc' = [pc EXCEPT ![r] = mode]
       /\ queue' = [queue EXCEPT ![r] = Tail(@)]
       /\ got' = [got EXCEPT ![r] = Append(@, Head(queue[r]))]

DrainSkippedBug(r) ==
    /\ Replayed(r) /\ Terminal
    /\ pc' = [pc EXCEPT ![r] = "done"]
    /\ UNCHANGED <<jobVars, todo, queue, got, lost, joined>>

\* The job was terminal when the replay ended: get_nowait until QueueEmpty.
Drain(r) ==
    /\ pc[r] = "drain" \/ (Replayed(r) /\ Terminal)
    /\ Pull(r, "drain", "done")
    /\ UNCHANGED <<jobVars, todo, lost, joined>>

ListenAlwaysBug(r) ==
    /\ Replayed(r)
    /\ Pull(r, "live", "live")
    /\ UNCHANGED <<jobVars, todo, lost, joined>>

\* It was not: queue.get, which waits on an empty queue ...
Listen(r) ==
    /\ Replayed(r) /\ ~Terminal
    /\ Pull(r, "live", "live")
    /\ UNCHANGED <<jobVars, todo, lost, joined>>

\* ... and again after each event.
Get(r) ==
    /\ pc[r] = "live"
    /\ queue[r] # <<>>
    /\ Pull(r, "live", "live")
    /\ UNCHANGED <<jobVars, todo, lost, joined>>

\* The client goes away: the generator is closed, its finally runs.
Disconnect(r) ==
    /\ pc[r] \in Attached
    /\ pc' = [pc EXCEPT ![r] = "gone"]
    /\ todo' = [todo EXCEPT ![r] = <<>>]
    /\ queue' = [queue EXCEPT ![r] = <<>>]
    /\ UNCHANGED <<jobVars, got, lost, joined>>

-----------------------------------------------------------------------------
JobStep    == Begin \/ Emit \/ Settle \/ EndOfStream \/ Evict
Resume(r)  == Replay(r) \/ Drain(r) \/ Listen(r) \/ Get(r)

Next ==
    \/ JobStep
    \/ \E r \in Readers : Subscribe(r) \/ Resume(r) \/ Disconnect(r)

Spec == Init /\ [][Next]_vars

\* The client reads on, and the publish of the outcome ends (JobLifecycle).
Fairness ==
    /\ \A r \in Readers : WF_vars(Resume(r))
    /\ WF_vars(EndOfStream)

FairSpec == Spec /\ Fairness

-----------------------------------------------------------------------------
(* Properties.                                                             *)

Elements(s)  == {s[i] : i \in DOMAIN s}
\* s and t without the sentinel: rising, and all of s before all of t.
Rising(s)    == \A i, k \in DOMAIN s : i < k /\ s[k] # End => s[i] < s[k]
Before(s, t) == \A i \in DOMAIN s, k \in DOMAIN t : t[k] # End => s[i] < t[k]
\* The oldest event that was in the ring when the reader joined.
Since(r)     == IF joined[r] < MaxProgress THEN 1 ELSE joined[r] - MaxProgress + 1

(***************************************************************************)
(* A reader sees events in the order they were published and none twice,   *)
(* though what it sees comes from two places: what it has got, what is     *)
(* left of the snapshot and what is in the queue follow on one another.    *)
(***************************************************************************)
InOrder ==
    \A r \in Readers :
        /\ Rising(got[r])
        /\ Rising(todo[r])
        /\ Rising(queue[r])
        /\ Before(got[r], todo[r])
        /\ Before(got[r], queue[r])
        /\ Before(todo[r], queue[r])

(***************************************************************************)
(* Every event since the oldest one of the ring at the moment of the       *)
(* subscription is seen, waiting, or was dropped because the reader was    *)
(* behind.  stream: "every event is either in the snapshot or in the queue *)
(* - never both, never neither".                                           *)
(***************************************************************************)
NoneMissing ==
    \A r \in Readers : pc[r] \in Attached /\ stage # "evicted" =>
        (Elements(got[r]) \cup Elements(todo[r]) \cup Elements(queue[r]) \cup lost[r]) \ {End}
            = Since(r)..n

(***************************************************************************)
(* A stream that ends by itself has delivered the outcome of the job,      *)
(* "the only event the client is waiting for", however slow its reader is  *)
(* and wherever in the replay the job ended.  Holds from QueueSize 2 on    *)
(* (in a queue of one entry the sentinel drops the outcome), as long as    *)
(* nothing the body left running emits after the outcome.                  *)
(***************************************************************************)
OutcomeDelivered ==
    ~late => \A r \in Readers : pc[r] = "done" => Elements(got[r]) \cap finals # {}

(***************************************************************************)
(* A reader that waits for live events of a job that has ended still has   *)
(* the end of the stream ahead of it.  _offer: "The end-of-stream sentinel *)
(* is never dropped - a subscriber that missed it would wait forever."     *)
(***************************************************************************)
SentinelNeverDropped ==
    \A r \in Readers :
        pc[r] = "live" /\ stage \in {"closed", "evicted"} => End \in Elements(queue[r])

(***************************************************************************)
(* So it is, even in queues of one entry, unless something the body left   *)
(* running emits after the outcome.                                        *)
(***************************************************************************)
SentinelKept == ~late => SentinelNeverDropped

(***************************************************************************)
(* Once the job has its outcome, every stream that is open ends, if its    *)
(* client keeps reading and nothing emits after the outcome.               *)
(***************************************************************************)
StreamsEnd ==
    \A r \in Readers :
        (Terminal /\ pc[r] \in Attached) ~> (pc[r] \notin Attached \/ late)
=============================================================================
