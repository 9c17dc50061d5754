---------------------------- MODULE CrawlerProofs ----------------------------
(***************************************************************************)
(* Proofs about Crawler, for any URLs, guard, calls, sessions, delays and  *)
(* redirects: its types, that there is one browser at most, that no content*)
(* comes from a URL the guard refuses, and that the slots of a host are the*)
(* delay apart.  None of it depends on who holds a session, so nothing is  *)
(* said of the semaphore.                                                  *)
(***************************************************************************)
EXTENDS Crawler, TLAPS

\* The browser runs when the flag says so; the lock is held by who launches it.
Launching ==
    /\ browsers = IF started THEN 1 ELSE 0
    /\ \A c \in Calls : call[c] = "launching" => launcher = c /\ ~started

\* A task is only started for a URL that passed, and a document request stands
\* at that URL or at one that passed after it.
Vetting ==
    \A t \in Tasks :
        /\ via[t] # "none" => check(t[2])
        /\ at[t] = t[2] \/ check(at[t])
        /\ page[t] \in Success => check(source[t])

Discovered == \A s \in Sites : found[s] \subseteq partition(Urls)

IInv == TypeOK /\ Launching /\ Vetting /\ Discovered

(***************************************************************************)
(* The tasks of a call are tasks, of URLs that passed the guard.           *)
(***************************************************************************)
LEMMA TasksType ==
    ASSUME TypeOK, NEW c \in Calls, NEW t \in TasksOf(c)
    PROVE  t \in Tasks /\ t[1] = c /\ t[2] \in Urls /\ check(t[2])
<1>1. asked[c] \subseteq Urls
  BY CrawlerAssumption DEF TypeOK
<1> QED BY <1>1 DEF TasksOf, partition, Tasks

(***************************************************************************)
(* A host slot moves the clock of its host and the place of its task.      *)
(***************************************************************************)
LEMMA SlotType ==
    ASSUME TypeOK, NEW t \in Tasks, NEW s, TakeSlot(s, t)
    PROVE  /\ due' \in [Tasks -> Nat]
           /\ gate' \in [Hosts -> Nat]
           /\ pc' \in [Tasks -> {"none", "waiting", "session", "ended", "cancelled"}]
<1> DEFINE host == t[2].host
<1>1. t[2] \in Urls /\ host \in Hosts
  BY DEF Tasks, Hosts
<1>2. Delay \in Nat
  BY CrawlerAssumption
<1>3. now \in Nat /\ gate[host] \in Nat
  BY <1>1 DEF TypeOK
<1>4. Later(now, gate[host]) \in Nat
  BY <1>3 DEF Later
<1>5. due' \in [Tasks -> Nat]
  BY <1>3, <1>4 DEF TakeSlot, TypeOK
<1>6. gate' \in [Hosts -> Nat]
  <2> DEFINE g == [gate EXCEPT ![host] = Later(now, @) + Delay]
  <2>1. g \in [Hosts -> Nat]
    <3> DEFINE next == Later(now, gate[host]) + Delay
    <3>1. next \in Nat
      BY <1>2, <1>4
    <3> HIDE DEF next
    <3>2. [gate EXCEPT ![host] = next] \in [Hosts -> Nat]
      BY <3>1 DEF TypeOK
    <3> QED BY <3>2 DEF next
  <2>2. gate' = gate \/ gate' = Swept(g)
    BY DEF TakeSlot
  <2> HIDE DEF g
  <2>3. Swept(g) \in [Hosts -> Nat]
    <3>1. [h \in Hosts |-> IF g[h] > now THEN g[h] ELSE 0] \in [Hosts -> Nat]
      BY <2>1
    <3> QED BY <2>1, <3>1 DEF Swept
  <2> QED BY <2>1, <2>2, <2>3 DEF TypeOK
<1>7. pc' \in [Tasks -> {"none", "waiting", "session", "ended", "cancelled"}]
  BY DEF TakeSlot, TypeOK
<1> QED BY <1>5, <1>6, <1>7

(***************************************************************************)
(* The ways a document request can be answered.                            *)
(***************************************************************************)
LEMMA AnswersType ==
    ASSUME NEW u \in Urls, NEW kind \in Answers[u]
    PROVE  kind \in {"text", "empty", "failed", "not a document"}
<1>1. PICK r \in Responses : kind = Fetched(r, u)
  BY DEF Answers
<1>2. document_to_markdown(r) \in {"text", "empty", "failed"}
  BY DEF document_to_markdown, Responses
<1> QED BY <1>1, <1>2 DEF Fetched

(***************************************************************************)
(* A request starts with no redirect, a site crawl with no page.           *)
(***************************************************************************)
LEMMA StartsAtNone == 0 \in 0..MaxRedirects /\ 0 \in 0..MaxPages
<1>1. MaxRedirects \in Nat /\ MaxPages \in Nat
  BY CrawlerAssumption
<1> QED BY <1>1

(***************************************************************************)
(* The end of a document request keeps the invariant: what it read came    *)
(* from where the request stood, which had passed.                         *)
(***************************************************************************)
LEMMA DocumentKeeps ==
    ASSUME IInv, NEW t \in Tasks, ReadsDocument(t),
           NEW kind \in {"text", "empty", "failed", "not a document", "blocked"},
           via[t] = "retry" \/ kind # "not a document" \/ via[t] = "document",
           DocumentEnds(t, kind), http' \in BOOLEAN,
           UNCHANGED <<now, call, asked, markdown, started, launcher, browsers, closed,
                       count, found>>
    PROVE  IInv'
<1> USE DEF IInv
<1>0. t[2] \in Urls /\ via[t] \in {"document", "retry"} /\ check(at[t])
  BY DEF Tasks, ReadsDocument, Runs, Vetting
<1>1. at' = [at EXCEPT ![t] = t[2]] /\ hops' = [hops EXCEPT ![t] = 0]
  BY DEF DocumentEnds
<1>2. at' \in [Tasks -> Urls] /\ hops' \in [Tasks -> 0..MaxRedirects]
  <2>2. at' \in [Tasks -> Urls]
    BY <1>0, <1>1 DEF TypeOK
  <2>4. hops' \in [Tasks -> 0..MaxRedirects]
    BY <1>1, StartsAtNone DEF TypeOK
  <2> QED BY <2>2, <2>4
<1>3. CASE kind = "not a document" /\ via[t] = "document"
  <2>1. /\ via' = [via EXCEPT ![t] = "browser"]
        /\ TakeSlot(Release(sessions, MaxSessions, {t}), t)
        /\ UNCHANGED <<page, source>>
    BY <1>3 DEF DocumentEnds
  <2>2. TypeOK'
    BY <1>2, <2>1, SlotType DEF TypeOK
  <2>3. Vetting'
    BY <1>0, <1>1, <2>1 DEF Vetting, TypeOK
  <2> QED BY <2>2, <2>3 DEF Launching, Discovered
<1>4. CASE ~(kind = "not a document" /\ via[t] = "document")
  <2> DEFINE new == Kept(t, Worded(t[1], kind))
  <2>1. /\ page' = [page EXCEPT ![t] = new]
        /\ source' = [source EXCEPT ![t] = IF kind \in Success THEN at[t] ELSE @]
        /\ pc' = [pc EXCEPT ![t] = "ended"]
        /\ UNCHANGED <<via, due, gate>>
    BY <1>4 DEF DocumentEnds, EndPage
  <2>2. new \in {"none", "failed", "blocked"} \cup Success
    BY <1>0, <1>4 DEF Kept, Worded, Success, TypeOK
  <2>3. kind \notin Success /\ new \in Success => new = page[t]
    BY DEF Kept, Worded, Success
  <2> HIDE DEF new
  <2>4. TypeOK'
    BY <1>2, <2>1, <2>2 DEF TypeOK
  <2>5. Vetting'
    BY <1>0, <1>1, <2>1, <2>3 DEF Vetting, TypeOK
  <2> QED BY <2>1, <2>4, <2>5 DEF Launching, Discovered
<1> QED BY <1>3, <1>4

(***************************************************************************)
(* The steps of a call other than its tasks' keep the invariant.           *)
(***************************************************************************)
LEMMA CallKeeps ==
    ASSUME IInv, NEW c \in Calls, CallStep(c) \/ Begin(c) \/ Cancel(c)
    PROVE  IInv'
<1> USE DEF IInv
<1>1. CASE Begin(c)
  BY <1>1 DEF Begin, TypeOK, Launching, Vetting, Discovered, service, Unfinished, CallOver
<1>2. CASE Ready(c)
  BY <1>2 DEF Ready, TypeOK, Launching, Vetting, Discovered, service, Unfinished, CallOver
<1>3. CASE Launch(c)
  <2>1. TypeOK'
    BY <1>3 DEF Launch, TypeOK, Unfinished
  <2>2. \A d \in Calls : call[d] # "launching"
    BY <1>3, CrawlerAssumption DEF Launch, Launching
  <2>3. Launching'
    BY <1>3, <2>2 DEF Launch, Launching, TypeOK, Unfinished
  <2> QED BY <1>3, <2>1, <2>3 DEF Launch, Vetting, Discovered
<1>4. CASE Launched(c)
  <2>1. launcher = c /\ ~started /\ browsers = 0
    BY <1>4 DEF Launched, Launching
  <2>2. \A d \in Calls : d # c => call[d] # "launching"
    BY <2>1 DEF Launching
  <2>3. TypeOK'
    <3>1. started' \in BOOLEAN /\ launcher' \in Calls \cup {None}
      BY <1>4 DEF Launched, TypeOK
    <3>3. browsers' \in Nat
      BY <1>4, <2>1 DEF Launched
    <3>2. call' \in [Calls -> {"idle"} \cup Unfinished \cup CallOver]
      BY <1>4 DEF Launched, TypeOK, Unfinished, CallOver
    <3> QED BY <1>4, <3>1, <3>2, <3>3 DEF Launched, TypeOK
  <2>4. Launching'
    BY <1>4, <2>1, <2>2 DEF Launched, Launching, TypeOK, Unfinished
  <2> QED BY <1>4, <2>3, <2>4 DEF Launched, Vetting, Discovered
<1>5. CASE Gathered(c)
  BY <1>5 DEF Gathered, TypeOK, Launching, Vetting, Discovered, service, Unfinished, CallOver
<1>6. CASE Cancel(c)
  <2>1. TypeOK'
    BY <1>6 DEF Cancel, TypeOK, Unfinished, CallOver
  <2>2. Launching'
    BY <1>6 DEF Cancel, Launching, TypeOK, Unfinished
  <2> QED BY <1>6, <2>1, <2>2 DEF Cancel, Vetting, Discovered
<1> QED BY <1>1, <1>2, <1>3, <1>4, <1>5, <1>6 DEF CallStep

(***************************************************************************)
(* The steps of a task keep it.                                            *)
(***************************************************************************)
LEMMA TaskKeeps ==
    ASSUME IInv, NEW c \in Calls, NEW t \in TasksOf(c), TaskStep(t)
    PROVE  IInv'
<1> USE DEF IInv
<1>0. t \in Tasks /\ t[1] = c /\ t[2] \in Urls /\ check(t[2])
  BY TasksType
<1>1. CASE StartPage(t)
  <2>1. TypeOK'
    BY <1>0, <1>1, SlotType DEF StartPage, TypeOK, service
  <2>2. Vetting'
    BY <1>0, <1>1 DEF StartPage, Vetting, TypeOK, service
  <2> QED BY <1>1, <2>1, <2>2 DEF StartPage, Launching, Discovered, service
<1>2. CASE Wake(t)
  <2>1. TypeOK'
    BY <1>2 DEF Wake, TypeOK, service
  <2> QED BY <1>2, <2>1 DEF Wake, Launching, Vetting, Discovered, service
<1>3. CASE Browsed(t)
  <2>1. PICK landed \in Urls, kind \in _to_page(t[1]) :
          /\ page' = [page EXCEPT ![t] = Landing(t[2], landed, TRUE, kind)]
          /\ source' = [source EXCEPT ![t] = IF page'[t] \in Success THEN landed ELSE @]
    BY <1>3 DEF Browsed
  <2>2. /\ Landing(t[2], landed, TRUE, kind) \in {"none", "failed", "blocked"} \cup Success
        /\ Landing(t[2], landed, TRUE, kind) \in Success => check(landed)
    BY <1>0 DEF Landing, _to_page, Worded, Success
  <2>3. /\ \/ /\ via' = [via EXCEPT ![t] = "retry"]
              /\ TakeSlot(Release(sessions, MaxSessions, {t}), t)
           \/ /\ pc' = [pc EXCEPT ![t] = "ended"] /\ UNCHANGED <<via, due, gate>>
        /\ UNCHANGED <<now, call, asked, markdown, service, at, hops, count, found>>
    BY <1>3 DEF Browsed, EndPage
  <2>4. /\ due' \in [Tasks -> Nat] /\ gate' \in [Hosts -> Nat]
        /\ pc' \in [Tasks -> {"none", "waiting", "session", "ended", "cancelled"}]
    BY <1>0, <2>3, SlotType DEF TypeOK
  <2>5. TypeOK'
    BY <1>0, <2>1, <2>2, <2>3, <2>4 DEF TypeOK, service
  <2>6. Vetting'
    BY <1>0, <2>1, <2>2, <2>3 DEF Vetting, TypeOK
  <2> QED BY <2>3, <2>5, <2>6 DEF Launching, Discovered, service
<1>4. CASE Answered(t)
  <2>1. ReadsDocument(t) /\ at[t] \in Urls
    BY <1>0, <1>4 DEF Answered, TypeOK
  <2>2. PICK kind \in Answers[at[t]] : DocumentEnds(t, kind)
    BY <1>4 DEF Answered
  <2>3. kind \in {"text", "empty", "failed", "not a document"}
    BY <2>1, AnswersType
  <2> QED BY <1>0, <1>4, <2>1, <2>2, <2>3, DocumentKeeps
          DEF Answered, ReadsDocument, Runs
<1>5. CASE RequestFails(t)
  BY <1>0, <1>5, DocumentKeeps DEF RequestFails
<1>6. CASE Redirected(t)
  <2>1. PICK u \in Urls :
         \/ ~check(u) /\ DocumentEnds(t, "blocked")
         \/ check(u) /\ hops[t] = MaxRedirects /\ DocumentEnds(t, "not a document")
         \/ /\ check(u) /\ hops[t] < MaxRedirects
            /\ at' = [at EXCEPT ![t] = u]
            /\ hops' = [hops EXCEPT ![t] = @ + 1]
            /\ UNCHANGED <<pc, via, due, page, source, sessions, gate>>
    BY <1>6 DEF Redirected
  <2>2. ReadsDocument(t) /\ http' \in BOOLEAN
        /\ UNCHANGED <<now, call, asked, markdown, started, launcher, browsers, closed,
                       count, found>>
    BY <1>6 DEF Redirected
  <2>3. CASE DocumentEnds(t, "blocked")
    BY <1>0, <2>2, <2>3, DocumentKeeps
  <2>4. CASE DocumentEnds(t, "not a document")
    BY <1>0, <2>2, <2>4, DocumentKeeps DEF ReadsDocument, Runs
  <2>5. CASE /\ check(u) /\ hops[t] < MaxRedirects
             /\ at' = [at EXCEPT ![t] = u]
             /\ hops' = [hops EXCEPT ![t] = @ + 1]
             /\ UNCHANGED <<pc, via, due, page, source, sessions, gate>>
    <3>1. hops' \in [Tasks -> 0..MaxRedirects]
      <4>1. hops[t] \in 0..MaxRedirects /\ MaxRedirects \in Nat
        BY <1>0, CrawlerAssumption DEF TypeOK
      <4>2. hops[t] + 1 \in 0..MaxRedirects
        BY <2>5, <4>1
      <4> QED BY <2>5, <4>2 DEF TypeOK
    <3>2. TypeOK'
      BY <2>2, <2>5, <3>1 DEF TypeOK
    <3> QED BY <2>2, <2>5, <3>2 DEF TypeOK, Vetting, Launching, Discovered
  <2> QED BY <2>1, <2>3, <2>4, <2>5
<1>7. CASE StartSite(t)
  <2>1. TypeOK'
    BY <1>7 DEF StartSite, TypeOK, service
  <2> QED BY <1>0, <1>7, <2>1
          DEF StartSite, TypeOK, Launching, Vetting, Discovered, service
<1>8. CASE Collect(t)
  <2>1. PICK landed \in Urls, kind \in {"text", "failed"} :
          found' = [found EXCEPT ![t[1]] =
             IF Landing(landed, landed, FALSE, kind) \in Success THEN @ \cup {landed} ELSE @]
    BY <1>8 DEF Collect
  <2>2. Landing(landed, landed, FALSE, kind) \in Success => landed \in partition(Urls)
    BY DEF Landing, Success, partition
  <2>3. count' \in [Sites -> 0..MaxPages]
    <3>1. count' = [count EXCEPT ![t[1]] = @ + 1] /\ count[t[1]] < MaxPages
      BY <1>8 DEF Collect
    <3>2. MaxPages \in Nat
      BY CrawlerAssumption
    <3>3. t[1] \in Sites => count[t[1]] + 1 \in 0..MaxPages
      BY <3>1, <3>2 DEF TypeOK
    <3> QED BY <3>1, <3>3 DEF TypeOK
  <2>4. TypeOK'
    <3>1. found' \in [Sites -> SUBSET Urls]
      BY <2>1 DEF TypeOK
    <3>2. UNCHANGED <<now, call, asked, markdown, service, pc, via, due, at, hops, page,
                      source, sessions, gate>>
      BY <1>8 DEF Collect
    <3> QED BY <2>3, <3>1, <3>2 DEF TypeOK, service
  <2>5. Discovered'
    BY <2>1, <2>2 DEF Discovered, TypeOK
  <2> QED BY <1>8, <2>4, <2>5 DEF Collect, Launching, Vetting, service
<1>9. CASE SiteEnds(t)
  <2>1. TypeOK'
    BY <1>0, <1>9 DEF SiteEnds, EndPage, TypeOK, service, CallOver
  <2>2. Launching'
    BY <1>0, <1>9 DEF SiteEnds, Launching, TypeOK, service, Unfinished
  <2> QED BY <1>9, <2>1, <2>2 DEF SiteEnds, Vetting, Discovered
<1> QED BY <1>1, <1>2, <1>3, <1>4, <1>5, <1>6, <1>7, <1>8, <1>9 DEF TaskStep

(***************************************************************************)
(* The invariant is one.                                                   *)
(***************************************************************************)
THEOREM Invariance == Spec => []IInv
<1>1. Init => IInv
  <2> SUFFICES ASSUME Init PROVE IInv
    OBVIOUS
  <2>1. TypeOK
    <3>2. \A t \in Tasks : t[2] \in Urls
      BY DEF Tasks
    <3> QED BY <3>2, StartsAtNone DEF Init, TypeOK
  <2>2. Launching /\ Vetting /\ Discovered
    BY DEF Init, Launching, Vetting, Discovered, Unfinished, Success
  <2> QED BY <2>1, <2>2 DEF IInv
<1>2. IInv /\ [Next]_vars => IInv'
  <2> SUFFICES ASSUME IInv, [Next]_vars PROVE IInv'
    OBVIOUS
  <2>1. CASE Tick
    BY <2>1 DEF Tick, IInv, TypeOK, Launching, Vetting, Discovered, service
  <2>2. CASE close
    <3>1. browsers' = 0
      BY <2>2 DEF close, IInv, Launching
    <3>2. TypeOK'
      <4>1. started' \in BOOLEAN /\ http' \in BOOLEAN /\ closed' \in BOOLEAN
        BY <2>2 DEF close
      <4> QED BY <2>2, <3>1, <4>1 DEF close, IInv, TypeOK
    <3>3. Launching'
      BY <2>2, <3>1 DEF close, IInv, Launching, Unfinished
    <3> QED BY <2>2, <3>2, <3>3 DEF close, IInv, Vetting, Discovered
  <2>3. CASE UNCHANGED vars
    BY <2>3 DEF vars, IInv, TypeOK, Launching, Vetting, Discovered
  <2> QED BY <2>1, <2>2, <2>3, CallKeeps, TaskKeeps DEF Next, Work
<1> QED BY <1>1, <1>2, PTL DEF Spec

(***************************************************************************)
(* The types of the crawler.                                               *)
(***************************************************************************)
THEOREM TypeCorrect == Spec => []TypeOK
<1>1. IInv => TypeOK
  BY DEF IInv
<1> QED BY <1>1, Invariance, PTL

(***************************************************************************)
(* One browser at most, whatever is launched, fails, is cancelled or       *)
(* closed, and none that the service does not know of.                     *)
(***************************************************************************)
THEOREM OnlyOneBrowser == Spec => []OneBrowser
<1>1. IInv => OneBrowser
  BY DEF IInv, Launching, OneBrowser
<1> QED BY <1>1, Invariance, PTL

(***************************************************************************)
(* No page with content comes from a URL the guard refuses, and no         *)
(* document request goes to one.                                           *)
(***************************************************************************)
THEOREM ContentIsVetted == Spec => []OnlyVettedContent
<1>1. IInv => OnlyVettedContent
  BY DEF IInv, Vetting, Discovered, OnlyVettedContent, ReadsDocument, Runs
<1> QED BY <1>1, Invariance, PTL
-----------------------------------------------------------------------------
(* The gate of the hosts.                                                  *)

\* When the next slot of a host begins.
NextSlot(host) == IF Delay = 0 THEN now ELSE Later(now, gate[host])

\* Every slot that was taken is over before the next one of its host begins.
Spaced == \A t \in Tasks : TookSlot(t) => due[t] + Delay <= NextSlot(t[2].host)

(***************************************************************************)
(* A task that takes a slot gets the next one of its host, moves that on   *)
(* by the delay, and brings no other host's forward, though the gate may   *)
(* forget hosts.                                                           *)
(***************************************************************************)
LEMMA SlotTaken ==
    ASSUME TypeOK, NEW t \in Tasks, NEW s, TakeSlot(s, t), now' = now
    PROVE  /\ due' = [due EXCEPT ![t] = NextSlot(t[2].host)]
           /\ \A h \in Hosts : NextSlot(h)' \in Nat /\ NextSlot(h)' >= NextSlot(h)
           /\ NextSlot(t[2].host)' >= NextSlot(t[2].host) + Delay
<1> DEFINE host == t[2].host
           g == [gate EXCEPT ![host] = Later(now, @) + Delay]
<1>1. /\ host \in Hosts /\ Delay \in Nat /\ now \in Nat
      /\ \A h \in Hosts : gate[h] \in Nat
  BY CrawlerAssumption DEF Tasks, Hosts, TypeOK
<1>2. due' = [due EXCEPT ![t] = NextSlot(host)]
  BY DEF TakeSlot, NextSlot
<1>3. CASE Delay = 0
  BY <1>1, <1>2, <1>3 DEF NextSlot
<1>4. CASE Delay # 0
  <2>1. gate' = Swept(g)
    BY <1>4 DEF TakeSlot
  <2>2. \A h \in Hosts : g[h] = IF h = host THEN Later(now, gate[h]) + Delay ELSE gate[h]
    BY <1>1 DEF TypeOK
  <2> HIDE DEF g
  <2>3. \A h \in Hosts : gate'[h] = g[h] \/ (gate'[h] = 0 /\ ~(g[h] > now))
    BY <2>1 DEF Swept
  <2>4. ASSUME NEW h \in Hosts PROVE g[h] \in Nat /\ gate'[h] \in Nat
    BY <1>1, <2>2, <2>3 DEF Later
  <2>5. ASSUME NEW h \in Hosts PROVE Later(now, gate'[h]) = Later(now, g[h])
    BY <1>1, <2>3, <2>4 DEF Later
  <2>6. ASSUME NEW h \in Hosts
        PROVE  /\ Later(now, g[h]) \in Nat /\ Later(now, g[h]) >= Later(now, gate[h])
               /\ h = host => Later(now, g[h]) >= Later(now, gate[h]) + Delay
    BY <1>1, <2>2 DEF Later
  <2>7. \A h \in Hosts : NextSlot(h)' = Later(now, g[h]) /\ NextSlot(h) = Later(now, gate[h])
    BY <1>4, <2>5 DEF NextSlot
  <2> QED BY <1>1, <1>2, <2>6, <2>7
<1> QED BY <1>3, <1>4

(***************************************************************************)
(* A step takes one slot, for a task that is to fetch with it, or none: a  *)
(* task fetches another way only with a slot of its own.                   *)
(***************************************************************************)
LEMMA SlotsOfAStep ==
    ASSUME IInv, [Next]_vars
    PROVE  \/ /\ now' \in Nat /\ now' >= now /\ UNCHANGED <<due, gate>>
              /\ \A t \in Tasks : TookSlot(t)' => TookSlot(t) /\ via'[t] = via[t]
           \/ /\ now' = now
              /\ \E t \in Tasks, how \in {"document", "browser", "retry"} :
                    via' = [via EXCEPT ![t] = how] /\ \E s : TakeSlot(s, t)
<1> DEFINE None1 == /\ now' \in Nat /\ now' >= now /\ UNCHANGED <<due, gate>>
                    /\ \A t \in Tasks : TookSlot(t)' => TookSlot(t) /\ via'[t] = via[t]
           One1 == /\ now' = now
                   /\ \E t \in Tasks, how \in {"document", "browser", "retry"} :
                        via' = [via EXCEPT ![t] = how] /\ \E s : TakeSlot(s, t)
<1>1. TypeOK /\ now \in Nat
  BY DEF IInv, TypeOK
<1>2. ASSUME UNCHANGED <<now, due, gate, via>> PROVE None1
  BY <1>1, <1>2 DEF TookSlot
<1>3. ASSUME NEW t \in Tasks, UNCHANGED now, NEW kind, DocumentEnds(t, kind)
      PROVE  None1 \/ One1
  <2>1. CASE via' = [via EXCEPT ![t] = "browser"] /\ \E s : TakeSlot(s, t)
    BY <1>3, <2>1
  <2>2. CASE UNCHANGED <<due, gate, via>>
    BY <1>2, <1>3, <2>2
  <2>3. \/ /\ via' = [via EXCEPT ![t] = "browser"]
           /\ TakeSlot(Release(sessions, MaxSessions, {t}), t)
        \/ UNCHANGED <<due, gate>> /\ UNCHANGED via
    BY <1>3 DEF DocumentEnds, EndPage
  <2> QED BY <2>1, <2>2, <2>3
<1>4. ASSUME NEW c \in Calls, NEW t \in TasksOf(c), TaskStep(t) PROVE None1 \/ One1
  <2>0. t \in Tasks
    BY <1>1, TasksType
  <2>1. CASE StartPage(t)
    BY <1>1, <2>0, <2>1 DEF StartPage
  <2>2. CASE Wake(t) \/ Collect(t) \/ SiteEnds(t)
    BY <1>2, <2>2 DEF Wake, Collect, SiteEnds, EndPage
  <2>3. CASE Browsed(t)
    BY <1>2, <2>0, <2>3 DEF Browsed, EndPage
  <2>4. CASE Answered(t) \/ RequestFails(t)
    BY <1>3, <2>0, <2>4 DEF Answered, RequestFails
  <2>5. CASE Redirected(t)
    <3>1. UNCHANGED <<now, call, asked, markdown, started, launcher, browsers, closed,
                      count, found>>
      BY <2>5 DEF Redirected
    <3>2. \/ \E kind : DocumentEnds(t, kind)
          \/ UNCHANGED <<pc, via, due, page, source, sessions, gate>>
      BY <2>5 DEF Redirected
    <3> QED BY <1>2, <1>3, <2>0, <3>1, <3>2
  <2>6. CASE StartSite(t)
    BY <1>1, <2>0, <2>6 DEF StartSite, TookSlot, TypeOK
  <2> QED BY <1>4, <2>1, <2>2, <2>3, <2>4, <2>5, <2>6 DEF TaskStep
<1>5. CASE Tick
  BY <1>1, <1>5 DEF Tick, TookSlot
<1>6. CASE close \/ UNCHANGED vars \/ \E c \in Calls : CallStep(c) \/ Begin(c) \/ Cancel(c)
  BY <1>2, <1>6 DEF close, vars, CallStep, Ready, Launch, Launched, Gathered, Begin, Cancel
<1> QED BY <1>4, <1>5, <1>6 DEF Next, Work

(***************************************************************************)
(* Every step keeps the slots apart, and a slot it takes begins after      *)
(* those of its host that were taken before are over.                      *)
(***************************************************************************)
LEMMA StepSpaces ==
    ASSUME IInv, Spaced, [Next]_vars
    PROVE  /\ Spaced'
           /\ \A t, u \in Tasks :
                 /\ TookSlot(u) /\ TookSlot(t)' /\ (due'[t] # due[t] \/ via'[t] # via[t])
                 /\ t[2].host = u[2].host
                 => due'[t] >= due[u] + Delay
<1>1. /\ now \in Nat /\ Delay \in Nat
      /\ \A t \in Tasks : t[2].host \in Hosts /\ due[t] \in Nat
      /\ \A h \in Hosts : gate[h] \in Nat /\ NextSlot(h) \in Nat
  BY CrawlerAssumption DEF IInv, TypeOK, Tasks, Hosts, NextSlot, Later
<1>2. CASE /\ now' \in Nat /\ now' >= now /\ UNCHANGED <<due, gate>>
           /\ \A t \in Tasks : TookSlot(t)' => TookSlot(t) /\ via'[t] = via[t]
  <2>1. \A h \in Hosts : NextSlot(h)' \in Nat /\ NextSlot(h)' >= NextSlot(h)
    BY <1>1, <1>2 DEF NextSlot, Later
  <2>2. ASSUME NEW t \in Tasks, TookSlot(t)'
        PROVE  due'[t] + Delay <= NextSlot(t[2].host)'
    <3> DEFINE h == t[2].host
    <3>1. due'[t] = due[t] /\ due[t] + Delay <= NextSlot(h) /\ h \in Hosts
      BY <1>1, <1>2, <2>2 DEF Spaced
    <3>2. /\ NextSlot(h)' \in Nat /\ NextSlot(h)' >= NextSlot(h)
          /\ NextSlot(h) \in Nat /\ due[t] \in Nat
      BY <1>1, <2>1, <3>1
    <3>3. \A x, y, z \in Nat : x + Delay <= y /\ z >= y => x + Delay <= z
      BY <1>1
    <3> QED BY <3>1, <3>2, <3>3
  <2>3. Spaced'
    BY <2>2 DEF Spaced
  <2> QED BY <1>2, <2>3
<1>3. CASE /\ now' = now
           /\ \E t \in Tasks, how \in {"document", "browser", "retry"} :
                via' = [via EXCEPT ![t] = how] /\ \E s : TakeSlot(s, t)
  <2>1. PICK k \in Tasks, how \in {"document", "browser", "retry"} :
            via' = [via EXCEPT ![k] = how] /\ \E s : TakeSlot(s, k)
    BY <1>3
  <2> DEFINE host == k[2].host
  <2>2. /\ due' = [due EXCEPT ![k] = NextSlot(host)]
        /\ \A h \in Hosts : NextSlot(h)' \in Nat /\ NextSlot(h)' >= NextSlot(h)
        /\ NextSlot(host)' >= NextSlot(host) + Delay
    BY <1>3, <2>1, SlotTaken DEF IInv
  <2>3. /\ due'[k] = NextSlot(host)
        /\ \A t \in Tasks : t # k => due'[t] = due[t] /\ (TookSlot(t)' <=> TookSlot(t))
                                     /\ via'[t] = via[t]
    BY <2>1, <2>2 DEF IInv, TypeOK, TookSlot
  <2>4. ASSUME NEW t \in Tasks, TookSlot(t)'
        PROVE  due'[t] + Delay <= NextSlot(t[2].host)'
    <3>1. CASE t = k
      BY <1>1, <2>2, <2>3, <3>1
    <3>2. CASE t # k
      <4> DEFINE h == t[2].host
      <4>1. due'[t] = due[t] /\ due[t] + Delay <= NextSlot(h) /\ h \in Hosts
        BY <1>1, <2>3, <2>4, <3>2 DEF Spaced
      <4>2. /\ NextSlot(h)' \in Nat /\ NextSlot(h)' >= NextSlot(h)
            /\ NextSlot(h) \in Nat /\ due[t] \in Nat
        BY <1>1, <2>2, <4>1
      <4>3. \A x, y, z \in Nat : x + Delay <= y /\ z >= y => x + Delay <= z
        BY <1>1
      <4> QED BY <4>1, <4>2, <4>3
    <3> QED BY <3>1, <3>2
  <2>5. Spaced'
    BY <2>4 DEF Spaced
  <2>6. ASSUME NEW t \in Tasks, NEW u \in Tasks,
               TookSlot(u), due'[t] # due[t] \/ via'[t] # via[t], t[2].host = u[2].host
        PROVE  due'[t] >= due[u] + Delay
    <3>1. t = k /\ due'[t] = NextSlot(u[2].host)
      BY <2>3, <2>6
    <3>2. due[u] + Delay <= NextSlot(u[2].host)
      BY <2>6 DEF Spaced
    <3> HIDE DEF NextSlot
    <3> QED BY <1>1, <3>1, <3>2
  <2> QED BY <2>5, <2>6
<1> QED BY <1>2, <1>3, SlotsOfAStep

(***************************************************************************)
(* Two slots of one host begin at least the delay apart, whichever calls   *)
(* took them, waited for them or were cancelled, and whatever the gate     *)
(* forgets, for any delay, high water mark, hosts and calls.               *)
(***************************************************************************)
THEOREM SlotsKeepTheDelay == Spec => SlotsAreSpaced
<1> DEFINE Apart ==
        \A t, u \in Tasks :
            /\ TookSlot(u) /\ TookSlot(t)' /\ (due'[t] # due[t] \/ via'[t] # via[t])
            /\ t[2].host = u[2].host
            => due'[t] >= due[u] + Delay
<1>1. Init => Spaced
  BY DEF Init, Spaced, TookSlot
<1>2. IInv /\ Spaced /\ [Next]_vars => Spaced'
  BY StepSpaces
<1>3. IInv /\ Spaced /\ [Next]_vars => [Apart]_vars
  BY StepSpaces
<1> QED BY <1>1, <1>2, <1>3, Invariance, PTL DEF Spec, SlotsAreSpaced
=============================================================================
