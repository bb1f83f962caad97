-------------------------- MODULE HelpRoom_proofs --------------------------
(***************************************************************************)
(* The notification jobs of a room serve those who wait, for any           *)
(* contestants, judges, stations and instants, and any bounds.             *)
(*                                                                         *)
(* The argument: JobsServe relates the queue, the job table and the jobs   *)
(* that can still act.  A handler either leaves the three as they were, or *)
(* takes the job of a contestant who leaves (who alone holds one) and then *)
(* schedules for the head; ScheduleServes says that scheduling from an     *)
(* empty table, with nothing live, restores JobsServe.                     *)
(* On top of it FirstTime shows that a request is settled at most once.    *)
(***************************************************************************)
EXTENDS HelpRoom, HelpEntries_proofs

Jobs == [Contestants -> JobNumbers \cup {NoJob}]

JobsServe(q, jobs, running) ==
  /\ \A c \in Contestants : jobs[c] # NoJob => IsInQueue(q, c)
  /\ \A c, d \in Contestants : jobs[c] # NoJob /\ jobs[d] # NoJob => c = d
  /\ q.entries # {} => \E c \in Contestants : jobs[c] # NoJob
  /\ \A d \in running :
       d.live => jobs[d.contestant] = d.job /\ Waits(q, d.contestant, d.req)

IInv ==
  /\ TypeOK
  /\ SoundQueue(helpQueue, nreq)
  /\ JobsServe(helpQueue, notifyJobs, dispatches)

LEMMA JobsServeIsBoth ==
  TypeOK => (JobsServe(helpQueue, notifyJobs, dispatches)
             <=> OneJobWhileAnyoneWaits /\ LiveJobsServeWaiting)
BY DEF JobsServe, OneJobWhileAnyoneWaits, LiveJobsServeWaiting

\* scheduleHeadNotification with an empty job table: the head, if there is
\* one, gets the only job.
LEMMA ScheduleServes ==
  ASSUME NEW n \in 0..MaxRequests, NEW q, SoundQueue(q, n),
         NEW jobs \in Jobs, \A c \in Contestants : jobs[c] = NoJob,
         NEW running \in SUBSET Dispatch, \A d \in running : ~d.live,
         njobs \in Nat, ScheduleHead(q, jobs, running)
  PROVE  /\ notifyJobs' \in Jobs
         /\ dispatches' \in SUBSET Dispatch
         /\ njobs' \in Nat
         /\ JobsServe(q, notifyJobs', dispatches')
<1>1. CASE q.entries = {}
  BY <1>1 DEF ScheduleHead, JobsServe
<1>2. CASE q.entries # {}
  <2> DEFINE head == HeadEntry(q)
             new == [job |-> njobs + 1, contestant |-> head.contestant, req |-> head.req,
                     state |-> "armed", live |-> TRUE]
  <2>1. head \in q.entries
    BY <1>2, HeadIsEntry DEF SoundQueue
  <2>2. head.contestant \in Contestants /\ head.req \in Requests
    <3>1. head \in Entry
      BY <2>1 DEF SoundQueue, Queue
    <3>2. head.req \in 1..n
      BY <2>1 DEF SoundQueue
    <3>3. 1..n \subseteq 1..MaxRequests
      BY BoundAssumption
    <3> HIDE DEF head
    <3> QED BY <3>1, <3>2, <3>3 DEF Entry, Requests
  <2>3. /\ njobs' = njobs + 1
        /\ notifyJobs' = [jobs EXCEPT ![head.contestant] = njobs + 1]
        /\ dispatches' = running \cup {new}
    BY <1>2, <2>2 DEF ScheduleHead
  <2>4. IsInQueue(q, head.contestant) /\ Waits(q, head.contestant, head.req)
    BY <2>1 DEF IsInQueue, EntriesOf, Waits
  <2> HIDE DEF head
  <2>5. njobs + 1 \in JobNumbers
    BY DEF JobNumbers, NoJob
  <2>6. new \in Dispatch
    BY <2>2, <2>5 DEF Dispatch
  <2>7. /\ new.live /\ new.job = njobs + 1
        /\ new.contestant = head.contestant /\ new.req = head.req
    OBVIOUS
  <2> HIDE DEF new
  <2>8. notifyJobs' \in Jobs /\ njobs' \in Nat /\ dispatches' \in SUBSET Dispatch
    BY <2>2, <2>3, <2>5, <2>6 DEF Jobs
  <2>9. \A c \in Contestants :
          notifyJobs'[c] = IF c = head.contestant THEN njobs + 1 ELSE NoJob
    BY <2>3 DEF Jobs
  <2>10. njobs + 1 # NoJob
    BY DEF NoJob
  <2>11. JobsServe(q, notifyJobs', dispatches')
    BY <2>2, <2>3, <2>4, <2>7, <2>9, <2>10 DEF JobsServe
  <2> QED BY <2>8, <2>11
<1> QED BY <1>1, <1>2

\* cancel(): the job's armed timers are gone and what runs on is not live.
LEMMA AfterCancelType ==
  ASSUME dispatches \in SUBSET Dispatch, NEW job
  PROVE  /\ AfterCancel(job) \in SUBSET Dispatch
         /\ \A d \in AfterCancel(job) : d.live => d \in dispatches /\ d.job # job
<1>1. \A d \in Dispatch :
        /\ [d EXCEPT !.live = FALSE] \in Dispatch
        /\ ~ [d EXCEPT !.live = FALSE].live
  BY DEF Dispatch
<1> QED BY <1>1 DEF AfterCancel

\* A contestant who leaves gives up its job, and the rest are served.
LEMMA ReleaseServes ==
  ASSUME NEW c \in Contestants, NEW q, NEW n \in 0..MaxRequests,
         notifyJobs \in Jobs, dispatches \in SUBSET Dispatch, njobs \in Nat,
         JobsServe(helpQueue, notifyJobs, dispatches),
         helpQueue \in Queue,
         SoundQueue(q, n), q.entries = {e \in helpQueue.entries : e.contestant # c},
         ReleaseJob(c, q)
  PROVE  /\ notifyJobs' \in Jobs
         /\ dispatches' \in SUBSET Dispatch
         /\ njobs' \in Nat
         /\ JobsServe(q, notifyJobs', dispatches')
<1>1. CASE notifyJobs[c] = NoJob
  <2>1. UNCHANGED <<notifyJobs, dispatches, njobs>>
    BY <1>1 DEF ReleaseJob, jobVars
  <2>2. \A d \in Contestants : d # c /\ IsInQueue(helpQueue, d) => IsInQueue(q, d)
    BY DEF IsInQueue, EntriesOf
  <2>3. \A d \in Contestants : \A r : d # c /\ Waits(helpQueue, d, r) => Waits(q, d, r)
    BY DEF Waits
  <2>4. q.entries # {} => helpQueue.entries # {}
    OBVIOUS
  <2>5. \A d \in dispatches : d.live => d.contestant \in Contestants /\ d.contestant # c
    BY <1>1 DEF JobsServe, Dispatch, JobNumbers
  <2>6. JobsServe(q, notifyJobs, dispatches)
    <3>1. \A d \in Contestants : notifyJobs[d] # NoJob => IsInQueue(q, d)
      BY <1>1, <2>2 DEF JobsServe
    <3>2. \A d \in dispatches : d.live =>
             notifyJobs[d.contestant] = d.job /\ Waits(q, d.contestant, d.req)
      BY <2>3, <2>5 DEF JobsServe
    <3> QED BY <2>4, <3>1, <3>2 DEF JobsServe
  <2> QED BY <2>1, <2>6
<1>2. CASE notifyJobs[c] # NoJob
  <2> DEFINE jobs == [notifyJobs EXCEPT ![c] = NoJob]
             running == AfterCancel(notifyJobs[c])
  <2>1. ScheduleHead(q, jobs, running)
    BY <1>2 DEF ReleaseJob
  <2>2. jobs \in Jobs /\ \A d \in Contestants : jobs[d] = NoJob
    BY <1>2 DEF Jobs, JobsServe
  <2>3. running \in SUBSET Dispatch
    BY AfterCancelType
  <2>4. \A d \in running : ~d.live
    <3> SUFFICES ASSUME NEW d \in running, d.live PROVE FALSE
      OBVIOUS
    <3>1. d \in dispatches /\ d.job # notifyJobs[c]
      BY AfterCancelType
    <3>2. d.contestant \in Contestants /\ d.job # NoJob
      BY <3>1 DEF Dispatch, JobNumbers
    <3>3. notifyJobs[d.contestant] = d.job
      BY <3>1 DEF JobsServe
    <3>4. d.contestant = c
      BY <1>2, <3>2, <3>3 DEF JobsServe
    <3> QED BY <3>1, <3>3, <3>4
  <2> HIDE DEF jobs, running
  <2> QED BY <2>1, <2>2, <2>3, <2>4, ScheduleServes
<1> QED BY <1>1, <1>2
----------------------------------------------------------------------------
\* A fresh room is in order.
LEMMA InitIInv == Init => IInv
<1> SUFFICES ASSUME Init PROVE IInv
  OBVIOUS
<1> USE DEF Init
<1>1. helpQueue \in Queue /\ helpQueue.entries = {}
  BY DEF InitialHelpQueue, Queue
<1>2. TypeOK
  BY <1>1, BoundAssumption DEF TypeOK, Queue
<1>3. SoundQueue(helpQueue, nreq)
  BY <1>1 DEF SoundQueue, OneEach, RequestsDiffer
<1>4. JobsServe(helpQueue, notifyJobs, dispatches)
  BY <1>1 DEF JobsServe
<1> QED BY <1>2, <1>3, <1>4 DEF IInv

\* The parts of the type invariant that the job lemmas need, under the names
\* they use.
LEMMA IInvJobs ==
  IInv => /\ helpQueue \in Queue /\ notifyJobs \in Jobs
          /\ dispatches \in SUBSET Dispatch /\ njobs \in Nat
          /\ nreq \in 0..MaxRequests /\ nreq \in Nat
BY BoundAssumption DEF IInv, TypeOK, Jobs

\* The audit counts stay counts.
LEMMA AuditedType ==
  ASSUME outcome \in [Events \X Requests -> Nat], NEW event \in Events, NEW r \in Requests,
         Audited(event, r)
  PROVE  outcome' \in [Events \X Requests -> Nat]
BY DEF Audited

\* HELP_REQUEST keeps the invariant.
LEMMA RequestHelpIInv ==
  ASSUME IInv, NEW c \in Contestants, RequestHelp(c)
  PROVE  IInv'
<1>1. /\ ~IsInQueue(helpQueue, c) /\ nreq < MaxRequests /\ nreq' = nreq + 1
      /\ UNCHANGED <<debounced, aged, restarts, outcome>>
      /\ lookups' = lookups \cup {[contestant |-> c, req |-> nreq + 1]}
  BY DEF RequestHelp
<1>2. PICK at \in Instants :
        /\ helpQueue' = HelpRequest(helpQueue, c, at, nreq + 1)
        /\ IF helpQueue.entries = {} THEN ScheduleHead(helpQueue', notifyJobs, dispatches)
           ELSE UNCHANGED jobVars
  BY DEF RequestHelp
<1> DEFINE new == [contestant |-> c, station |-> NoStation, at |-> at, req |-> nreq + 1]
<1>3. nreq' \in 0..MaxRequests /\ nreq + 1 \in Requests
  BY <1>1, IInvJobs, BoundAssumption DEF Requests
<1>4. SoundQueue(helpQueue', nreq') /\ helpQueue'.entries = helpQueue.entries \cup {new}
  BY <1>1, <1>2, IInvJobs, InstantAssumption, RequestKeepsSound DEF IInv
<1> HIDE DEF new
<1>5. /\ notifyJobs' \in Jobs /\ dispatches' \in SUBSET Dispatch /\ njobs' \in Nat
      /\ JobsServe(helpQueue', notifyJobs', dispatches')
  <2>1. CASE helpQueue.entries = {}
    <3>1. \A d \in Contestants : \A r : ~IsInQueue(helpQueue, d) /\ ~Waits(helpQueue, d, r)
      BY <2>1 DEF IsInQueue, EntriesOf, Waits
    <3>2. \A d \in Contestants : notifyJobs[d] = NoJob
      BY <3>1 DEF IInv, JobsServe
    <3>3. \A d \in dispatches : ~d.live
      BY <3>1, IInvJobs DEF IInv, JobsServe, Dispatch
    <3> QED BY <1>2, <1>3, <1>4, <2>1, <3>2, <3>3, IInvJobs, ScheduleServes
  <2>2. CASE helpQueue.entries # {}
    <3>1. UNCHANGED <<notifyJobs, dispatches, njobs>>
      BY <1>2, <2>2 DEF jobVars
    <3>2. \A d \in Contestants : IsInQueue(helpQueue, d) => IsInQueue(helpQueue', d)
      BY <1>4 DEF IsInQueue, EntriesOf
    <3>3. \A d \in Contestants : \A r : Waits(helpQueue, d, r) => Waits(helpQueue', d, r)
      BY <1>4 DEF Waits
    <3>4. \A d \in dispatches : d.contestant \in Contestants
      BY IInvJobs DEF Dispatch
    <3>5. JobsServe(helpQueue', notifyJobs, dispatches)
      BY <2>2, <3>2, <3>3, <3>4 DEF IInv, JobsServe
    <3> QED BY <3>1, <3>5, IInvJobs
  <2> QED BY <2>1, <2>2
<1>6. TypeOK'
  <2>1. helpQueue' \in Queue /\ \A e \in helpQueue'.entries : e.req \in 1..nreq'
    BY <1>4 DEF SoundQueue
  <2>2. lookups' \in SUBSET [contestant : Contestants, req : Requests]
    BY <1>1, <1>3 DEF IInv, TypeOK
  <2> QED BY <1>1, <1>3, <1>5, <2>1, <2>2 DEF IInv, TypeOK, Jobs
<1> QED BY <1>4, <1>5, <1>6 DEF IInv

\* The end of a station lookup keeps the invariant.
LEMMA LookupDoneIInv ==
  ASSUME IInv, NEW l \in lookups, LookupDone(l)
  PROVE  IInv'
<1>1. /\ lookups' = lookups \ {l}
      /\ UNCHANGED <<notifyJobs, dispatches, njobs, debounced, aged, nreq, restarts, outcome>>
  BY DEF LookupDone, jobVars
<1>2. PICK s \in Stations \cup {NoStation} :
        helpQueue' = StationFound(helpQueue, l.contestant, s)
  BY DEF LookupDone
<1>3. l.contestant \in Contestants
  BY DEF IInv, TypeOK
<1>4. /\ SoundQueue(helpQueue', nreq)
      /\ \A d \in Contestants, r \in Nat : Waits(helpQueue', d, r) <=> Waits(helpQueue, d, r)
      /\ \A d \in Contestants : IsInQueue(helpQueue', d) <=> IsInQueue(helpQueue, d)
  BY <1>2, <1>3, IInvJobs, StationKeepsSound DEF IInv
<1>5. \A d \in dispatches : d.contestant \in Contestants /\ d.req \in Nat
  BY IInvJobs DEF Dispatch, Requests
<1>6. helpQueue'.entries # {} => helpQueue.entries # {}
  <2> SUFFICES ASSUME NEW e \in helpQueue'.entries PROVE helpQueue.entries # {}
    OBVIOUS
  <2>1. e.contestant \in Contestants /\ IsInQueue(helpQueue', e.contestant)
    BY <1>4 DEF SoundQueue, Queue, Entry, IsInQueue, EntriesOf
  <2> QED BY <1>4, <2>1 DEF IsInQueue, EntriesOf
<1>7. JobsServe(helpQueue', notifyJobs, dispatches)
  BY <1>4, <1>5, <1>6 DEF IInv, JobsServe
<1>8. helpQueue' \in Queue /\ \A e \in helpQueue'.entries : e.req \in 1..nreq
  BY <1>4 DEF SoundQueue
<1>9. TypeOK'
  BY <1>1, <1>8 DEF IInv, TypeOK
<1> QED BY <1>1, <1>4, <1>7, <1>9 DEF IInv

\* A cancel, or an ack, keeps the invariant: what both do to queue and jobs.
LEMMA LeaveIInv ==
  ASSUME IInv, NEW c \in Contestants,
         helpQueue' = HelpCancel(helpQueue, c), ReleaseJob(c, helpQueue'),
         debounced' \in SUBSET Judges,
         UNCHANGED <<lookups, aged, nreq, restarts, outcome>>
  PROVE  IInv'
<1>1. SoundQueue(helpQueue', nreq)
      /\ helpQueue'.entries = {e \in helpQueue.entries : e.contestant # c}
  BY IInvJobs, CancelKeepsSound DEF IInv
<1>2. /\ notifyJobs' \in Jobs /\ dispatches' \in SUBSET Dispatch /\ njobs' \in Nat
      /\ JobsServe(helpQueue', notifyJobs', dispatches')
  <2> DEFINE q == helpQueue'
  <2>1. SoundQueue(q, nreq) /\ q.entries = {e \in helpQueue.entries : e.contestant # c}
        /\ ReleaseJob(c, q)
    BY <1>1
  <2> HIDE DEF q
  <2>2. /\ notifyJobs' \in Jobs /\ dispatches' \in SUBSET Dispatch /\ njobs' \in Nat
        /\ JobsServe(q, notifyJobs', dispatches')
    BY <2>1, IInvJobs, ReleaseServes DEF IInv
  <2> QED BY <2>2 DEF q
<1>3. helpQueue' \in Queue /\ \A e \in helpQueue'.entries : e.req \in 1..nreq
  BY <1>1 DEF SoundQueue
<1>4. TypeOK'
  BY <1>2, <1>3 DEF IInv, TypeOK, Jobs
<1> QED BY <1>1, <1>2, <1>4 DEF IInv

\* The steps of the dispatcher keep the invariant: they replace a job by one
\* that is live only if the old one was, and count what they did.
LEMMA DispatchIInv ==
  ASSUME IInv, NEW d \in dispatches,
         UNCHANGED <<helpQueue, notifyJobs, njobs, debounced, lookups, aged, nreq, restarts>>,
         \/ dispatches' = dispatches \ {d}
         \/ \E s \in {"armed", "querying"} :
              dispatches' = (dispatches \ {d}) \cup {[d EXCEPT !.state = s]},
         outcome' \in [Events \X Requests -> Nat]
  PROVE  IInv'
<1>1. \A x \in Dispatch, s \in {"armed", "querying"} :
        /\ [x EXCEPT !.state = s] \in Dispatch
        /\ [x EXCEPT !.state = s].live = x.live
        /\ [x EXCEPT !.state = s].job = x.job
        /\ [x EXCEPT !.state = s].contestant = x.contestant
        /\ [x EXCEPT !.state = s].req = x.req
  BY DEF Dispatch
<1>2. \A y \in dispatches' : \E x \in dispatches :
        /\ y \in Dispatch /\ y.live = x.live /\ y.job = x.job
        /\ y.contestant = x.contestant /\ y.req = x.req
  <2>1. \A x \in dispatches : x \in Dispatch
    BY IInvJobs
  <2>2. CASE dispatches' = dispatches \ {d}
    BY <2>1, <2>2
  <2>3. ASSUME NEW s \in {"armed", "querying"},
               dispatches' = (dispatches \ {d}) \cup {[d EXCEPT !.state = s]}
        PROVE  \A y \in dispatches' : \E x \in dispatches :
                 /\ y \in Dispatch /\ y.live = x.live /\ y.job = x.job
                 /\ y.contestant = x.contestant /\ y.req = x.req
    <3> DEFINE z == [d EXCEPT !.state = s]
    <3>1. /\ z \in Dispatch /\ z.live = d.live /\ z.job = d.job
          /\ z.contestant = d.contestant /\ z.req = d.req
      BY <1>1, <2>1
    <3>2. dispatches' = (dispatches \ {d}) \cup {z}
      BY <2>3
    <3> HIDE DEF z
    <3> QED BY <2>1, <3>1, <3>2
  <2> QED BY <2>2, <2>3
<1>3. dispatches' \in SUBSET Dispatch
  BY <1>2
<1>4. JobsServe(helpQueue, notifyJobs, dispatches')
  BY <1>2 DEF IInv, JobsServe
<1>5. TypeOK'
  BY <1>3 DEF IInv, TypeOK
<1> QED BY <1>4, <1>5 DEF IInv

\* The dispatch timer keeps the invariant.
LEMMA FireTimerIInv ==
  ASSUME IInv, NEW d \in dispatches, FireTimer(d)
  PROVE  IInv'
<1>1. d.req \in Requests
  BY IInvJobs DEF Dispatch
<1>2. outcome' \in [Events \X Requests -> Nat]
  BY <1>1, AuditedType DEF FireTimer, IInv, TypeOK, Events
<1>3. \/ dispatches' = dispatches \ {d}
      \/ \E s \in {"armed", "querying"} :
           dispatches' = (dispatches \ {d}) \cup {[d EXCEPT !.state = s]}
  BY DEF FireTimer
<1>4. UNCHANGED <<helpQueue, notifyJobs, njobs, debounced, lookups, aged, nreq, restarts>>
  BY DEF FireTimer
<1> QED BY <1>2, <1>3, <1>4, DispatchIInv

\* The answer of the judge lookup keeps the invariant.
LEMMA JudgesFoundIInv ==
  ASSUME IInv, NEW d \in dispatches, JudgesFound(d)
  PROVE  IInv'
<1>1. d.req \in Requests
  BY IInvJobs DEF Dispatch
<1>2. outcome' \in [Events \X Requests -> Nat]
  BY <1>1, AuditedType DEF JudgesFound, IInv, TypeOK, Events
<1>3. \/ dispatches' = dispatches \ {d}
      \/ \E s \in {"armed", "querying"} :
           dispatches' = (dispatches \ {d}) \cup {[d EXCEPT !.state = s]}
  BY DEF JudgesFound
<1>4. UNCHANGED <<helpQueue, notifyJobs, njobs, debounced, lookups, aged, nreq, restarts>>
  BY DEF JudgesFound
<1> QED BY <1>2, <1>3, <1>4, DispatchIInv

\* A restart forgets queue, jobs and lookups together.
LEMMA RestartIInv ==
  ASSUME IInv, Restart
  PROVE  IInv'
<1>1. helpQueue' \in Queue /\ helpQueue'.entries = {}
  BY DEF Restart, InitialHelpQueue, Queue
<1>2. TypeOK'
  BY <1>1, BoundAssumption DEF Restart, IInv, TypeOK
<1>3. SoundQueue(helpQueue', nreq')
  BY <1>1 DEF SoundQueue, OneEach, RequestsDiffer
<1>4. JobsServe(helpQueue', notifyJobs', dispatches')
  BY <1>1 DEF JobsServe, Restart
<1> QED BY <1>2, <1>3, <1>4 DEF IInv

\* Every step keeps the invariant.
LEMMA NextIInv == IInv /\ [Next]_vars => IInv'
<1> SUFFICES ASSUME IInv, [Next]_vars PROVE IInv'
  OBVIOUS
<1>1. ASSUME NEW c \in Contestants, RequestHelp(c) PROVE IInv'
  BY <1>1, RequestHelpIInv
<1>2. ASSUME NEW c \in Contestants, CancelHelp(c) PROVE IInv'
  <2>1. /\ helpQueue' = HelpCancel(helpQueue, c) /\ ReleaseJob(c, helpQueue')
        /\ UNCHANGED <<debounced, lookups, aged, nreq, restarts, outcome>>
    BY <1>2 DEF CancelHelp
  <2>2. debounced' \in SUBSET Judges
    BY <2>1 DEF IInv, TypeOK
  <2> QED BY <2>1, <2>2, LeaveIInv
<1>3. ASSUME NEW l \in lookups, LookupDone(l) PROVE IInv'
  BY <1>3, LookupDoneIInv
<1>4. ASSUME NEW j \in Judges, DebounceEnds(j) PROVE IInv'
  <2>1. TypeOK'
    BY <1>4 DEF DebounceEnds, IInv, TypeOK, jobVars
  <2> QED BY <1>4, <2>1 DEF DebounceEnds, IInv, jobVars
<1>5. ASSUME NEW j \in Judges, NEW c \in Contestants, HandleAck(j, c) PROVE IInv'
  <2>1. /\ helpQueue' = HelpCancel(helpQueue, c) /\ ReleaseJob(c, helpQueue')
        /\ UNCHANGED <<lookups, aged, nreq, restarts, outcome>>
    BY <1>5, AckIsCancel DEF HandleAck
  <2>2. debounced' \in SUBSET Judges
    BY <1>5 DEF HandleAck, IInv, TypeOK
  <2> QED BY <2>1, <2>2, LeaveIInv
<1>6. ASSUME NEW d \in dispatches, FireTimer(d) PROVE IInv'
  BY <1>6, FireTimerIInv
<1>7. ASSUME NEW d \in dispatches, JudgesFound(d) PROVE IInv'
  BY <1>7, JudgesFoundIInv
<1>8. ASSUME NEW r \in Requests, ComeOfAge(r) PROVE IInv'
  <2>1. TypeOK'
    BY <1>8 DEF ComeOfAge, IInv, TypeOK, jobVars
  <2> QED BY <1>8, <2>1 DEF ComeOfAge, IInv, jobVars
<1>9. ASSUME Restart PROVE IInv'
  BY <1>9, RestartIInv
<1>10. ASSUME UNCHANGED vars PROVE IInv'
  <2>1. TypeOK'
    BY <1>10 DEF vars, IInv, TypeOK
  <2> QED BY <1>10, <2>1 DEF vars, IInv
<1> QED BY <1>1, <1>2, <1>3, <1>4, <1>5, <1>6, <1>7, <1>8, <1>9, <1>10 DEF Next

\* The room's variables keep their types.
THEOREM HelpRoomTypes == Spec => []TypeOK
<1>1. IInv => TypeOK
  BY DEF IInv
<1> QED BY <1>1, InitIInv, NextIInv, PTL DEF Spec

\* While anyone waits there is exactly one notification job, whatever
\* contestants, judges, timers and lookups do, in whatever order.
THEOREM OneJobForThoseWhoWait == Spec => []OneJobWhileAnyoneWaits
<1>1. IInv => OneJobWhileAnyoneWaits
  BY JobsServeIsBoth DEF IInv
<1> QED BY <1>1, InitIInv, NextIInv, PTL DEF Spec

\* A timer that can still fire belongs to a request that still waits.
THEOREM NoJobForThoseWhoLeft == Spec => []LiveJobsServeWaiting
<1>1. IInv => LiveJobsServeWaiting
  BY JobsServeIsBoth DEF IInv
<1> QED BY <1>1, InitIInv, NextIInv, PTL DEF Spec
----------------------------------------------------------------------------
(* A request is settled at most once: a request that waits without a job   *)
(* has never had one, so scheduling never repeats a request.               *)

Settled(r, o) == o[<<"SENT", r>>] + o[<<"NOTIFY_ABANDONED", r>>]

Untouched(r, running, o) == Settled(r, o) = 0 /\ \A d \in running : d.req # r

OneDispatchEach(running) == \A d, e \in running : d.req = e.req => d = e

FirstTime(q, n, jobs, running, o) ==
  /\ OneDispatchEach(running)
  /\ \A d \in running : Settled(d.req, o) = 0 /\ d.req \in 1..n
  /\ \A r \in Requests : Settled(r, o) <= 1 /\ (r > n => Settled(r, o) = 0)
  /\ \A c \in Contestants, r \in Requests :
       Waits(q, c, r) /\ jobs[c] = NoJob => Untouched(r, running, o)

FInv == FirstTime(helpQueue, nreq, notifyJobs, dispatches, outcome)

\* Only SENT and NOTIFY_ABANDONED settle a request, and only their own.
LEMMA SettledCounts ==
  ASSUME outcome \in [Events \X Requests -> Nat], NEW event \in Events, NEW r \in Requests,
         Audited(event, r)
  PROVE  /\ \A k \in Requests : Settled(k, outcome) \in Nat
         /\ \A k \in Requests : event = "NOTIFY_DROPPED" \/ k # r
                                => Settled(k, outcome') = Settled(k, outcome)
         /\ event # "NOTIFY_DROPPED" => Settled(r, outcome') = Settled(r, outcome) + 1
<1>1. \A x \in Events \X Requests :
        outcome'[x] = IF x = <<event, r>> THEN outcome[x] + 1 ELSE outcome[x]
  BY DEF Audited
<1>2. \A k \in Requests :
        /\ <<"SENT", k>> \in Events \X Requests
        /\ <<"NOTIFY_ABANDONED", k>> \in Events \X Requests
  BY DEF Events
<1>3. \A k \in Requests : outcome[<<"SENT", k>>] \in Nat /\ outcome[<<"NOTIFY_ABANDONED", k>>] \in Nat
  BY <1>2
<1>4. \A k \in Requests :
        /\ outcome'[<<"SENT", k>>] =
             IF event = "SENT" /\ k = r THEN outcome[<<"SENT", k>>] + 1
             ELSE outcome[<<"SENT", k>>]
        /\ outcome'[<<"NOTIFY_ABANDONED", k>>] =
             IF event = "NOTIFY_ABANDONED" /\ k = r THEN outcome[<<"NOTIFY_ABANDONED", k>>] + 1
             ELSE outcome[<<"NOTIFY_ABANDONED", k>>]
  BY <1>1, <1>2
<1> QED BY <1>3, <1>4 DEF Settled, Events

\* Scheduling for the head gives a first job to a request that had none.
LEMMA ScheduleFirst ==
  ASSUME NEW n \in 0..MaxRequests, NEW q, SoundQueue(q, n),
         NEW jobs \in Jobs, \A c \in Contestants : jobs[c] = NoJob,
         NEW running \in SUBSET Dispatch, njobs \in Nat,
         FirstTime(q, n, jobs, running, outcome), ScheduleHead(q, jobs, running)
  PROVE  FirstTime(q, n, notifyJobs', dispatches', outcome)
<1>1. CASE q.entries = {}
  BY <1>1 DEF ScheduleHead
<1>2. CASE q.entries # {}
  <2> DEFINE head == HeadEntry(q)
             new == [job |-> njobs + 1, contestant |-> head.contestant, req |-> head.req,
                     state |-> "armed", live |-> TRUE]
  <2>1. head \in q.entries
    BY <1>2, HeadIsEntry DEF SoundQueue
  <2>2. head.contestant \in Contestants /\ head.req \in 1..n /\ head.req \in Requests
    <3>1. head \in Entry
      BY <2>1 DEF SoundQueue, Queue
    <3>2. head.req \in 1..n
      BY <2>1 DEF SoundQueue
    <3>3. 1..n \subseteq 1..MaxRequests
      BY BoundAssumption
    <3> HIDE DEF head
    <3> QED BY <3>1, <3>2, <3>3 DEF Entry, Requests
  <2>3. /\ notifyJobs' = [jobs EXCEPT ![head.contestant] = njobs + 1]
        /\ dispatches' = running \cup {new}
    BY <1>2, <2>2 DEF ScheduleHead
  <2>4. Waits(q, head.contestant, head.req)
    BY <2>1 DEF Waits
  <2>5. \A c \in Contestants, r \in Requests :
          Waits(q, c, r) /\ c # head.contestant => r # head.req
    BY <2>1 DEF Waits, SoundQueue, RequestsDiffer
  <2> HIDE DEF head
  <2>6. Untouched(head.req, running, outcome)
    BY <2>2, <2>4 DEF FirstTime
  <2>7. new.req = head.req
    OBVIOUS
  <2> HIDE DEF new
  <2>8. njobs + 1 # NoJob
    BY DEF NoJob
  <2>9. \A c \in Contestants : notifyJobs'[c] = NoJob => c # head.contestant
    BY <2>3, <2>8 DEF Jobs
  <2>10. OneDispatchEach(dispatches')
    BY <2>3, <2>6, <2>7 DEF FirstTime, OneDispatchEach, Untouched
  <2>11. \A d \in dispatches' : Settled(d.req, outcome) = 0 /\ d.req \in 1..n
    BY <2>2, <2>3, <2>6, <2>7 DEF FirstTime, Untouched
  <2>12. ASSUME NEW c \in Contestants, NEW r \in Requests, Waits(q, c, r), notifyJobs'[c] = NoJob
         PROVE  Untouched(r, dispatches', outcome)
    <3>1. Untouched(r, running, outcome)
      BY <2>12 DEF FirstTime
    <3>2. r # head.req
      BY <2>5, <2>9, <2>12
    <3> QED BY <2>3, <2>7, <3>1, <3>2 DEF Untouched
  <2> QED BY <2>10, <2>11, <2>12 DEF FirstTime
<1> QED BY <1>1, <1>2

\* cancel() leaves every request at most one dispatch, and adds none.
LEMMA AfterCancelReqs ==
  ASSUME dispatches \in SUBSET Dispatch, OneDispatchEach(dispatches), NEW job
  PROVE  /\ \A x \in AfterCancel(job) : \E d \in dispatches : x.req = d.req
         /\ OneDispatchEach(AfterCancel(job))
<1> DEFINE dead(d) == [d EXCEPT !.live = FALSE]
           From(x, d) == /\ x.req = d.req
                         /\ (d.job # job /\ x = d) \/ (d.job = job /\ x = dead(d))
<1>1. \A d \in Dispatch : dead(d).req = d.req
  BY DEF Dispatch
<1>2. \A x \in AfterCancel(job) : \E d \in dispatches : From(x, d)
  BY <1>1 DEF AfterCancel
<1> HIDE DEF dead
<1>3. ASSUME NEW x \in AfterCancel(job), NEW y \in AfterCancel(job), x.req = y.req
      PROVE  x = y
  <2>1. PICK d \in dispatches : From(x, d)
    BY <1>2
  <2>2. PICK e \in dispatches : From(y, e)
    BY <1>2
  <2>3. d = e
    BY <1>3, <2>1, <2>2 DEF OneDispatchEach
  <2> QED BY <2>1, <2>2, <2>3
<1> QED BY <1>2, <1>3 DEF OneDispatchEach

\* A contestant who leaves: its dispatch, if any, counts on, and the next head
\* had none.
LEMMA ReleaseFirst ==
  ASSUME NEW c \in Contestants, NEW q, NEW n \in 0..MaxRequests,
         notifyJobs \in Jobs, dispatches \in SUBSET Dispatch, njobs \in Nat,
         JobsServe(helpQueue, notifyJobs, dispatches),
         FirstTime(helpQueue, n, notifyJobs, dispatches, outcome),
         SoundQueue(q, n), q.entries = {e \in helpQueue.entries : e.contestant # c},
         ReleaseJob(c, q)
  PROVE  FirstTime(q, n, notifyJobs', dispatches', outcome)
<1>1. \A d \in Contestants, r \in Requests :
        Waits(q, d, r) => Waits(helpQueue, d, r) /\ d # c
  BY DEF Waits
<1>2. CASE notifyJobs[c] = NoJob
  <2>1. UNCHANGED <<notifyJobs, dispatches>>
    BY <1>2 DEF ReleaseJob, jobVars
  <2> QED BY <1>1, <2>1 DEF FirstTime
<1>3. CASE notifyJobs[c] # NoJob
  <2> DEFINE jobs == [notifyJobs EXCEPT ![c] = NoJob]
             running == AfterCancel(notifyJobs[c])
  <2>1. ScheduleHead(q, jobs, running)
    BY <1>3 DEF ReleaseJob
  <2>2. jobs \in Jobs /\ \A d \in Contestants : jobs[d] = NoJob
    BY <1>3 DEF Jobs, JobsServe
  <2>3. \A d \in Contestants : d # c => notifyJobs[d] = NoJob
    BY <1>3 DEF JobsServe
  <2>4. running \in SUBSET Dispatch
    BY AfterCancelType
  <2>5. /\ \A x \in running : \E d \in dispatches : x.req = d.req
        /\ OneDispatchEach(running)
    BY AfterCancelReqs DEF FirstTime
  <2> HIDE DEF jobs, running
  <2>6. FirstTime(q, n, jobs, running, outcome)
    <3>1. \A x \in running : Settled(x.req, outcome) = 0 /\ x.req \in 1..n
      BY <2>5 DEF FirstTime
    <3>2. ASSUME NEW d \in Contestants, NEW r \in Requests, Waits(q, d, r)
          PROVE  Untouched(r, running, outcome)
      <4>1. Untouched(r, dispatches, outcome)
        BY <1>1, <2>3, <3>2 DEF FirstTime
      <4> QED BY <2>5, <4>1 DEF Untouched
    <3> QED BY <2>5, <3>1, <3>2 DEF FirstTime
  <2> QED BY <2>1, <2>2, <2>4, <2>6, ScheduleFirst
<1> QED BY <1>2, <1>3

LEMMA InitFInv == Init => FInv
<1> SUFFICES ASSUME Init PROVE FInv
  OBVIOUS
<1>1. \A r \in Requests : Settled(r, outcome) = 0
  <2> SUFFICES ASSUME NEW r \in Requests PROVE Settled(r, outcome) = 0
    OBVIOUS
  <2>1. <<"SENT", r>> \in Events \X Requests /\ <<"NOTIFY_ABANDONED", r>> \in Events \X Requests
    BY DEF Events
  <2>2. outcome[<<"SENT", r>>] = 0 /\ outcome[<<"NOTIFY_ABANDONED", r>>] = 0
    BY <2>1 DEF Init
  <2> QED BY <2>2 DEF Settled
<1> QED BY <1>1 DEF Init, FInv, FirstTime, OneDispatchEach, Untouched

\* A new request is untouched: its number is new.
LEMMA RequestHelpFInv ==
  ASSUME IInv, FInv, NEW c \in Contestants, RequestHelp(c)
  PROVE  FInv'
<1>1. /\ ~IsInQueue(helpQueue, c) /\ nreq < MaxRequests /\ nreq' = nreq + 1
      /\ outcome' = outcome
  BY DEF RequestHelp
<1>2. PICK at \in Instants :
        /\ helpQueue' = HelpRequest(helpQueue, c, at, nreq + 1)
        /\ IF helpQueue.entries = {} THEN ScheduleHead(helpQueue', notifyJobs, dispatches)
           ELSE UNCHANGED jobVars
  BY DEF RequestHelp
<1> DEFINE new == [contestant |-> c, station |-> NoStation, at |-> at, req |-> nreq + 1]
           q == helpQueue'
<1>3. nreq + 1 \in 0..MaxRequests /\ nreq + 1 \in Requests /\ nreq \in Nat
  BY <1>1, IInvJobs, BoundAssumption DEF Requests
<1>4. SoundQueue(q, nreq + 1) /\ q.entries = helpQueue.entries \cup {new}
  BY <1>1, <1>2, IInvJobs, InstantAssumption, RequestKeepsSound DEF IInv
<1>5. new.req = nreq + 1
  OBVIOUS
<1> HIDE DEF new, q
<1>6. \A d \in Contestants, r \in Requests :
        Waits(q, d, r) => Waits(helpQueue, d, r) \/ r = nreq + 1
  BY <1>4, <1>5 DEF Waits
<1>7. Untouched(nreq + 1, dispatches, outcome)
  BY <1>3 DEF FInv, FirstTime, Untouched
<1>8. FirstTime(q, nreq + 1, notifyJobs, dispatches, outcome)
  <2>1. \A d \in dispatches : Settled(d.req, outcome) = 0 /\ d.req \in 1..(nreq + 1)
    BY <1>3 DEF FInv, FirstTime
  <2>2. \A r \in Requests : Settled(r, outcome) <= 1 /\ (r > nreq + 1 => Settled(r, outcome) = 0)
    BY <1>3 DEF FInv, FirstTime, Requests
  <2>3. \A d \in Contestants, r \in Requests :
          Waits(q, d, r) /\ notifyJobs[d] = NoJob => Untouched(r, dispatches, outcome)
    BY <1>6, <1>7 DEF FInv, FirstTime
  <2> QED BY <2>1, <2>2, <2>3 DEF FInv, FirstTime
<1>9. CASE helpQueue.entries = {}
  <2>1. \A d \in Contestants : notifyJobs[d] = NoJob
    BY <1>9 DEF IInv, JobsServe, IsInQueue, EntriesOf
  <2>2. ScheduleHead(q, notifyJobs, dispatches)
    BY <1>2, <1>9 DEF q
  <2>3. FirstTime(q, nreq + 1, notifyJobs', dispatches', outcome)
    BY <1>3, <1>4, <1>8, <2>1, <2>2, IInvJobs, ScheduleFirst
  <2> QED BY <1>1, <2>3 DEF FInv, q
<1>10. CASE helpQueue.entries # {}
  BY <1>1, <1>2, <1>8, <1>10 DEF FInv, q, jobVars
<1> QED BY <1>9, <1>10

LEMMA LeaveFInv ==
  ASSUME IInv, FInv, NEW c \in Contestants,
         helpQueue' = HelpCancel(helpQueue, c), ReleaseJob(c, helpQueue'),
         UNCHANGED <<nreq, outcome>>
  PROVE  FInv'
<1> DEFINE q == helpQueue'
<1>1. /\ SoundQueue(q, nreq) /\ q.entries = {e \in helpQueue.entries : e.contestant # c}
      /\ ReleaseJob(c, q)
  BY IInvJobs, CancelKeepsSound DEF IInv
<1> HIDE DEF q
<1>2. FirstTime(q, nreq, notifyJobs', dispatches', outcome)
  BY <1>1, IInvJobs, ReleaseFirst DEF IInv, FInv
<1> QED BY <1>2 DEF FInv, q

\* A dispatch that moves on settles nothing; one that ends may settle its
\* request, which no other dispatch and no jobless contestant shares.
LEMMA DispatchFInv ==
  ASSUME IInv, FInv, NEW d \in dispatches, UNCHANGED <<helpQueue, notifyJobs, nreq>>,
         \/ dispatches' = dispatches \ {d}
         \/ \E s \in {"armed", "querying"} :
              dispatches' = (dispatches \ {d}) \cup {[d EXCEPT !.state = s]},
         \A r \in Requests : Settled(r, outcome') = Settled(r, outcome)
           \/ (r = d.req /\ Settled(r, outcome') = Settled(r, outcome) + 1
               /\ dispatches' = dispatches \ {d})
  PROVE  FInv'
<1>1. \A x \in dispatches : x \in Dispatch /\ x.req \in Requests
  BY IInvJobs DEF Dispatch
<1>2. /\ \A y \in dispatches' : \E x \in dispatches : y.req = x.req
      /\ OneDispatchEach(dispatches')
  <2>1. CASE dispatches' = dispatches \ {d}
    BY <2>1 DEF FInv, FirstTime, OneDispatchEach
  <2>2. ASSUME NEW s \in {"armed", "querying"},
               dispatches' = (dispatches \ {d}) \cup {[d EXCEPT !.state = s]}
        PROVE  /\ \A y \in dispatches' : \E x \in dispatches : y.req = x.req
               /\ OneDispatchEach(dispatches')
    <3> DEFINE z == [d EXCEPT !.state = s]
    <3>1. z.req = d.req /\ dispatches' = (dispatches \ {d}) \cup {z}
      BY <1>1, <2>2 DEF Dispatch
    <3> HIDE DEF z
    <3> QED BY <3>1 DEF FInv, FirstTime, OneDispatchEach
  <2> QED BY <2>1, <2>2
<1>3. \A y \in dispatches' : Settled(y.req, outcome') = 0 /\ y.req \in 1..nreq
  <2> SUFFICES ASSUME NEW y \in dispatches'
               PROVE  Settled(y.req, outcome') = 0 /\ y.req \in 1..nreq
    OBVIOUS
  <2>1. PICK x \in dispatches : y.req = x.req
    BY <1>2
  <2>2. dispatches' = dispatches \ {d} => y.req # d.req
    BY DEF FInv, FirstTime, OneDispatchEach
  <2> QED BY <1>1, <2>1, <2>2 DEF FInv, FirstTime
<1>4. Settled(d.req, outcome) = 0 /\ d.req \in 1..nreq /\ d.req \in Requests
  BY <1>1 DEF FInv, FirstTime
<1>5. \A r \in Requests : Settled(r, outcome') <= 1 /\ (r > nreq => Settled(r, outcome') = 0)
  <2> SUFFICES ASSUME NEW r \in Requests
               PROVE  Settled(r, outcome') <= 1 /\ (r > nreq => Settled(r, outcome') = 0)
    OBVIOUS
  <2>1. CASE Settled(r, outcome') = Settled(r, outcome)
    BY <2>1 DEF FInv, FirstTime
  <2>2. CASE r = d.req /\ Settled(r, outcome') = Settled(r, outcome) + 1
    BY <1>4, <2>2, IInvJobs
  <2> QED BY <2>1, <2>2
<1>6. ASSUME NEW c \in Contestants, NEW r \in Requests, Waits(helpQueue, c, r),
             notifyJobs[c] = NoJob
      PROVE  Untouched(r, dispatches', outcome')
  <2>1. Untouched(r, dispatches, outcome)
    BY <1>6 DEF FInv, FirstTime
  <2>2. r # d.req
    BY <2>1 DEF Untouched
  <2> QED BY <1>2, <2>1, <2>2 DEF Untouched
<1> QED BY <1>2, <1>3, <1>5, <1>6 DEF FInv, FirstTime

LEMMA FireTimerFInv ==
  ASSUME IInv, FInv, NEW d \in dispatches, FireTimer(d)
  PROVE  FInv'
<1>1. d.req \in Requests
  BY IInvJobs DEF Dispatch
<1>2. outcome' = outcome \/ Audited("NOTIFY_DROPPED", d.req)
  BY DEF FireTimer
<1>3. \A r \in Requests : Settled(r, outcome') = Settled(r, outcome)
  BY <1>1, <1>2, SettledCounts DEF IInv, TypeOK, Events
<1>4. \/ dispatches' = dispatches \ {d}
      \/ \E s \in {"armed", "querying"} :
           dispatches' = (dispatches \ {d}) \cup {[d EXCEPT !.state = s]}
  BY DEF FireTimer
<1>5. UNCHANGED <<helpQueue, notifyJobs, nreq>>
  BY DEF FireTimer
<1> QED BY <1>3, <1>4, <1>5, DispatchFInv

LEMMA JudgesFoundFInv ==
  ASSUME IInv, FInv, NEW d \in dispatches, JudgesFound(d)
  PROVE  FInv'
<1>1. d.req \in Requests
  BY IInvJobs DEF Dispatch
<1>2. \/ outcome' = outcome
      \/ /\ Audited("SENT", d.req) \/ Audited("NOTIFY_ABANDONED", d.req)
         /\ dispatches' = dispatches \ {d}
  BY DEF JudgesFound
<1>3. \A r \in Requests : Settled(r, outcome') = Settled(r, outcome)
        \/ (r = d.req /\ Settled(r, outcome') = Settled(r, outcome) + 1
            /\ dispatches' = dispatches \ {d})
  BY <1>1, <1>2, SettledCounts DEF IInv, TypeOK, Events
<1>4. \/ dispatches' = dispatches \ {d}
      \/ \E s \in {"armed", "querying"} :
           dispatches' = (dispatches \ {d}) \cup {[d EXCEPT !.state = s]}
  BY DEF JudgesFound
<1>5. UNCHANGED <<helpQueue, notifyJobs, nreq>>
  BY DEF JudgesFound
<1> QED BY <1>3, <1>4, <1>5, DispatchFInv

LEMMA NextFInv == IInv /\ FInv /\ [Next]_vars => FInv'
<1> SUFFICES ASSUME IInv, FInv, [Next]_vars PROVE FInv'
  OBVIOUS
<1>1. ASSUME NEW c \in Contestants, RequestHelp(c) PROVE FInv'
  BY <1>1, RequestHelpFInv
<1>2. ASSUME NEW c \in Contestants, CancelHelp(c) PROVE FInv'
  <2>1. /\ helpQueue' = HelpCancel(helpQueue, c) /\ ReleaseJob(c, helpQueue')
        /\ UNCHANGED <<nreq, outcome>>
    BY <1>2 DEF CancelHelp
  <2> QED BY <2>1, LeaveFInv
<1>3. ASSUME NEW l \in lookups, LookupDone(l) PROVE FInv'
  <2>1. UNCHANGED <<notifyJobs, dispatches, nreq, outcome>>
    BY <1>3 DEF LookupDone, jobVars
  <2>2. PICK s \in Stations \cup {NoStation} :
          helpQueue' = StationFound(helpQueue, l.contestant, s)
    BY <1>3 DEF LookupDone
  <2>3. \A d \in Contestants, r \in Nat : Waits(helpQueue', d, r) <=> Waits(helpQueue, d, r)
    BY <1>3, <2>2, IInvJobs, StationKeepsSound DEF IInv, TypeOK
  <2>4. \A d \in Contestants, r \in Requests : Waits(helpQueue', d, r) => Waits(helpQueue, d, r)
    BY <2>3 DEF Requests
  <2> QED BY <2>1, <2>4 DEF FInv, FirstTime
<1>4. ASSUME NEW j \in Judges, DebounceEnds(j) PROVE FInv'
  BY <1>4 DEF DebounceEnds, FInv, jobVars
<1>5. ASSUME NEW j \in Judges, NEW c \in Contestants, HandleAck(j, c) PROVE FInv'
  <2>1. /\ helpQueue' = HelpCancel(helpQueue, c) /\ ReleaseJob(c, helpQueue')
        /\ UNCHANGED <<nreq, outcome>>
    BY <1>5, AckIsCancel DEF HandleAck
  <2> QED BY <2>1, LeaveFInv
<1>6. ASSUME NEW d \in dispatches, FireTimer(d) PROVE FInv'
  BY <1>6, FireTimerFInv
<1>7. ASSUME NEW d \in dispatches, JudgesFound(d) PROVE FInv'
  BY <1>7, JudgesFoundFInv
<1>8. ASSUME NEW r \in Requests, ComeOfAge(r) PROVE FInv'
  BY <1>8 DEF ComeOfAge, FInv, jobVars
<1>9. ASSUME Restart PROVE FInv'
  <2>1. dispatches' = {} /\ helpQueue'.entries = {} /\ UNCHANGED <<nreq, outcome>>
    BY <1>9 DEF Restart, InitialHelpQueue
  <2> QED BY <2>1 DEF FInv, FirstTime, OneDispatchEach, Waits
<1>10. ASSUME UNCHANGED vars PROVE FInv'
  BY <1>10 DEF vars, FInv
<1> QED BY <1>1, <1>2, <1>3, <1>4, <1>5, <1>6, <1>7, <1>8, <1>9, <1>10 DEF Next

\* A request is announced, or given up on, at most once, however often its job
\* re-arms and whoever leaves or comes meanwhile.
THEOREM RequestsSettleOnce == Spec => []SettledOnce
<1>1. FInv => SettledOnce
  BY DEF FInv, FirstTime, Settled, SettledOnce
<1> QED BY <1>1, InitIInv, NextIInv, InitFInv, NextFInv, PTL DEF Spec
============================================================================
