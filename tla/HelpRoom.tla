------------------------------ MODULE HelpRoom ------------------------------
(***************************************************************************)
(* The help-call system of one room of the server: the queue               *)
(* (server/src/help-queue.ts), the HELP_REQUEST and HELP_CANCEL handlers   *)
(* (server/src/ws/contestant.ts), the HELP_ACK handler                     *)
(* (server/src/ws/judge.ts), the notification jobs of the room             *)
(* (scheduleHeadNotification in server/src/rooms.ts) and the dispatcher    *)
(* that runs them (server/src/notify/dispatcher.ts).                       *)
(*                                                                         *)
(* The server is one event loop: a handler runs to its end, or to its next *)
(* await, as one step.  What interleaves are the awaits (the station       *)
(* lookup of a request, the judge lookup of a dispatch), the timers, the   *)
(* frames of contestants and judges, and a restart, which forgets all.     *)
(*                                                                         *)
(* Time is abstracted to the events it causes: an armed setTimeout may     *)
(* fire at any later moment (5 s or 60 s elapse), a request may come of    *)
(* age (30 minutes elapse), a judge's 30 s debounce may end.  Which judges *)
(* can be reached (rooms enabled, quiet hours, verified contacts, or no    *)
(* answer from the database at all) is chosen anew at every lookup.        *)
(*                                                                         *)
(* The judges' pages and the frames between them and the server are the    *)
(* subject of HelpAcks; here any judge may acknowledge whoever waits.      *)
(***************************************************************************)
EXTENDS HelpEntries, FiniteSets

CONSTANTS Judges,
          MaxRestarts       \* bound: server restarts

ASSUME BoundAssumption == MaxRequests \in Nat /\ MaxRestarts \in Nat

NoJob == 0

VARIABLES
  helpQueue,    \* RoomState.helpQueue
  notifyJobs,   \* RoomState.notifyJobs: each contestant's job number, or NoJob
  dispatches,   \* the scheduled jobs that may still act
  njobs,        \* history: jobs scheduled so far
  debounced,    \* judges with a judgeAckedAt entry younger than 30 s
  lookups,      \* contestants' station lookups awaited
  aged,         \* requests older than 30 minutes
  nreq,         \* history: requests accepted so far
  restarts,     \* history: restarts so far
  outcome       \* history: what the dispatcher did, [event, req] -> how often

jobVars == <<notifyJobs, dispatches, njobs>>
vars == <<helpQueue, notifyJobs, dispatches, njobs, debounced, lookups, aged,
          nreq, restarts, outcome>>

Requests == 1..MaxRequests
JobNumbers == Nat \ {NoJob}

\* What the dispatcher settles a job with (NOTIFY_DEFERRED rows, which settle
\* nothing, are not counted).
Events == {"SENT", "NOTIFY_DROPPED", "NOTIFY_ABANDONED"}

\* A job scheduled for request `req' of `contestant': waiting on its timer,
\* or in the middle of fireDispatch.  Not live: cancel() was called.
Dispatch == [ job        : JobNumbers,
              contestant : Contestants,
              req        : Requests,
              state      : {"armed", "querying"},
              live       : BOOLEAN ]

TypeOK ==
  /\ helpQueue \in Queue
  /\ \A e \in helpQueue.entries : e.req \in 1..nreq
  /\ notifyJobs \in [Contestants -> JobNumbers \cup {NoJob}]
  /\ dispatches \in SUBSET Dispatch
  /\ njobs \in Nat
  /\ debounced \in SUBSET Judges
  /\ lookups \in SUBSET [contestant : Contestants, req : Requests]
  /\ aged \in SUBSET Requests
  /\ nreq \in 0..MaxRequests
  /\ restarts \in 0..MaxRestarts
  /\ outcome \in [Events \X Requests -> Nat]

Init ==
  /\ helpQueue = InitialHelpQueue
  /\ notifyJobs = [c \in Contestants |-> NoJob]
  /\ dispatches = {}
  /\ njobs = 0
  /\ debounced = {}
  /\ lookups = {}
  /\ aged = {}
  /\ nreq = 0
  /\ restarts = 0
  /\ outcome = [x \in Events \X Requests |-> 0]

Audited(event, req) == outcome' = [outcome EXCEPT ![<<event, req>>] = @ + 1]
----------------------------------------------------------------------------
(* Notification jobs *)

\* scheduleHeadNotification on a room whose queue is now q.
ScheduleHead(q, jobs, running) ==
  LET head == HeadEntry(q)
  IN IF q.entries = {} \/ jobs[head.contestant] # NoJob
     THEN notifyJobs' = jobs /\ dispatches' = running /\ njobs' = njobs
     ELSE /\ njobs' = njobs + 1
          /\ notifyJobs' = [jobs EXCEPT ![head.contestant] = njobs + 1]
          /\ dispatches' = running \cup
               {[job |-> njobs + 1, contestant |-> head.contestant, req |-> head.req,
                 state |-> "armed", live |-> TRUE]}

\* Seeded fault: cancel() does not clear the timer.
AfterCancelTimerKept(job) == dispatches

\* cancel(): an armed timer is cleared; a dispatch past its timer runs on, but
\* may not re-arm.
AfterCancel(job) ==
  {d \in dispatches : d.job # job} \cup
  {[d EXCEPT !.live = FALSE] : d \in {x \in dispatches : x.job = job /\ x.state = "querying"}}

\* Seeded fault: nothing is scheduled for those who still wait.
ReleaseJobOnly(c, q) ==
  /\ notifyJobs' = [notifyJobs EXCEPT ![c] = NoJob]
  /\ dispatches' = AfterCancel(notifyJobs[c])
  /\ njobs' = njobs

\* A contestant left the queue, which is now q: drop its job, if it has one,
\* and debounce anew for the head of those who still wait.
ReleaseJob(c, q) ==
  IF notifyJobs[c] = NoJob THEN UNCHANGED jobVars
  ELSE ScheduleHead(q, [notifyJobs EXCEPT ![c] = NoJob], AfterCancel(notifyJobs[c]))
----------------------------------------------------------------------------
(* Contestants *)

\* HELP_REQUEST, up to the await of the station lookup.
RequestHelp(c) ==
  /\ ~IsInQueue(helpQueue, c) /\ nreq < MaxRequests
  /\ nreq' = nreq + 1
  /\ \E at \in Instants :
       LET q == HelpRequest(helpQueue, c, at, nreq + 1)
       IN /\ helpQueue' = q
          /\ IF helpQueue.entries = {} THEN ScheduleHead(q, notifyJobs, dispatches)
             ELSE UNCHANGED jobVars
  /\ lookups' = lookups \cup {[contestant |-> c, req |-> nreq + 1]}
  /\ UNCHANGED <<debounced, aged, restarts, outcome>>

\* The lookup answers a number, or nothing (unassigned, or the query failed).
LookupDone(l) ==
  /\ lookups' = lookups \ {l}
  /\ \E s \in Stations \cup {NoStation} :
       helpQueue' = StationFound(helpQueue, l.contestant, s)
  /\ UNCHANGED <<jobVars, debounced, aged, nreq, restarts, outcome>>

CancelHelp(c) ==
  /\ IsInQueue(helpQueue, c)
  /\ LET q == HelpCancel(helpQueue, c) IN helpQueue' = q /\ ReleaseJob(c, q)
  /\ UNCHANGED <<debounced, lookups, aged, nreq, restarts, outcome>>
----------------------------------------------------------------------------
(* Judges *)

\* HELP_ACK in handleJudgeFrame; an ack whose version or contestant does not
\* match changes nothing.
HandleAck(j, c) ==
  /\ IsInQueue(helpQueue, c)
  /\ LET q == HelpAck(helpQueue, c, helpQueue.version)
     IN helpQueue' = q /\ ReleaseJob(c, q)
  /\ debounced' = debounced \cup {j}
  /\ UNCHANGED <<lookups, aged, nreq, restarts, outcome>>
----------------------------------------------------------------------------
(* The dispatcher *)

\* The timer fires: fireDispatch up to its await.
FireTimer(d) ==
  /\ d.state = "armed"
  /\ IF IsInQueue(helpQueue, d.contestant)
     THEN /\ dispatches' = (dispatches \ {d}) \cup {[d EXCEPT !.state = "querying"]}
          /\ outcome' = outcome
     ELSE /\ dispatches' = dispatches \ {d}
          /\ Audited("NOTIFY_DROPPED", d.req)
  /\ UNCHANGED <<helpQueue, notifyJobs, njobs, debounced, lookups, aged, nreq, restarts>>

\* Seeded fault: the job re-arms after it was sent.
JudgesFoundRearming(d) ==
  /\ d.state = "querying"
  /\ dispatches' = (dispatches \ {d}) \cup {[d EXCEPT !.state = "armed"]}
  /\ Audited("SENT", d.req)
  /\ UNCHANGED <<helpQueue, notifyJobs, njobs, debounced, lookups, aged, nreq, restarts>>

\* Seeded fault: nobody reachable, and no second try.
JudgesFoundOnce(d) ==
  /\ d.state = "querying"
  /\ dispatches' = dispatches \ {d}
  /\ outcome' = outcome \/ Audited("SENT", d.req)
  /\ UNCHANGED <<helpQueue, notifyJobs, njobs, debounced, lookups, aged, nreq, restarts>>

\* findJudgesForRoom answered: every qualifying judge is sent a notification;
\* with none, the job re-arms while the request is young.
JudgesFound(d) ==
  /\ d.state = "querying"
  /\ \E reachable \in SUBSET Judges :
       IF reachable \subseteq debounced
       THEN IF d.req \in aged
            THEN dispatches' = dispatches \ {d} /\ Audited("NOTIFY_ABANDONED", d.req)
            ELSE /\ dispatches' = IF d.live
                                  THEN (dispatches \ {d}) \cup {[d EXCEPT !.state = "armed"]}
                                  ELSE dispatches \ {d}
                 /\ outcome' = outcome
       ELSE dispatches' = dispatches \ {d} /\ Audited("SENT", d.req)
  /\ UNCHANGED <<helpQueue, notifyJobs, njobs, debounced, lookups, aged, nreq, restarts>>
----------------------------------------------------------------------------
(* Time and failure *)

DebounceEnds(j) ==
  /\ j \in debounced
  /\ debounced' = debounced \ {j}
  /\ UNCHANGED <<helpQueue, jobVars, lookups, aged, nreq, restarts, outcome>>

\* Only looked at by a dispatch, so it is enough to let it happen then.
ComeOfAge(r) ==
  /\ r \notin aged /\ \E d \in dispatches : d.req = r
  /\ aged' = aged \cup {r}
  /\ UNCHANGED <<helpQueue, jobVars, debounced, lookups, nreq, restarts, outcome>>

\* The process restarts: the help queue and everything around it is gone.
Restart ==
  /\ restarts < MaxRestarts
  /\ restarts' = restarts + 1
  /\ helpQueue' = InitialHelpQueue
  /\ notifyJobs' = [c \in Contestants |-> NoJob]
  /\ dispatches' = {}
  /\ debounced' = {}
  /\ lookups' = {}
  /\ UNCHANGED <<njobs, aged, nreq, outcome>>

Next ==
  \/ \E c \in Contestants : RequestHelp(c) \/ CancelHelp(c)
  \/ \E l \in lookups : LookupDone(l)
  \/ \E j \in Judges : DebounceEnds(j) \/ \E c \in Contestants : HandleAck(j, c)
  \/ \E d \in dispatches : FireTimer(d) \/ JudgesFound(d)
  \/ \E r \in Requests : ComeOfAge(r)
  \/ Restart

Spec == Init /\ [][Next]_vars

\* Timers fire, lookups answer or fail, and time passes; nobody is obliged to
\* ask, cancel or acknowledge.
Fairness ==
  \A r \in Requests :
    /\ WF_vars(\E d \in dispatches : d.req = r /\ (FireTimer(d) \/ JudgesFound(d)))
    /\ WF_vars(ComeOfAge(r))

FairSpec == Spec /\ Fairness
----------------------------------------------------------------------------
(* Properties *)

Waiting == {e.req : e \in helpQueue.entries}

\* While anyone waits there is exactly one notification job, held by someone
\* who waits; when nobody waits there is none.  (The comments in
\* handleHelpCancel, HELP_ACK and scheduleHeadNotification: those still in
\* line must not be forgotten when the contestant who triggered the
\* notification leaves, and must not be announced twice.)
OneJobWhileAnyoneWaits ==
  LET holders == {c \in Contestants : notifyJobs[c] # NoJob}
  IN /\ \A c \in holders : IsInQueue(helpQueue, c)
     /\ \A c, d \in holders : c = d
     /\ helpQueue.entries # {} => holders # {}

\* A timer that can still fire belongs to a request that still waits: nobody
\* is notified for a contestant who had left when the worker looked, even if
\* the contestant has asked again since.
LiveJobsServeWaiting ==
  \A d \in dispatches :
    d.live => notifyJobs[d.contestant] = d.job /\ Waits(helpQueue, d.contestant, d.req)

\* A request is announced, or given up on, at most once, however often its job
\* is re-armed and whoever leaves the queue meanwhile.
SettledOnce ==
  \A r \in Requests : outcome[<<"SENT", r>>] + outcome[<<"NOTIFY_ABANDONED", r>>] <= 1

\* The request a job was scheduled for is announced or given up on, unless it
\* leaves the queue first: no job is lost between its timers and its lookups.
JobsAreSettled ==
  \A r \in Requests :
    (\E d \in dispatches : d.req = r)
      ~> \/ r \notin Waiting
         \/ outcome[<<"SENT", r>>] > 0
         \/ outcome[<<"NOTIFY_ABANDONED", r>>] > 0
============================================================================
