--------------------------- MODULE Notifications ----------------------------
(***************************************************************************)
(* The notifications module: events published on the domain-events queue,  *)
(* NotificationEventsProcessor that turns each into one job per channel,   *)
(* ChannelDispatchProcessor that delivers a job unless a block stands      *)
(* between the two users, and the in-app rows with their dedupe key, read  *)
(* marks and retention.  BullMQ, which is external, runs a job again when  *)
(* the run failed, or when its worker stalled, and gives it up after       *)
(* MaxAttempts failures or more than MaxStalledCount stalls.  What such a  *)
(* run has done by then is kept.                                           *)
(*                                                                         *)
(* The blocks table is the social module's; it is only read here.          *)
(***************************************************************************)
EXTENDS Integers, Sequences, FiniteSets

CONSTANTS
  Users,
  MaxAttempts,       \* attempts of a domain-events or channel-dispatch job (5)
  MaxStalledCount,   \* BullMQ's default (1)
  MaxFaults          \* bound on failed and stalled runs

ASSUME NotificationsAssumption ==
  /\ Users \subseteq Nat
  /\ MaxAttempts \in Nat \ {0} /\ MaxStalledCount \in Nat /\ MaxFaults \in Nat

VARIABLES
  blocks,      \* <<blocker, blocked>>
  published,   \* every event published, in order
  queue,       \* domain-events: the numbers of the events not processed yet
  tries,       \* how often the domain-events job of each event failed and stalled
  jobs,        \* channel-dispatch jobs
  inbox,       \* notifications rows
  outcome,     \* history: how each event's channel-dispatch jobs ended
  sent,        \* history: how often each event was delivered on a channel
  hits,        \* history: the faults of the event's job, or of its jobs on a channel
  faults

delivery == <<queue, tries, jobs, inbox, outcome, sent, hits, faults>>

Types == {"new_follower", "post_reaction", "post_comment", "transfer_received"}
Event == [type : Types, to : Users, from : Users, key : Seq(Nat)]
Row == [type : Types, to : Users, key : Seq(Nat), read : BOOLEAN]
Channels == {"in_app", "push"}
Job == [event : Nat, channel : Channels, copy : Nat, failed : Nat, stalled : Nat,
        state : {"waiting", "sending"}]

\* NOTIFICATION_CATALOG, but for email, which is delivered like push.
ChannelsFor(type) == IF type = "post_reaction" THEN {"in_app"} ELSE {"push", "in_app"}

\* Money that already moved is a record, not contact: its news is not dropped.
BlockChecked(type) == type # "transfer_received"

IsBlockedBetween(a, b) == <<a, b>> \in blocks \/ <<b, a>> \in blocks

-----------------------------------------------------------------------------
\* EventBusService.publish of a sequence of events.
Publish(events) ==
  /\ published' = published \o events
  /\ queue' = queue \cup (Len(published) + 1)..(Len(published) + Len(events))
  /\ tries' = tries \o [i \in DOMAIN events |-> [failed |-> 0, stalled |-> 0]]
  /\ outcome' = outcome \o [i \in DOMAIN events |-> {}]
  /\ sent' = sent \o [i \in DOMAIN events |-> [c \in Channels |-> 0]]
  /\ hits' = hits \o [i \in DOMAIN events |-> [c \in Channels |-> 0]]

\* A run of a job fails, or its worker stalls.
Faults == {"failed", "stalled"}

Hit(e, channels) ==
  /\ faults < MaxFaults
  /\ faults' = faults + 1
  /\ hits' = [hits EXCEPT ![e] = [c \in Channels |-> IF c \in channels THEN @[c] + 1 ELSE @[c]]]

\* Mutant: a job is not run again.
AtOnce(run) == TRUE

GivenUp(run) == run.failed >= MaxAttempts \/ run.stalled > MaxStalledCount

JobsFor(e, channels) ==
  {[event |-> e, channel |-> c, copy |-> faults, failed |-> 0, stalled |-> 0,
    state |-> "waiting"] : c \in channels}

\* NotificationEventsProcessor.process.
ProcessEvent(e) ==
  /\ e \in queue
  /\ jobs' = jobs \cup JobsFor(e, ChannelsFor(published[e].type))
  /\ queue' = queue \ {e}
  /\ UNCHANGED <<blocks, published, tries, inbox, outcome, sent, hits, faults>>

\* A run that is cut short has added the jobs of some channels; the next adds
\* those of all of them.
FailEvent(e, fault) ==
  /\ e \in queue
  /\ Hit(e, Channels)
  /\ \E channels \in SUBSET ChannelsFor(published[e].type) :
       jobs' = jobs \cup JobsFor(e, channels)
  /\ tries' = [tries EXCEPT ![e][fault] = @ + 1]
  /\ queue' = IF GivenUp(tries'[e]) THEN queue \ {e} ELSE queue
  /\ UNCHANGED <<blocks, published, inbox, outcome, sent>>

\* A channel-dispatch job of the event ended.
Ends(j, how) ==
  outcome' = [outcome EXCEPT ![j.event] =
                @ \cup {[channel |-> j.channel, how |-> how,
                         failed |-> j.failed, stalled |-> j.stalled]}]

\* ChannelDispatchProcessor.process reads the blocks, then delivers.
CheckBlock(j) ==
  LET event == published[j.event] IN
  /\ j \in jobs /\ j.state = "waiting"
  /\ IF BlockChecked(event.type) /\ IsBlockedBetween(event.to, event.from)
     THEN jobs' = jobs \ {j} /\ Ends(j, "blocked")
     ELSE jobs' = (jobs \ {j}) \cup {[j EXCEPT !.state = "sending"]} /\ UNCHANGED outcome
  /\ UNCHANGED <<blocks, published, queue, tries, inbox, sent, hits, faults>>

\* UQ_notifications_user_id_type_dedupe_key: a duplicate is ignored.
Saved(event) ==
  IF \E row \in inbox : row.to = event.to /\ row.type = event.type /\ row.key = event.key
  THEN inbox
  ELSE inbox \cup {[type |-> event.type, to |-> event.to, key |-> event.key, read |-> FALSE]}

\* The news reaches the user on the job's channel.
Reach(j) ==
  /\ inbox' = IF j.channel = "in_app" THEN Saved(published[j.event]) ELSE inbox
  /\ sent' = [sent EXCEPT ![j.event][j.channel] = @ + 1]

Send(j) ==
  /\ j \in jobs /\ j.state = "sending"
  /\ Reach(j)
  /\ jobs' = jobs \ {j} /\ Ends(j, "delivered")
  /\ UNCHANGED <<blocks, published, queue, tries, hits, faults>>

\* Mutant: the event is processed again, on all its channels.
RetryEvent(j, next) ==
  (jobs \ {j}) \cup JobsFor(j.event, ChannelsFor(published[j.event].type))

Retried(j, next) == (jobs \ {j}) \cup {[next EXCEPT !.state = "waiting"]}

\* The block could not be read, or the sender threw, perhaps after the news got
\* through, to one of the user's devices or to all; or the worker stalled.
Fail(j, fault) ==
  LET next == [j EXCEPT ![fault] = @ + 1] IN
  /\ j \in jobs
  /\ Hit(j.event, {j.channel})
  /\ \/ UNCHANGED <<inbox, sent>>
     \/ j.state = "sending" /\ Reach(j)
  /\ IF GivenUp(next)
     THEN jobs' = jobs \ {j} /\ Ends(next, "given up")
     ELSE jobs' = Retried(j, next) /\ UNCHANGED outcome
  /\ UNCHANGED <<blocks, published, queue, tries>>

\* markRead of some or all of a user's unread rows.
MarkRead(u) ==
  /\ \E rows \in SUBSET {row \in inbox : row.to = u /\ ~row.read} :
       /\ rows # {}
       /\ inbox' = (inbox \ rows) \cup {[row EXCEPT !.read = TRUE] : row \in rows}
  /\ UNCHANGED <<blocks, published, queue, tries, jobs, outcome, sent, hits, faults>>

\* deleteExpiredNotifications, one old row at a time.
DeleteExpired(row) ==
  /\ inbox' = inbox \ {row}
  /\ UNCHANGED <<blocks, published, queue, tries, jobs, outcome, sent, hits, faults>>

Deliver ==
  \/ \E e \in queue : ProcessEvent(e) \/ \E fault \in Faults : FailEvent(e, fault)
  \/ \E j \in jobs : CheckBlock(j) \/ Send(j) \/ \E fault \in Faults : Fail(j, fault)

NotificationsInit ==
  /\ published = <<>> /\ queue = {} /\ tries = <<>> /\ jobs = {} /\ inbox = {}
  /\ outcome = <<>> /\ sent = <<>> /\ hits = <<>> /\ faults = 0

UsedUp(run) == run.failed = MaxAttempts \/ run.stalled = MaxStalledCount + 1

\* On each of its channels the event was delivered, stopped by a block or used
\* up its attempts, unless its own job did.
Settled(e) ==
  \/ UsedUp(tries[e])
  \/ \A c \in ChannelsFor(published[e].type) : \E end \in outcome[e] :
       end.channel = c /\ (end.how # "given up" \/ UsedUp(end))

NotificationsTypeOK ==
  /\ blocks \subseteq Users \X Users
  /\ published \in Seq(Event)
  /\ queue \subseteq DOMAIN published
  /\ jobs \subseteq Job
  /\ inbox \subseteq Row
  /\ sent \in Seq([Channels -> Nat]) /\ hits \in Seq([Channels -> Nat])
  /\ faults \in 0..MaxFaults
=============================================================================
