------------------------------- MODULE Social -------------------------------
(***************************************************************************)
(* The social module: follows, blocks, posts of transfers with their       *)
(* visibility, reactions and comments, and the notifications they cause.   *)
(*                                                                         *)
(* Requests run concurrently, one per worker.  A request that two users    *)
(* can dispute runs in a transaction under advisory locks: the pair's, and *)
(* for a follow the follower's own.  Its steps are taking each lock, the   *)
(* reads, and the writes with the commit that releases the locks; the      *)
(* notification is published after it.  The other requests are one         *)
(* statement, except the two flags of a post, which are read and saved.    *)
(*                                                                         *)
(* Every user has passed KYC (requireSocialTier).  Post p is that of the   *)
(* transfer p.                                                             *)
(***************************************************************************)
EXTENDS Notifications, SequencesExt

CONSTANTS
  Workers,
  Parties,        \* Parties[p]: the sender and the recipient of transfer p
  MaxFollowing,   \* MAX_FOLLOWING (5000)
  FirstFollows,   \* the follows a behaviour may start with
  Scenarios       \* [requests, news]: a behaviour makes the requests of one of
                  \* these, each at most once, and publishes at most news events

Posts == DOMAIN Parties

\* Follows, blocks and transfers are of two users (SelfFollowException and the like).
ValidRequest(r) ==
  /\ r.user \in Users
  /\ r.op \in {"follow", "block", "transfer"} => r.other \in Users \ {r.user}
  /\ r.op \in {"react", "comment", "transfer"} => r.post \in Posts
  /\ r.op = "comment" => r.number \in Nat

ASSUME SocialAssumption ==
  /\ Parties \in Seq([sender : Users, recipient : Users])
  /\ MaxFollowing \in Nat \ {0}
  /\ FirstFollows \subseteq SUBSET (Users \X Users)
  /\ \A s \in Scenarios : s.news \in Nat /\ \A r \in s.requests : ValidRequest(r)

VARIABLES
  follows,     \* <<follower, followee>>
  posts,       \* transaction_posts
  reactions,   \* <<post, user>>
  comments,    \* post_comments; a comment's id is the number of its request
  job,
  requests,    \* those not made yet
  room         \* bound on the events that may still be published

tables == <<follows, posts, reactions, comments>>
vars == <<blocks, published, queue, tries, jobs, inbox, outcome, sent, hits, faults,
          follows, posts, reactions, comments, job, requests, room>>

-----------------------------------------------------------------------------
(* Queries *)

Participants(p) == {Parties[p].sender, Parties[p].recipient}
EffectivelyPublic(p) == posts[p].visibility = "public" /\ ~posts[p].hidden
NoBlockWithViewer(v, p) == \A u \in Participants(p) : ~IsBlockedBetween(u, v)

ReadableBy(v, p) ==
  /\ posts[p].exists
  /\ \/ v \in Participants(p)
     \/ /\ EffectivelyPublic(p)
        /\ \E u \in Participants(p) : <<v, u>> \in follows
        /\ NoBlockWithViewer(v, p)

Following(u) == {v \in Users : <<u, v>> \in follows}

-----------------------------------------------------------------------------
(* Locks *)

Idle == [pc |-> "idle", held |-> {}, wants |-> <<>>]

\* Mutant: the key names the pair in the order of the call.
DirectedPair(a, b) == <<a, b>>

PairKey(a, b) == IF a < b THEN <<a, b>> ELSE <<b, a>>

FollowsKey(u) == <<u>>

FollowLocks(u, v) == <<FollowsKey(u), PairKey(u, v)>>

\* Mutant: the sender's pair before the recipient's.
SenderFirst(u, p) ==
  SelectSeq(<<Parties[p].sender, Parties[p].recipient>>, LAMBDA v : v # u)

Others(u, p) ==
  CHOOSE s \in SetToSeqs(Participants(p) \ {u}) : \A i, j \in DOMAIN s : i < j => s[i] < s[j]

\* Mutant: only the pair with the poster is locked.
SenderPairOnly(u, p) == <<PairKey(u, Parties[p].sender)>>

InteractionLocks(u, p) == [i \in DOMAIN Others(u, p) |-> PairKey(u, Others(u, p)[i])]

End(w) == job' = [job EXCEPT ![w] = Idle]
Goto(w, label) == job' = [job EXCEPT ![w].pc = label]
At(w, label) == job[w].pc = label
Asked(w) == job[w].request

\* setVisibility and setHiddenByRecipient of the post in memory.
Flagged(post, r) ==
  [post EXCEPT ![IF r.op = "setVisibility" THEN "visibility" ELSE "hidden"] = r.to]

\* The requests that lock, and the locks they take, in order.
Begin(w) ==
  /\ job[w] = Idle
  /\ \E r \in requests :
       /\ requests' = requests \ {r}
       /\ \/ /\ r.op \in {"react", "comment"} /\ ReadableBy(r.user, r.post)
             /\ job' = [job EXCEPT ![w] = [pc |-> "lock", held |-> {}, request |-> r,
                                           wants |-> InteractionLocks(r.user, r.post)]]
          \/ /\ r.op \in {"react", "comment"} /\ ~ReadableBy(r.user, r.post)
             /\ UNCHANGED job
          \/ /\ r.op = "follow"
             /\ job' = [job EXCEPT ![w] = [pc |-> "lock", held |-> {}, request |-> r,
                                           wants |-> FollowLocks(r.user, r.other)]]
          \/ /\ r.op \in {"block", "transfer"}
             /\ job' = [job EXCEPT ![w] = [pc |-> "lock", held |-> {}, request |-> r,
                                           wants |-> <<PairKey(r.user, r.other)>>]]
          \/ /\ r.op \in {"setVisibility", "setHidden"} /\ posts[r.post].exists
             /\ job' = [job EXCEPT ![w] = [pc |-> "reloadPost", held |-> {}, request |-> r,
                                           wants |-> <<>>, post |-> Flagged(posts[r.post], r)]]
  /\ UNCHANGED <<blocks, published, delivery, tables, room>>

Lock(w) ==
  /\ At(w, "lock") /\ job[w].wants # <<>>
  /\ \A v \in Workers \ {w} : Head(job[w].wants) \notin job[v].held
  /\ job' = [job EXCEPT ![w].held = @ \cup {Head(job[w].wants)}, ![w].wants = Tail(@)]
  /\ UNCHANGED <<blocks, published, delivery, tables, requests, room>>

-----------------------------------------------------------------------------
(* follow, block, and finalizeTransfer's recordTransferPost *)

MayFollow(u, v) ==
  /\ ~IsBlockedBetween(u, v)
  /\ v \in Following(u) \/ Cardinality(Following(u)) < MaxFollowing

MayInteract(u, p) == ReadableBy(u, p) /\ NoBlockWithViewer(u, p)

Allowed(r) ==
  CASE r.op = "follow" -> MayFollow(r.user, r.other)
    [] r.op = "transfer" -> ~IsBlockedBetween(r.user, r.other)
    [] r.op \in {"react", "comment"} -> MayInteract(r.user, r.post)
    [] r.op = "block" -> TRUE

\* With all its locks, a request reads what allows or refuses it.
Check(w) ==
  /\ At(w, "lock") /\ job[w].wants = <<>>
  /\ IF Allowed(Asked(w)) THEN Goto(w, "write") ELSE End(w)
  /\ UNCHANGED <<blocks, published, delivery, tables, requests, room>>

\* The commit releases the locks; a request with news goes on to publish it.
Commit(w, news) ==
  job' = [job EXCEPT ![w] = IF news THEN [@ EXCEPT !.pc = "publish", !.held = {}] ELSE Idle]

Follow(w) ==
  LET edge == <<Asked(w).user, Asked(w).other>> IN
  /\ At(w, "write") /\ Asked(w).op = "follow"
  /\ follows' = follows \cup {edge}
  /\ Commit(w, edge \notin follows)
  /\ UNCHANGED <<blocks, published, delivery, posts, reactions, comments, requests, room>>

Block(w) ==
  LET u == Asked(w).user
      v == Asked(w).other
  IN /\ At(w, "write") /\ Asked(w).op = "block"
     /\ blocks' = blocks \cup {<<u, v>>}
     /\ follows' = follows \ {<<u, v>>, <<v, u>>}
     /\ Commit(w, FALSE)
     /\ UNCHANGED <<published, delivery, posts, reactions, comments, requests, room>>

RecordTransferPost(w) ==
  /\ At(w, "write") /\ Asked(w).op = "transfer"
  /\ posts' = [posts EXCEPT ![Asked(w).post] =
                 [exists |-> TRUE, visibility |-> Asked(w).to, hidden |-> FALSE]]
  /\ Commit(w, TRUE)
  /\ UNCHANGED <<blocks, published, delivery, follows, reactions, comments, requests, room>>

SetReaction(w) ==
  LET mark == <<Asked(w).post, Asked(w).user>> IN
  /\ At(w, "write") /\ Asked(w).op = "react"
  /\ reactions' = reactions \cup {mark}
  /\ Commit(w, mark \notin reactions)
  /\ UNCHANGED <<blocks, published, delivery, follows, posts, comments, requests, room>>

AddComment(w) ==
  /\ At(w, "write") /\ Asked(w).op = "comment"
  /\ comments' = comments \cup {[post |-> Asked(w).post, author |-> Asked(w).user,
                                 id |-> Asked(w).number, deleted |-> FALSE]}
  /\ Commit(w, TRUE)
  /\ UNCHANGED <<blocks, published, delivery, follows, posts, reactions, requests, room>>

\* Who is told, and the dedupe key of the in-app row.
News(r) ==
  LET told == IF r.op \in {"react", "comment"} THEN Others(r.user, r.post) ELSE <<r.other>>
      event(u) ==
        CASE r.op = "follow"   -> [type |-> "new_follower", key |-> <<r.user, u>>]
          [] r.op = "react"    -> [type |-> "post_reaction", key |-> <<r.post, r.user>>]
          [] r.op = "comment"  -> [type |-> "post_comment", key |-> <<r.post, r.user, r.number>>]
          [] r.op = "transfer" -> [type |-> "transfer_received", key |-> <<r.post>>]
  IN [i \in DOMAIN told |-> [type |-> event(told[i]).type, to |-> told[i],
                             from |-> r.user, key |-> event(told[i]).key]]

\* One event after the other; what fails is logged and not repeated.
PublishNews(w) ==
  /\ At(w, "publish")
  /\ \E n \in 0..Len(News(Asked(w))) :
       n <= room /\ room' = room - n /\ Publish(SubSeq(News(Asked(w)), 1, n))
  /\ End(w)
  /\ UNCHANGED <<blocks, jobs, inbox, faults, tables, requests>>

-----------------------------------------------------------------------------
(* The flags of a post: save() reads the row again and updates the columns in *)
(* which the object in memory differs from it                                *)

ReloadPost(w) ==
  /\ At(w, "reloadPost")
  /\ job' = [job EXCEPT ![w] = [pc |-> "savePost", held |-> {}, request |-> Asked(w),
                                wants |-> <<>>, post |-> job[w].post, row |-> posts[Asked(w).post]]]
  /\ UNCHANGED <<blocks, published, delivery, tables, requests, room>>

SavePost(w) ==
  LET p == Asked(w).post
      post == job[w].post
      row == job[w].row
  IN /\ At(w, "savePost")
     /\ posts' = [posts EXCEPT ![p] = [f \in DOMAIN posts[p] |->
                                         IF post[f] # row[f] THEN post[f] ELSE posts[p][f]]]
     /\ End(w)
     /\ UNCHANGED <<blocks, published, delivery, follows, reactions, comments, requests, room>>

(* Single statements *)

Ask(op) ==
  \E r \in requests : r.op = op /\ requests' = requests \ {r}

TheRequest == CHOOSE r \in requests : r \notin requests'

Unfollow ==
  /\ Ask("unfollow")
  /\ follows' = follows \ {<<TheRequest.user, TheRequest.other>>}
  /\ UNCHANGED <<blocks, published, delivery, posts, reactions, comments, job, room>>

Unblock ==
  /\ Ask("unblock")
  /\ blocks' = blocks \ {<<TheRequest.user, TheRequest.other>>}
  /\ UNCHANGED <<published, delivery, tables, job, room>>

RemoveReaction ==
  /\ Ask("unreact")
  /\ reactions' = reactions \ {<<TheRequest.post, TheRequest.user>>}
  /\ UNCHANGED <<blocks, published, delivery, follows, posts, comments, job, room>>

\* The author or a participant of the post.
MayDelete(u, c) == u = c.author \/ u \in Participants(c.post)

DeleteComment ==
  /\ Ask("deleteComment")
  /\ comments' = {IF c.id = TheRequest.number /\ MayDelete(TheRequest.user, c)
                  THEN [c EXCEPT !.deleted = TRUE] ELSE c : c \in comments}
  /\ UNCHANGED <<blocks, published, delivery, follows, posts, reactions, job, room>>

-----------------------------------------------------------------------------
Init ==
  /\ NotificationsInit
  /\ blocks = {}
  /\ follows \in FirstFollows
  /\ posts = [p \in Posts |-> [exists |-> p # Cardinality(Posts), visibility |-> "public",
                               hidden |-> FALSE]]
  /\ reactions = {} /\ comments = {}
  /\ job = [w \in Workers |-> Idle]
  /\ \E s \in Scenarios : requests = s.requests /\ room = s.news

Work(w) ==
  \/ Lock(w) \/ Check(w)
  \/ Follow(w) \/ Block(w) \/ RecordTransferPost(w) \/ SetReaction(w) \/ AddComment(w)
  \/ PublishNews(w) \/ ReloadPost(w) \/ SavePost(w)

Inbox ==
  /\ \/ \E u \in Users : MarkRead(u)
     \/ \E row \in inbox : DeleteExpired(row)
  /\ UNCHANGED <<tables, job, requests, room>>

Dispatch == Deliver /\ UNCHANGED <<tables, job, requests, room>>

Next ==
  \/ \E w \in Workers : Begin(w) \/ Work(w)
  \/ Unfollow \/ Unblock \/ RemoveReaction \/ DeleteComment
  \/ Dispatch
  \/ Inbox

Spec == Init /\ [][Next]_vars
  /\ \A w \in Workers : WF_vars(Work(w))
  /\ WF_vars(Dispatch)

SocialTypeOK ==
  /\ NotificationsTypeOK
  /\ follows \subseteq Users \X Users
  /\ reactions \subseteq Posts \X Users

-----------------------------------------------------------------------------
(* Properties *)

\* Neither of two users follows the other while a block stands between them,
\* however follow and block calls of the pair overlap.
BlockEndsTies ==
  \A u, v \in Users : IsBlockedBetween(u, v) => <<u, v>> \notin follows

\* A reaction or comment is committed only while no block stands between its
\* author and either participant: a block that commits during the request stops it.
ContactNeedsNoBlock ==
  [][\A p \in Posts, u \in Users :
       \/ <<p, u>> \in reactions' \ reactions
       \/ \E c \in comments' \ comments : ~c.deleted /\ c.post = p /\ c.author = u
       => NoBlockWithViewer(u, p)]_vars

\* No set of requests waits for each other's advisory locks for ever.
EveryRequestEnds == \A w \in Workers : job[w].pc # "idle" ~> job[w].pc = "idle"

\* A fault on one channel does not repeat the news on another: each time a
\* channel gets it again, a run of the event's own job or of one of its jobs on
\* that channel had failed or stalled.
ResentOnlyAfterFault ==
  \A e \in DOMAIN sent, c \in Channels : sent[e][c] <= 1 + hits[e][c]

\* News that was published is delivered on each of its channels, unless a block
\* stops it, or the event's job or the channel's has used up its attempts or its
\* stalls; what is run again loses nothing.
EventsSettle == \A e \in UNION {1..s.news : s \in Scenarios} :
  e \in DOMAIN published ~> e \in DOMAIN published /\ Settled(e)
=============================================================================
