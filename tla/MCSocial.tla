------------------------------ MODULE MCSocial ------------------------------
EXTENDS Social

\* Two posts between 2 and 3, which user 1 may read, and one of a transfer to come.
MCParties == <<[sender |-> 3, recipient |-> 2], [sender |-> 2, recipient |-> 3],
               [sender |-> 1, recipient |-> 2]>>

MCFirstFollows == {{}, {<<1, 2>>}}

follow(u, v) == [op |-> "follow", user |-> u, other |-> v]
blockBy2 == [op |-> "block", user |-> 2, other |-> 1]
unblock == [op |-> "unblock", user |-> 2, other |-> 1]
react(p) == [op |-> "react", user |-> 1, post |-> p]
comment(p) == [op |-> "comment", user |-> 1, post |-> p, number |-> p]

transfer == [op |-> "transfer", user |-> 1, other |-> 2, post |-> 3, to |-> "public"]
unreact(p) == [op |-> "unreact", user |-> 1, post |-> p]

\* Ties against blocks, contact against blocks, the life of a post, and news on
\* its way while a block may come in between.
MCScenarios ==
  {[requests |-> {follow(1, 2), follow(1, 3), blockBy2, unblock}, news |-> 0],
   [requests |-> {[op |-> "unfollow", user |-> 1, other |-> 2], follow(1, 3), follow(2, 1),
                  blockBy2}, news |-> 0],
   [requests |-> {react(1), comment(2), blockBy2, unblock}, news |-> 0],
   [requests |-> {transfer,
                  [op |-> "setVisibility", user |-> 1, post |-> 3, to |-> "private"],
                  [op |-> "setHidden", user |-> 2, post |-> 3, to |-> TRUE], blockBy2}, news |-> 0],
   [requests |-> {react(1), unreact(1), comment(1),
                  [op |-> "deleteComment", user |-> 3, number |-> 1]}, news |-> 0],
   [requests |-> {follow(1, 2), blockBy2}, news |-> 1],
   [requests |-> {react(1)}, news |-> 2]}
=============================================================================
