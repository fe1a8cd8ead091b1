---------------------------- MODULE ReplyChannel ----------------------------
(* What MultiprocDiffusionExecutor.collective_rpc (executor/                 *)
(* multiproc_executor.py) promises whoever calls it, without its queues,     *)
(* workers and monitor: one call at a time, replies handed out oldest first  *)
(* and each of them once, and no link between a reply and the call it is     *)
(* given to but the order.  A call that gives up leaves its reply behind.    *)
EXTENDS Sequences, FiniteSets, Integers

CONSTANTS Item,     \* calls and executions
          NoReply

VARIABLES
    open,    \* new calls are accepted
    calls,   \* the calls that wait for a reply
    owed,    \* the calls whose reply has not been taken, oldest first
    got,     \* whose reply each call was given
    gaveUp   \* the calls that stopped waiting while the workers lived

chanVars == <<open, calls, owed, got, gaveUp>>

ChanInit ==
    /\ open = TRUE /\ calls = {} /\ owed = <<>> /\ gaveUp = {}
    /\ got = [i \in Item |-> NoReply]

\* The request is broadcast; nobody else is inside.
Issue(i) ==
    /\ open /\ calls = {} /\ got[i] = NoReply /\ i \notin gaveUp
    /\ calls' = {i}
    /\ owed' = Append(owed, i)
    /\ UNCHANGED <<open, got, gaveUp>>

Take(i) ==
    /\ i \in calls /\ owed # <<>>
    /\ got' = [got EXCEPT ![i] = Head(owed)]
    /\ owed' = Tail(owed)
    /\ calls' = calls \ {i}
    /\ UNCHANGED <<open, gaveUp>>

GiveUp(i) ==
    /\ i \in calls
    /\ calls' = calls \ {i}
    /\ gaveUp' = gaveUp \cup {i}
    /\ UNCHANGED <<open, owed, got>>

\* The executor is shut down, or its workers have died: what is still owed may
\* never come.
Shut == open' = FALSE /\ UNCHANGED <<calls, owed, got, gaveUp>>

ChanNext ==
    \/ \E i \in Item : Issue(i) \/ Take(i) \/ GiveUp(i)
    \/ Shut

ChanSpec == ChanInit /\ [][ChanNext]_chanVars

-----------------------------------------------------------------------------
\* Every call that gave up leaves one reply too many in the queue, and no later
\* call ever removes the excess: the channel does not resynchronise.
ReplyBalance == Len(owed) = Cardinality(gaveUp) + Cardinality(calls)

\* As long as nobody has given up, everyone is given the reply to its own call.
OwnReplyUntilGiveUp ==
    gaveUp = {} => \A i \in Item : got[i] \in {NoReply, i}
=============================================================================
