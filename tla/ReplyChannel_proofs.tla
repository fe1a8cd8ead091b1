------------------------- MODULE ReplyChannel_proofs -------------------------
(* Proofs about ReplyChannel, for any calls: its queue never resynchronises, *)
(* and is in step until somebody gives up.  Whatever implements the channel  *)
(* inherits both.                                                            *)
EXTENDS ReplyChannel, FiniteSetTheorems, SequenceTheorems, TLAPS

ChanTypeInv ==
    /\ open \in BOOLEAN
    /\ calls \in SUBSET Item /\ gaveUp \in SUBSET Item
    /\ owed \in Seq(Item)
    /\ got \in [Item -> Item \cup {NoReply}]

\* One caller at a most, who has not given up; those who have are finitely many.
OneCaller ==
    /\ \A i, j \in calls : i = j
    /\ calls \cap gaveUp = {}
    /\ IsFiniteSet(gaveUp)

\* Until somebody gives up the queue holds what its caller waits for.
InStep ==
    gaveUp = {} =>
        /\ calls = {} => owed = <<>>
        /\ \A i \in calls : owed = <<i>>
        /\ \A i \in Item : got[i] \in {NoReply, i}

ChanInv == ChanTypeInv /\ OneCaller /\ ReplyBalance /\ InStep

-----------------------------------------------------------------------------
LEMMA ChanInitInv == ChanInit => ChanInv
BY FS_EmptySet, EmptySeq
   DEF ChanInit, ChanInv, ChanTypeInv, OneCaller, ReplyBalance, InStep

LEMMA IssueInv ==
    ASSUME ChanInv, NEW i \in Item, Issue(i)
    PROVE  ChanInv'
<1> USE DEF ChanInv, Issue
<1>1. Append(owed, i) \in Seq(Item) /\ Len(Append(owed, i)) = Len(owed) + 1 /\ Len(owed) \in Nat
      BY DEF ChanTypeInv
<1>2. ChanTypeInv'
      BY <1>1 DEF ChanTypeInv
<1>3. OneCaller'
      BY DEF OneCaller
<1>4. ReplyBalance'
      <2>1. Cardinality(calls) = 0 /\ Cardinality(calls') = 1
            BY FS_EmptySet, FS_Singleton
      <2>2. Cardinality(gaveUp) \in Nat
            BY FS_CardinalityType DEF OneCaller
      <2>3. Len(owed') = Len(owed) + 1 /\ Cardinality(gaveUp') = Cardinality(gaveUp)
            BY <1>1
      <2>4. Len(owed) = Cardinality(gaveUp) + Cardinality(calls)
            BY DEF ReplyBalance
      <2> HIDE DEF Issue, ChanInv
      <2> QED BY <1>1, <2>1, <2>2, <2>3, <2>4 DEF ReplyBalance
<1>5. InStep'
      BY DEF InStep
<1> QED BY <1>2, <1>3, <1>4, <1>5

LEMMA TakeInv ==
    ASSUME ChanInv, NEW i \in Item, Take(i)
    PROVE  ChanInv'
<1> USE DEF ChanInv, Take
<1>1. Tail(owed) \in Seq(Item) /\ Len(Tail(owed)) = Len(owed) - 1 /\ Head(owed) \in Item
      BY HeadTailProperties DEF ChanTypeInv
<1>2. ChanTypeInv'
      BY <1>1 DEF ChanTypeInv
<1>3. calls = {i} /\ calls' = {}
      BY DEF OneCaller
<1>4. OneCaller'
      BY <1>3 DEF OneCaller
<1>5. ReplyBalance'
      <2>1. Cardinality(calls) = 1 /\ Cardinality(calls') = 0
            BY <1>3, FS_EmptySet, FS_Singleton
      <2>2. Cardinality(gaveUp) \in Nat /\ Len(owed) \in Nat
            BY FS_CardinalityType DEF OneCaller, ChanTypeInv
      <2> QED BY <1>1, <2>1, <2>2 DEF ReplyBalance
<1>6. InStep'
      <2> SUFFICES ASSUME gaveUp = {} PROVE InStep'
          BY DEF InStep
      <2>1. owed = <<i>>
            BY DEF InStep
      <2>2. Head(owed) = i /\ Tail(owed) = <<>>
            BY <2>1
      <2> QED BY <1>3, <2>2 DEF InStep, ChanTypeInv
<1> QED BY <1>2, <1>4, <1>5, <1>6

LEMMA GiveUpInv ==
    ASSUME ChanInv, NEW i \in Item, GiveUp(i)
    PROVE  ChanInv'
<1> USE DEF ChanInv, GiveUp
<1>1. ChanTypeInv'
      BY DEF ChanTypeInv
<1>2. calls = {i} /\ calls' = {} /\ i \notin gaveUp
      BY DEF OneCaller
<1>3. IsFiniteSet(gaveUp') /\ Cardinality(gaveUp') = Cardinality(gaveUp) + 1
      BY <1>2, FS_AddElement DEF OneCaller
<1>4. OneCaller'
      BY <1>2, <1>3 DEF OneCaller
<1>5. ReplyBalance'
      <2>1. Cardinality(calls) = 1 /\ Cardinality(calls') = 0
            BY <1>2, FS_EmptySet, FS_Singleton
      <2>2. Cardinality(gaveUp) \in Nat /\ Len(owed) \in Nat
            BY FS_CardinalityType DEF OneCaller, ChanTypeInv
      <2> QED BY <1>3, <2>1, <2>2 DEF ReplyBalance
<1>6. InStep'
      BY DEF InStep
<1> QED BY <1>1, <1>4, <1>5, <1>6

LEMMA ChanNextInv == ChanInv /\ [ChanNext]_chanVars => ChanInv'
<1> SUFFICES ASSUME ChanInv, [ChanNext]_chanVars PROVE ChanInv'
    OBVIOUS
<1>1. ASSUME NEW i \in Item, Issue(i) PROVE ChanInv'
      BY <1>1, IssueInv
<1>2. ASSUME NEW i \in Item, Take(i) PROVE ChanInv'
      BY <1>2, TakeInv
<1>3. ASSUME NEW i \in Item, GiveUp(i) PROVE ChanInv'
      BY <1>3, GiveUpInv
<1>4. CASE Shut
      BY <1>4 DEF Shut, ChanInv, ChanTypeInv, OneCaller, ReplyBalance, InStep
<1>5. CASE UNCHANGED chanVars
      BY <1>5 DEF chanVars, ChanInv, ChanTypeInv, OneCaller, ReplyBalance, InStep
<1> QED BY <1>1, <1>2, <1>3, <1>4, <1>5 DEF ChanNext

LEMMA ChanInvariant == ChanSpec => []ChanInv
BY ChanInitInv, ChanNextInv, PTL DEF ChanSpec

-----------------------------------------------------------------------------
\* Every call that gave up leaves one reply too many for good: the number of
\* outstanding replies is the number of such calls, plus the one that waits.
THEOREM ChannelKeepsBalance == ChanSpec => []ReplyBalance
BY ChanInvariant, PTL DEF ChanInv

\* Until somebody gives up, every reply is given to the call it answers.
THEOREM ChannelOwnReply == ChanSpec => []OwnReplyUntilGiveUp
<1>1. ChanInv => OwnReplyUntilGiveUp
      BY DEF ChanInv, InStep, OwnReplyUntilGiveUp
<1> QED BY <1>1, ChanInvariant, PTL
=============================================================================
