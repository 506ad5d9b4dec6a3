--------------------------- MODULE UpdateFeedProofs ---------------------------
(* What UpdateFeed promises, for every set of resources.                   *)
EXTENDS UpdateFeed, TLAPS

\* The log, the latest revisions and the feed speak of the same changes.
FeedInv ==
    /\ log \in Seq(Keys)
    /\ latest \in [Keys -> Nat]
    /\ store \in [Keys -> Nat]
    /\ feed \subseteq 1..Len(log)
    /\ \A k \in Keys : latest[k] # 0 => latest[k] \in 1..Len(log) /\ log[latest[k]] = k

LEMMA LongerInterval == \A n \in Nat : n + 1 \in 1..(n + 1) /\ 1..n \subseteq 1..(n + 1)
  OBVIOUS

LEMMA FeedInvNext == FeedInv /\ [Next]_vars => FeedInv'
<1> SUFFICES ASSUME FeedInv, [Next]_vars PROVE FeedInv'
  OBVIOUS
<1>0. /\ Len(log) \in Nat /\ log \in Seq(Keys)
      /\ latest \in [Keys -> Nat] /\ store \in [Keys -> Nat] /\ feed \subseteq 1..Len(log)
      /\ \A k \in Keys : latest[k] # 0 => latest[k] \in 1..Len(log) /\ log[latest[k]] = k
  BY DEF FeedInv
<1>1. ASSUME NEW k \in Keys, Change(k) PROVE FeedInv'
  <2>1. log' = Append(log, k) /\ latest' = [latest EXCEPT ![k] = Len(log) + 1] /\ store' = store
    BY <1>1 DEF Change
  <2>2. /\ log' \in Seq(Keys) /\ Len(log') = Len(log) + 1 /\ log'[Len(log) + 1] = k
        /\ \A r \in 1..Len(log) : log'[r] = log[r]
    BY <1>0, <2>1
  <2>3. 1..Len(log) \subseteq 1..Len(log') /\ Len(log) + 1 \in 1..Len(log')
    BY <1>0, <2>2, LongerInterval, Zenon
  <2>4. feed' \subseteq 1..Len(log')
    BY <1>0, <1>1, <2>3, Zenon DEF Change
  <2>5. latest' \in [Keys -> Nat]
    BY <1>0, <2>1
  <2>6. ASSUME NEW j \in Keys, latest'[j] # 0
        PROVE  latest'[j] \in 1..Len(log') /\ log'[latest'[j]] = j
    <3>1. CASE j = k
      <4>1. latest'[j] = Len(log) + 1
        BY <1>0, <2>1, <3>1
      <4> QED
        BY <4>1, <2>2, <2>3, <3>1
    <3>2. CASE j # k
      <4>1. latest'[j] = latest[j]
        BY <1>0, <2>1, <3>2
      <4>2. latest[j] \in 1..Len(log) /\ log[latest[j]] = j
        BY <1>0, <2>6, <4>1
      <4> QED
        BY <4>1, <4>2, <2>2, <2>3, Zenon
    <3> QED
      BY <3>1, <3>2
  <2> QED
    BY <1>0, <2>1, <2>2, <2>4, <2>5, <2>6, Zenon DEF FeedInv
<1>2. ASSUME NEW k \in Keys, Overwrite(k) \/ Copy(k) PROVE FeedInv'
  <2>1. UNCHANGED <<log, latest, feed>> /\ \E r \in Versions(k) : store' = [store EXCEPT ![k] = r]
    BY <1>2 DEF Overwrite, Copy
  <2>2. Versions(k) \subseteq Nat
    BY <1>0 DEF Versions
  <2>3. store' \in [Keys -> Nat]
    BY <1>0, <2>1, <2>2
  <2> QED
    BY <1>0, <2>1, <2>3 DEF FeedInv
<1>3. ASSUME NEW r \in feed, Deliver(r) PROVE FeedInv'
  <2>1. UNCHANGED <<log, latest>> /\ store' = [store EXCEPT ![log[r]] = r] /\ feed' = feed \ {r}
    BY <1>3 DEF Deliver
  <2>2. r \in Nat
    BY <1>0
  <2>3. store' \in [Keys -> Nat]
    BY <1>0, <2>1, <2>2, Zenon
  <2> QED
    BY <1>0, <2>1, <2>3 DEF FeedInv
<1>4. CASE Discard \/ UNCHANGED vars
  BY <1>4 DEF Discard, vars, FeedInv
<1> QED
  BY <1>1, <1>2, <1>3, <1>4 DEF Next

LEMMA NothingForgottenNext == FeedInv /\ NothingForgotten /\ [Next]_vars => NothingForgotten'
<1> SUFFICES ASSUME FeedInv, NothingForgotten, [Next]_vars, NEW j \in Keys
             PROVE  j \in owed' \/ store'[j] = latest'[j] \/ latest'[j] \in feed'
  BY DEF NothingForgotten
<1> USE DEF FeedInv, NothingForgotten
<1>1. ASSUME NEW k \in Keys, Change(k)
      PROVE  j \in owed' \/ store'[j] = latest'[j] \/ latest'[j] \in feed'
  <2>1. CASE j = k
    BY <1>1, <2>1 DEF Change
  <2>2. CASE j # k
    BY <1>1, <2>2 DEF Change
  <2> QED
    BY <2>1, <2>2
<1>2. ASSUME NEW k \in Keys, Overwrite(k) \/ Copy(k)
      PROVE  j \in owed' \/ store'[j] = latest'[j] \/ latest'[j] \in feed'
  <2>1. CASE j = k
    BY <1>2, <2>1 DEF Overwrite, Copy
  <2>2. CASE j # k
    BY <1>2, <2>2 DEF Overwrite, Copy
  <2> QED
    BY <2>1, <2>2
<1>3. ASSUME NEW r \in feed, Deliver(r)
      PROVE  j \in owed' \/ store'[j] = latest'[j] \/ latest'[j] \in feed'
  <2>0. r # 0
    BY DEF FeedInv
  <2>1. CASE j = log[r]
    BY <1>3, <2>1 DEF Deliver
  <2>2. CASE j # log[r]
    <3>1. latest[j] # r
      BY <2>0, <2>2
    <3> QED
      BY <1>3, <2>2, <3>1 DEF Deliver
  <2> QED
    BY <2>1, <2>2
<1>4. CASE Discard \/ UNCHANGED vars
  BY <1>4 DEF Discard, vars
<1> QED
  BY <1>1, <1>2, <1>3, <1>4 DEF Next

\* Whatever is discarded, overwritten or delivered late, every change that the
\* store has yet to see is still to come; with nothing to come it has them all.
THEOREM FeedForgetsNothing == Spec => [](NothingForgotten /\ SettledIsUpToDate)
<1>1. Init => FeedInv /\ NothingForgotten
  BY DEF Init, FeedInv, NothingForgotten
<1>2. FeedInv /\ NothingForgotten => SettledIsUpToDate
  <2> SUFFICES ASSUME FeedInv, NothingForgotten, feed = {}, owed = {} PROVE store = latest
    BY DEF SettledIsUpToDate
  <2>1. \A k \in Keys : store[k] = latest[k]
    BY DEF NothingForgotten
  <2> QED
    BY <2>1 DEF FeedInv
<1> QED
  BY <1>1, <1>2, FeedInvNext, NothingForgottenNext, PTL DEF Spec
=============================================================================
