---------------------------- MODULE DashboardProofs ----------------------------
(***************************************************************************)
(* Proofs about the dashboard: a decision stays made whatever the second    *)
(* handler of a button calls, and what refreshes that overlap leave in the  *)
(* list is what the rows say, or marked as older than the newest refresh.   *)
(***************************************************************************)
EXTENDS Dashboard, SequenceTheorems, TLAPS

(* A request that this page decided stays decided.                          *)
Final == \A r \in accepted \cup decided : status[r] \in Decisions

(* No refresh lists a request that was not submitted.                       *)
Lists ==
  \A i \in DOMAIN refreshes, r \in Requests :
    status[r] = "none" => refreshes[i].list[r] = "none"

(* A refresh will show r as it is: it has not read it yet, or it has read   *)
(* it as it is.                                                             *)
Good(r, f) == f.pc = "load" \/ f.list[r] \in {status[r], "none"}

NewestIsGood(r) ==
  /\ refreshes # <<>>
  /\ Good(r, refreshes[Len(refreshes)]) /\ ~refreshes[Len(refreshes)].overtaken

(* What a stale refresh shows is put right by the newest one, unless the    *)
(* stale one knows that it is overtaken.                                    *)
Remedied(r) ==
  /\ shown[r] \in {status[r], "none"} \/ behind \/ NewestIsGood(r)
  /\ \A i \in DOMAIN refreshes :
       Good(r, refreshes[i]) \/ refreshes[i].overtaken \/ NewestIsGood(r)

DashboardInv == TypeOK /\ Final /\ Lists /\ \A r \in decided : Remedied(r)

-----------------------------------------------------------------------------
Marked(f) == [f EXCEPT !.overtaken = TRUE]
Overtaken(s, i) == [j \in DOMAIN s |-> IF j < i THEN Marked(s[j]) ELSE s[j]]

LEMMA MarkedProperties ==
  ASSUME NEW f \in Refresh
  PROVE  /\ Marked(f) \in Refresh /\ Marked(f).overtaken
         /\ Marked(f).pc = f.pc /\ Marked(f).list = f.list
BY DEF Refresh, Marked

(* A refresh that is over leaves those before it marked, and moves those    *)
(* after it down.                                                           *)
LEMMA OverProperties ==
  ASSUME NEW s \in Seq(Refresh), NEW i \in 1 .. Len(s), NEW t,
         t = RemoveAt(Overtaken(s, i), i)
  PROVE  /\ t \in Seq(Refresh) /\ Len(t) = Len(s) - 1
         /\ DOMAIN t = 1 .. (Len(s) - 1)
         /\ \A j \in 1 .. (Len(s) - 1) :
              t[j] = IF j < i THEN Marked(s[j]) ELSE s[j + 1]
<1> DEFINE o == Overtaken(s, i)
           a == SubSeq(o, 1, i - 1)
           b == SubSeq(o, i + 1, Len(s))
<1>1. /\ Len(s) \in Nat /\ DOMAIN s = 1 .. Len(s)
      /\ \A j \in 1 .. Len(s) : s[j] \in Refresh /\ Marked(s[j]) \in Refresh
  BY LenProperties, ElementOfSeq, MarkedProperties
<1>2. o \in [1 .. Len(s) -> Refresh]
  BY <1>1 DEF Overtaken
<1>3. o \in Seq(Refresh) /\ Len(o) = Len(s)
  BY <1>1, <1>2
<1>4. \A j \in 1 .. Len(s) : o[j] = IF j < i THEN Marked(s[j]) ELSE s[j]
  BY <1>1 DEF Overtaken
<1> HIDE DEF o
<1>5. /\ a \in Seq(Refresh) /\ Len(a) = i - 1
      /\ \A j \in 1 .. (i - 1) : a[j] = o[j]
  <2>1. \A j \in 1 .. (i - 1) : o[j] \in Refresh
    BY <1>1, <1>2
  <2> QED
    BY <1>1, <2>1, SubSeqProperties
<1>6. /\ b \in Seq(Refresh) /\ Len(b) = Len(s) - i
      /\ \A j \in 1 .. (Len(s) - i) : b[j] = o[i + j]
  <2>1. \A j \in (i + 1) .. Len(s) : o[j] \in Refresh
    BY <1>1, <1>2
  <2>2. i + 1 \in Int /\ Len(s) \in Int
    BY <1>1
  <2>3. /\ b \in Seq(Refresh)
        /\ Len(b) = IF i + 1 <= Len(s) THEN Len(s) - (i + 1) + 1 ELSE 0
        /\ \A j \in 1 .. (Len(s) - (i + 1) + 1) : b[j] = o[(i + 1) + j - 1]
    BY <2>1, <2>2, SubSeqProperties
  <2> HIDE DEF b
  <2>4. Len(b) = Len(s) - i
    <3>1. Len(s) \in Nat /\ i \in 1 .. Len(s)
      BY <1>1
    <3>2. (IF i + 1 <= Len(s) THEN Len(s) - (i + 1) + 1 ELSE 0) = Len(s) - i
      BY <3>1
    <3> QED
      BY <2>3, <3>2
  <2>5. ASSUME NEW j \in 1 .. (Len(s) - i) PROVE b[j] = o[i + j]
    <3>1. j \in 1 .. (Len(s) - (i + 1) + 1) /\ (i + 1) + j - 1 = i + j
      BY <1>1
    <3>2. b[j] = o[(i + 1) + j - 1]
      BY <2>3, <3>1
    <3> QED
      BY <3>1, <3>2
  <2> QED
    BY <2>3, <2>4, <2>5
<1> HIDE DEF a, b
<1>7. /\ a \o b \in Seq(Refresh) /\ Len(a \o b) = Len(s) - 1
      /\ DOMAIN (a \o b) = 1 .. (Len(s) - 1)
      /\ \A j \in 1 .. (Len(s) - 1) :
           (a \o b)[j] = IF j <= i - 1 THEN a[j] ELSE b[j - (i - 1)]
  <2>1. /\ a \o b \in Seq(Refresh) /\ Len(a \o b) = Len(a) + Len(b)
        /\ \A j \in 1 .. (Len(a) + Len(b)) :
             (a \o b)[j] = IF j <= Len(a) THEN a[j] ELSE b[j - Len(a)]
    BY <1>5, <1>6, ConcatProperties
  <2>2. Len(a) = i - 1 /\ Len(b) = Len(s) - i
    BY <1>5, <1>6
  <2>3. Len(a) + Len(b) = Len(s) - 1
    BY <1>1, <2>2
  <2>4. DOMAIN (a \o b) = 1 .. Len(a \o b)
    BY <2>1, LenProperties
  <2> QED
    BY <2>1, <2>2, <2>3, <2>4
<1>9. ASSUME NEW j \in 1 .. (Len(s) - 1)
      PROVE  (a \o b)[j] = IF j < i THEN Marked(s[j]) ELSE s[j + 1]
  <2>1. (a \o b)[j] = IF j <= i - 1 THEN a[j] ELSE b[j - (i - 1)]
    BY <1>1, <1>7
  <2>2. CASE j < i
    BY <1>1, <1>4, <1>5, <2>1, <2>2
  <2>3. CASE ~(j < i)
    <3>1. j - (i - 1) \in 1 .. (Len(s) - i) /\ i + (j - (i - 1)) = j + 1
          /\ j + 1 \in 1 .. Len(s) /\ ~(j + 1 < i) /\ ~(j <= i - 1)
      BY <1>1, <2>3
    <3>2. b[j - (i - 1)] = o[j + 1]
      BY <1>6, <3>1
    <3>3. o[j + 1] = s[j + 1]
      BY <1>4, <3>1
    <3> QED
      BY <2>1, <2>3, <3>1, <3>2, <3>3
  <2> QED
    BY <2>2, <2>3
<1>10. RemoveAt(o, i) = a \o b
  BY <1>3 DEF RemoveAt, a, b
<1>11. t = a \o b
  BY <1>10 DEF o
<1> QED
  BY <1>7, <1>9, <1>11

-----------------------------------------------------------------------------
(* The rows of requests only move forward, and what the list and the        *)
(* refreshes know of a decision stays so.                                   *)
Forward ==
  /\ status' \in [Requests -> Statuses]
  /\ \A r \in Requests : /\ status[r] \in Decisions => status'[r] = status[r]
                         /\ status[r] # "none" => status'[r] # "none"

LEMMA DecideForward ==
  ASSUME TypeOK, NEW r \in Requests, NEW d \in Decisions, Decide(r, d)
  PROVE  Forward /\ status'[r] = d
BY DEF TypeOK, Decide, Forward, Statuses, Decisions

LEMMA RowsKeep ==
  ASSUME DashboardInv, Forward,
         calls' \in [Requests -> [Decisions -> 0 .. MaxCalls]],
         accepted' \subseteq Requests,
         \A r \in accepted' : r \in accepted \/ status'[r] \in Decisions,
         UNCHANGED page
  PROVE  DashboardInv'
<1>1. TypeOK /\ Final /\ Lists /\ \A r \in decided : Remedied(r)
  BY DEF DashboardInv
<1>2. UNCHANGED <<decided, refreshes, shown, behind>>
  BY DEF page
<1>3. TypeOK'
  BY <1>1, <1>2 DEF TypeOK, Forward
<1>4. Final'
  BY <1>1, <1>2 DEF Final, Forward, TypeOK
<1>5. Lists'
  BY <1>1, <1>2 DEF Lists, Forward
<1>6. \A r \in decided : status[r] \in Decisions /\ status'[r] = status[r]
  BY <1>1 DEF Final, Forward, TypeOK
<1>7. \A r \in decided : Remedied(r)'
  BY <1>1, <1>2, <1>6 DEF Remedied, NewestIsGood, Good
<1> QED
  BY <1>2, <1>3, <1>4, <1>5, <1>7 DEF DashboardInv

(* A refresh begins: it is the newest, and will read what there is.         *)
LEMMA StartKeeps ==
  ASSUME DashboardInv, StartRefresh, UNCHANGED <<status, calls, shown>>,
         accepted' \subseteq accepted, decided' \subseteq accepted \cup decided
  PROVE  DashboardInv'
<1> DEFINE f == [pc |-> "load", list |-> [r \in Requests |-> "none"],
                 overtaken |-> FALSE]
           n == Len(refreshes) + 1
<1>1. TypeOK /\ Final /\ Lists
  BY DEF DashboardInv
<1>2. /\ refreshes' = Append(refreshes, f) /\ behind' = FALSE
      /\ UNCHANGED <<status, calls, shown>>
      /\ n <= MaxRefreshes
  <2>1. Len(refreshes) \in Nat /\ Len(refreshes) < MaxRefreshes
    BY <1>1 DEF StartRefresh, TypeOK
  <2>2. n <= MaxRefreshes
    BY <2>1, DashboardAssumption
  <2> QED
    BY <2>2 DEF StartRefresh
<1>3. /\ f \in Refresh /\ f.pc = "load" /\ ~f.overtaken
      /\ \A r \in Requests : f.list[r] = "none"
  BY DEF Refresh, Statuses
<1> HIDE DEF f
<1>4. refreshes \in Seq(Refresh) /\ Len(refreshes) \in Nat
  BY <1>1 DEF TypeOK
<1>5. /\ refreshes' \in Seq(Refresh) /\ Len(refreshes') = n /\ refreshes' # <<>>
      /\ DOMAIN refreshes' = 1 .. n /\ refreshes'[n] = f
      /\ \A i \in 1 .. Len(refreshes) : refreshes'[i] = refreshes[i]
      /\ DOMAIN refreshes = 1 .. Len(refreshes)
  BY <1>2, <1>3, <1>4
<1>6. TypeOK'
  <2>1. Len(refreshes') <= MaxRefreshes
    BY <1>2, <1>5
  <2>2. refreshes' \in Seq(Refresh) /\ behind' \in BOOLEAN
    BY <1>2, <1>5
  <2>3. accepted' \subseteq Requests /\ decided' \subseteq Requests
    BY <1>1 DEF TypeOK
  <2> QED
    BY <1>1, <1>2, <2>1, <2>2, <2>3 DEF TypeOK
<1>7. Final'
  BY <1>1, <1>2 DEF Final
<1>8. Lists'
  <2>1. ASSUME NEW i \in 1 .. n, NEW r \in Requests, status[r] = "none"
        PROVE  refreshes'[i].list[r] = "none"
    <3>1. CASE i = n
      BY <1>3, <1>5, <3>1
    <3>2. CASE i # n
      <4>1. i \in DOMAIN refreshes /\ refreshes'[i] = refreshes[i]
        BY <1>4, <1>5, <3>2
      <4> QED
        BY <1>1, <2>1, <4>1 DEF Lists
    <3> QED
      BY <3>1, <3>2
  <2> QED
    BY <1>2, <1>5, <2>1 DEF Lists
<1>9. \A r : NewestIsGood(r)'
  BY <1>3, <1>5 DEF NewestIsGood, Good
<1> QED
  BY <1>6, <1>7, <1>8, <1>9 DEF DashboardInv, Remedied

(* A refresh reads the list.                                                *)
LEMMA LoadKeeps ==
  ASSUME DashboardInv, NEW i \in DOMAIN refreshes, LoadHwidRequests(i)
  PROVE  DashboardInv'
<1> DEFINE f == [refreshes[i] EXCEPT !.pc = "render", !.list = Loaded]
<1>1. TypeOK /\ Final /\ Lists /\ \A r \in decided : Remedied(r)
  BY DEF DashboardInv
<1>2. /\ refreshes \in Seq(Refresh) /\ refreshes[i] \in Refresh
      /\ DOMAIN refreshes = 1 .. Len(refreshes) /\ Len(refreshes) \in Nat
  BY <1>1, LenProperties, ElementOfSeq DEF TypeOK
<1>3. /\ refreshes' = [refreshes EXCEPT ![i] = f]
      /\ UNCHANGED <<status, calls, accepted, decided, shown, behind>>
  BY <1>2 DEF LoadHwidRequests
<1>4. /\ Loaded \in [Requests -> Statuses]
      /\ \A r \in Requests : /\ Loaded[r] \in {status[r], "none"}
  BY <1>1 DEF Loaded, TypeOK, Statuses
<1>5. /\ f \in Refresh /\ f.list = Loaded
      /\ f.overtaken = refreshes[i].overtaken
  BY <1>2, <1>4 DEF Refresh
<1> HIDE DEF f
<1>6. /\ refreshes' \in Seq(Refresh) /\ Len(refreshes') = Len(refreshes)
      /\ DOMAIN refreshes' = DOMAIN refreshes
      /\ refreshes'[i] = f
      /\ \A j \in DOMAIN refreshes : j # i => refreshes'[j] = refreshes[j]
      /\ refreshes # <<>> /\ refreshes' # <<>>
  BY <1>2, <1>3, <1>5, ExceptSeq
<1>7. TypeOK'
  BY <1>1, <1>3, <1>6 DEF TypeOK
<1>8. Final'
  BY <1>1, <1>3 DEF Final
<1>9. Lists'
  BY <1>1, <1>3, <1>4, <1>5, <1>6 DEF Lists
<1>10. ASSUME NEW r \in decided PROVE Remedied(r)'
  <2>1. r \in Requests /\ Remedied(r)
    BY <1>1 DEF TypeOK
  <2>2. ASSUME NEW j \in DOMAIN refreshes
        PROVE  /\ Good(r, refreshes[j]) => Good(r, refreshes[j])'
               /\ refreshes'[j].overtaken = refreshes[j].overtaken
    BY <1>3, <1>4, <1>5, <1>6, <2>1 DEF Good
  <2>3. NewestIsGood(r) => NewestIsGood(r)'
    <3>1. Len(refreshes) \in DOMAIN refreshes
      BY <1>2, <1>6
    <3> QED
      BY <1>6, <2>2, <3>1 DEF NewestIsGood, Good
  <2> QED
    BY <1>3, <1>6, <2>1, <2>2, <2>3 DEF Remedied, Good
<1> QED
  BY <1>3, <1>7, <1>8, <1>9, <1>10 DEF DashboardInv

(* A refresh is over: it renders what it read, or it fails.                 *)
Renders(i) ==
  /\ refreshes[i].pc = "render"
  /\ shown' = refreshes[i].list /\ behind' = refreshes[i].overtaken
Gives(i) ==
  /\ UNCHANGED shown
  /\ behind' = (behind \/ (i = Len(refreshes) /\ ~refreshes[i].overtaken))

LEMMA OverKeeps ==
  ASSUME DashboardInv, NEW i \in DOMAIN refreshes, Over(i),
         UNCHANGED <<status, calls, accepted, decided>>, Renders(i) \/ Gives(i)
  PROVE  DashboardInv'
<1> DEFINE n == Len(refreshes)
           f == refreshes[n]
<1>1. TypeOK /\ Final /\ Lists /\ \A r \in decided : Remedied(r)
  BY DEF DashboardInv
<1>2. refreshes \in Seq(Refresh) /\ i \in 1 .. n /\ n \in Nat
      /\ DOMAIN refreshes = 1 .. n
  BY <1>1, LenProperties DEF TypeOK
<1>3. \A j \in 1 .. n : refreshes[j] \in Refresh
  BY <1>2, ElementOfSeq
<1>4. refreshes' = RemoveAt(Overtaken(refreshes, i), i)
  BY DEF Over, Overtaken, Marked
<1>5. /\ refreshes' \in Seq(Refresh) /\ Len(refreshes') = n - 1
      /\ DOMAIN refreshes' = 1 .. (n - 1)
      /\ \A j \in 1 .. (n - 1) :
           refreshes'[j] = IF j < i THEN Marked(refreshes[j]) ELSE refreshes[j + 1]
  BY <1>2, <1>4, OverProperties
<1>6. UNCHANGED <<status, calls, accepted, decided>>
  OBVIOUS
<1>7. ASSUME NEW j \in 1 .. (n - 1)
      PROVE  \/ /\ j < i /\ refreshes'[j].pc = refreshes[j].pc
                /\ refreshes'[j].list = refreshes[j].list /\ refreshes'[j].overtaken
             \/ refreshes'[j] = refreshes[j + 1] /\ j + 1 \in 1 .. n
  BY <1>2, <1>3, <1>5, MarkedProperties
<1>8. /\ shown' \in [Requests -> Statuses] /\ behind' \in BOOLEAN
      /\ \A r \in Requests : status[r] = "none" => shown'[r] = "none"
  <2>1. /\ refreshes[i].list \in [Requests -> Statuses]
        /\ refreshes[i].overtaken \in BOOLEAN
    BY <1>2, <1>3 DEF Refresh
  <2> QED
    BY <1>1, <1>2, <2>1 DEF Renders, Gives, TypeOK, Lists
<1>9. TypeOK'
  <2>1. Len(refreshes') <= MaxRefreshes
    BY <1>1, <1>2, <1>5, DashboardAssumption DEF TypeOK
  <2> QED
    BY <1>1, <1>5, <1>6, <1>8, <2>1 DEF TypeOK
<1>10. Final'
  BY <1>1, <1>6 DEF Final
<1>11. Lists'
  <2>1. ASSUME NEW j \in 1 .. (n - 1), NEW r \in Requests, status[r] = "none"
        PROVE  refreshes'[j].list[r] = "none"
    <3>1. j \in DOMAIN refreshes
      BY <1>2
    <3> QED
      BY <1>1, <1>2, <1>7, <2>1, <3>1 DEF Lists
  <2> QED
    BY <1>5, <1>6, <2>1 DEF Lists
<1>12. ASSUME NEW r \in decided PROVE Remedied(r)'
  <2>1. /\ Remedied(r) /\ UNCHANGED status
        /\ \A j \in 1 .. n : Good(r, refreshes[j]) \/ refreshes[j].overtaken
                             \/ NewestIsGood(r)
    BY <1>1, <1>2, <1>6 DEF Remedied
  <2>2. ASSUME NEW j \in 1 .. (n - 1)
        PROVE  Good(r, refreshes'[j]) \/ refreshes'[j].overtaken
               \/ (i # n /\ NewestIsGood(r))
    <3>1. CASE refreshes'[j] = refreshes[j + 1] /\ j + 1 \in 1 .. n
      <4>1. \/ Good(r, refreshes[j + 1]) \/ refreshes[j + 1].overtaken
            \/ NewestIsGood(r)
        BY <2>1, <3>1
      <4>2. CASE i = n
        <5>1. j < i
          BY <1>2, <4>2
        <5> QED
          BY <1>5, <1>2, <1>3, <5>1, MarkedProperties
      <4> QED
        BY <2>1, <3>1, <4>1, <4>2 DEF Good
    <3> QED
      BY <1>7, <3>1
  <2>3. ASSUME i # n, NewestIsGood(r) PROVE NewestIsGood(r)'
    <3>1. n - 1 \in 1 .. (n - 1) /\ ~(n - 1 < i) /\ (n - 1) + 1 = n
      BY <1>2, <2>3
    <3>2. refreshes'[n - 1] = refreshes[n]
      BY <1>5, <3>1
    <3>3. refreshes' # <<>>
      BY <1>5, <3>1
    <3> QED
      BY <1>5, <2>1, <2>3, <3>2, <3>3 DEF NewestIsGood, Good
  <2>4. shown'[r] \in {status[r], "none"} \/ behind' \/ (i # n /\ NewestIsGood(r))
    <3>1. CASE Renders(i)
      <4>1. Good(r, refreshes[i]) \/ refreshes[i].overtaken \/ NewestIsGood(r)
        BY <1>2, <2>1
      <4>2. CASE i = n /\ NewestIsGood(r)
        BY <3>1, <4>2 DEF Renders, Good, NewestIsGood
      <4> QED
        BY <3>1, <4>1, <4>2 DEF Renders, Good
    <3>2. CASE Gives(i)
      BY <2>1, <3>2 DEF Gives, Remedied, NewestIsGood
    <3> QED
      BY <3>1, <3>2
  <2>5. shown'[r] \in {status'[r], "none"} \/ behind' \/ NewestIsGood(r)'
    BY <2>1, <2>3, <2>4
  <2>6. \A j \in 1 .. (n - 1) :
          Good(r, refreshes[j])' \/ refreshes'[j].overtaken \/ NewestIsGood(r)'
    BY <2>1, <2>2, <2>3 DEF Good
  <2> QED
    BY <1>5, <2>5, <2>6 DEF Remedied
<1> QED
  BY <1>6, <1>9, <1>10, <1>11, <1>12 DEF DashboardInv

-----------------------------------------------------------------------------
LEMMA InitDashboard == Init => DashboardInv
<1> SUFFICES ASSUME Init PROVE DashboardInv
  OBVIOUS
<1>1. <<>> \in Seq(Refresh) /\ Len(<<>>) = 0
  BY EmptySeq
<1>2. TypeOK
  <2>1. refreshes \in Seq(Refresh) /\ Len(refreshes) <= MaxRefreshes
    BY <1>1, DashboardAssumption DEF Init
  <2>2. calls \in [Requests -> [Decisions -> 0 .. MaxCalls]]
    BY DashboardAssumption DEF Init
  <2>3. /\ status \in [Requests -> Statuses] /\ shown \in [Requests -> Statuses]
        /\ \A r \in Requests : shown[r] = "none"
    BY DEF Init, Statuses
  <2> QED
    BY <2>1, <2>2, <2>3 DEF Init, TypeOK
<1>3. DOMAIN refreshes = {} /\ accepted = {} /\ decided = {}
  BY DEF Init
<1> QED
  BY <1>2, <1>3 DEF DashboardInv, Final, Lists

LEMMA NextDashboard == ASSUME DashboardInv, [Next]_vars PROVE DashboardInv'
<1>1. TypeOK
  BY DEF DashboardInv
<1>2. ASSUME NEW r \in Requests, SubmitPublicHwidRequest(r) PROVE DashboardInv'
  BY <1>1, <1>2, RowsKeep
     DEF SubmitPublicHwidRequest, Forward, TypeOK, Statuses, Decisions
<1>3. ASSUME NEW r \in Requests, NEW d \in Decisions, DecideElsewhere(r, d)
      PROVE  DashboardInv'
  BY <1>1, <1>3, DecideForward, RowsKeep DEF DecideElsewhere, TypeOK
<1>4. ASSUME NEW r \in Requests, NEW d \in Decisions, Click(r, d)
      PROVE  DashboardInv'
  <2>1. calls' \in [Requests -> [Decisions -> 0 .. MaxCalls]]
    <3>1. calls[r] \in [Decisions -> 0 .. MaxCalls] /\ calls[r][d] + 2 <= MaxCalls
      BY <1>1, <1>4 DEF Click, TypeOK
    <3>2. calls[r][d] + 2 \in 0 .. MaxCalls
      BY <3>1, DashboardAssumption
    <3> QED
      BY <1>1, <1>4, <3>1, <3>2 DEF Click, Handlers, TypeOK
  <2> QED
    BY <1>1, <1>4, <2>1, RowsKeep DEF Click, Forward, TypeOK
<1>5. ASSUME NEW r \in Requests, NEW d \in Decisions, CallEnds(r, d)
      PROVE  calls' \in [Requests -> [Decisions -> 0 .. MaxCalls]]
  <2>1. calls[r] \in [Decisions -> 0 .. MaxCalls] /\ calls[r][d] > 0
    BY <1>1, <1>5 DEF CallEnds, TypeOK
  <2>2. calls[r][d] - 1 \in 0 .. MaxCalls
    BY <2>1, DashboardAssumption
  <2> QED
    BY <1>1, <1>5, <2>1, <2>2 DEF CallEnds, TypeOK
<1>6. ASSUME NEW r \in Requests, NEW d \in Decisions, CallDecides(r, d)
      PROVE  DashboardInv'
  <2>1. Forward /\ status'[r] = d
    BY <1>1, <1>6, DecideForward DEF CallDecides
  <2>2. /\ accepted' \subseteq Requests
        /\ \A q \in accepted' : q \in accepted \/ status'[q] \in Decisions
    BY <1>1, <1>6, <2>1 DEF CallDecides, TypeOK
  <2> QED
    BY <1>5, <1>6, <2>1, <2>2, RowsKeep DEF CallDecides
<1>7. ASSUME NEW r \in Requests, NEW d \in Decisions, CallFails(r, d)
      PROVE  DashboardInv'
  <2>1. Forward
    BY <1>1, <1>7, DecideForward DEF CallFails, Forward, TypeOK
  <2> QED
    BY <1>1, <1>5, <1>7, <2>1, RowsKeep DEF CallFails, TypeOK
<1>8. ASSUME NEW r \in Requests, ReplyArrives(r) PROVE DashboardInv'
  BY <1>8, StartKeeps DEF ReplyArrives, RefreshAfterDecision
<1>9. CASE OtherRefresh
  BY <1>9, StartKeeps DEF OtherRefresh
<1>10. ASSUME NEW i \in DOMAIN refreshes, Render(i) PROVE DashboardInv'
  BY <1>10, OverKeeps DEF Render, Rendered, Renders
<1>11. ASSUME NEW i \in DOMAIN refreshes, RefreshFails(i) PROVE DashboardInv'
  BY <1>11, OverKeeps DEF RefreshFails, Gives
<1>12. CASE UNCHANGED vars
  <2>1. UNCHANGED <<status, calls, accepted, page>>
    BY <1>12 DEF vars
  <2> QED
    BY <1>1, <2>1, RowsKeep DEF Forward, TypeOK
<1> QED
  BY <1>2, <1>3, <1>4, <1>6, <1>7, <1>8, <1>9, <1>10, <1>11, <1>12, LoadKeeps
     DEF Next

(* The invariant of the page, whatever order its queries, replies and       *)
(* failures come in.                                                        *)
THEOREM DashboardSound == Spec => []DashboardInv
BY InitDashboard, NextDashboard, PTL DEF Spec

(* Only requests that were submitted are listed, and the page's state is    *)
(* what loadHwidRequests and the handlers make of it.                       *)
THEOREM DashboardTypeCorrect == Spec => []TypeOK
<1>1. DashboardInv => TypeOK
  BY DEF DashboardInv
<1> QED
  BY <1>1, DashboardSound, PTL

(* For any number of refreshes that overlap, fail or render in any order,   *)
(* the list is not silently older than a decision this page heard of.       *)
THEOREM StaleIsKnown == Spec => []StaleOnlyIfBehind
<1>1. DashboardInv => StaleOnlyIfBehind
  BY DEF DashboardInv, Remedied, NewestIsGood, StaleOnlyIfBehind
<1> QED
  BY <1>1, DashboardSound, PTL
=============================================================================
