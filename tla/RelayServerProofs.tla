--------------------------- MODULE RelayServerProofs ---------------------------
(***************************************************************************)
(* What deals with money around a relay server: its penalizer takes a      *)
(* stake only over an offence and, as long as the passes of its interval   *)
(* handler do not overlap, reveals each report once; its registration      *)
(* gives the owner's funds back only when they are due; its operator's     *)
(* commands, repeated, pay once, and the deployments, repeated, end as     *)
(* configured.  Each has variables of its own.                             *)
(***************************************************************************)
EXTENDS Penalizer, RelayRegistration, Commands, Deployer, FiniteSetTheorems, SequenceTheorems,
        WellFoundedInduction, TLAPS

-----------------------------------------------------------------------------
(* Lists *)

LEMMA ElementsAppend ==
  ASSUME NEW S, NEW q \in Seq(S), NEW e \in S
  PROVE  /\ Append(q, e) \in Seq(S)
         /\ ToSet(Append(q, e)) = ToSet(q) \cup {e}
         /\ IsInjective(q) /\ e \notin ToSet(q) => IsInjective(Append(q, e))
<1>1. /\ Append(q, e) \in Seq(S)
      /\ DOMAIN Append(q, e) = 1 .. Len(q) + 1 /\ DOMAIN q = 1 .. Len(q) /\ Len(q) \in Nat
      /\ \A i \in 1 .. Len(q) : Append(q, e)[i] = q[i]
      /\ Append(q, e)[Len(q) + 1] = e
  BY AppendProperties, LenProperties
<1>2. 1 .. Len(q) + 1 = (1 .. Len(q)) \cup {Len(q) + 1}
  BY <1>1
<1> DEFINE r == Append(q, e)
           n == Len(q)
<1> HIDE DEF r, n
<1>3. IsInjective(q) /\ e \notin ToSet(q) => IsInjective(r)
  BY <1>1, <1>2 DEF IsInjective, ToSet, r, n
<1>4. ToSet(r) = ToSet(q) \cup {e}
  BY <1>1, <1>2 DEF ToSet, r, n
<1>5. QED
  BY <1>1, <1>3, <1>4 DEF r

\* Splicing one element out of a list that holds none twice takes just it.
LEMMA ElementsRemove ==
  ASSUME NEW S, NEW q \in Seq(S), IsInjective(q), NEW i \in DOMAIN q
  PROVE  /\ RemoveAt(q, i) \in Seq(S)
         /\ ToSet(RemoveAt(q, i)) = ToSet(q) \ {q[i]}
         /\ IsInjective(RemoveAt(q, i))
<1> DEFINE n == Len(q)
           a == SubSeq(q, 1, i - 1)
           b == SubSeq(q, i + 1, n)
           r == a \o b
<1>1. n \in Nat /\ DOMAIN q = 1 .. n /\ i \in 1 .. n
  BY LenProperties
<1>2. /\ a \in Seq(S) /\ Len(a) = i - 1
      /\ \A j \in 1 .. i - 1 : a[j] = q[j]
  BY <1>1, SubSeqProperties
<1>3. /\ b \in Seq(S) /\ Len(b) = n - i
      /\ \A j \in 1 .. n - i : b[j] = q[i + j]
  BY <1>1, SubSeqProperties
<1> HIDE DEF n, a, b, r
<1>4. r \in Seq(S) /\ DOMAIN r = 1 .. n - 1
  <2>1. /\ r \in Seq(S) /\ Len(r) = Len(a) + Len(b)
        /\ \A j \in 1 .. Len(a) + Len(b) : r[j] = IF j <= Len(a) THEN a[j] ELSE b[j - Len(a)]
    BY <1>2, <1>3, ConcatProperties DEF r
  <2>2. Len(a) + Len(b) = n - 1
    BY <1>1, <1>2, <1>3
  <2>3. DOMAIN r = 1 .. Len(r)
    BY <2>1, LenProperties
  <2>4. QED
    BY <2>1, <2>2, <2>3
<1>5. \A j \in 1 .. n - 1 : r[j] = IF j < i THEN q[j] ELSE q[j + 1]
  <2> SUFFICES ASSUME NEW j \in 1 .. n - 1 PROVE r[j] = IF j < i THEN q[j] ELSE q[j + 1]
    OBVIOUS
  <2>1. Len(a) + Len(b) = n - 1
    BY <1>1, <1>2, <1>3
  <2>2. r[j] = IF j <= i - 1 THEN a[j] ELSE b[j - (i - 1)]
    BY <1>2, <1>3, <2>1, ConcatProperties DEF r
  <2>3. CASE j < i
    <3>1. j \in 1 .. i - 1
      BY <1>1, <2>3
    <3>2. QED
      BY <1>1, <1>2, <2>2, <2>3, <3>1
  <2>4. CASE j >= i
    <3>1. j - (i - 1) \in 1 .. n - i /\ i + (j - (i - 1)) = j + 1 /\ ~ (j <= i - 1)
      BY <1>1, <2>4
    <3>2. r[j] = q[j + 1]
      BY <1>3, <2>2, <3>1
    <3>3. QED
      BY <1>1, <2>4, <3>2
  <2>5. QED
    BY <1>1, <2>3, <2>4
<1> DEFINE o(j) == IF j < i THEN j ELSE j + 1
<1>6. \A j \in DOMAIN r : o(j) \in DOMAIN q /\ o(j) # i /\ r[j] = q[o(j)]
  BY <1>1, <1>4, <1>5
<1>7. \A j, k \in DOMAIN r : o(j) = o(k) => j = k
  BY <1>1, <1>4
<1>8. \A j \in DOMAIN q \ {i} : \E k \in DOMAIN r : o(k) = j
  <2> SUFFICES ASSUME NEW j \in DOMAIN q \ {i} PROVE \E k \in DOMAIN r : o(k) = j
    OBVIOUS
  <2>1. CASE j < i
    <3>1. j \in DOMAIN r
      BY <1>1, <1>4, <2>1
    <3>2. QED
      BY <2>1, <3>1
  <2>2. CASE j > i
    <3>1. j - 1 \in DOMAIN r /\ o(j - 1) = j
      BY <1>1, <1>4, <2>2
    <3>2. QED
      BY <3>1
  <2>3. QED
    BY <1>1, <2>1, <2>2
<1> HIDE DEF o
<1>9. IsInjective(r)
  BY <1>6, <1>7 DEF IsInjective
<1>10. ToSet(r) = ToSet(q) \ {q[i]}
  BY <1>6, <1>8 DEF ToSet, IsInjective
<1>11. QED
  BY <1>4, <1>9, <1>10 DEF RemoveAt, r, a, b, n

\* The first of a list to be in a set.
LEMMA FirstIsIn ==
  ASSUME NEW S, NEW list \in Seq(S), NEW ripe, ripe # {}, ripe \subseteq ToSet(list)
  PROVE  FirstOf(list, ripe) \in ripe
<1> DEFINE I == {i \in DOMAIN list : list[i] \in ripe}
<1>1. DOMAIN list = 1 .. Len(list) /\ Len(list) \in Nat
  BY LenProperties
<1>2. I \subseteq Nat /\ I # {}
  BY <1>1 DEF ToSet
<1>3. PICK i \in I : \A j \in I : ~(<<j, i>> \in OpToRel(<, Nat))
  BY <1>2, NatLessThanWellFounded, WFMin, Zenon
<1>4. \A j \in I : i \in Nat /\ j \in Nat /\ ~(j < i)
  BY <1>2, <1>3, Zenon DEF OpToRel
<1>5. \A j \in I : i <= j
  BY <1>4
<1>6. QED
  BY <1>5 DEF FirstOf

-----------------------------------------------------------------------------
(***************************************************************************)
(* The penalizer.  An audit that has not reported yet has its transaction  *)
(* nowhere: not on the schedule, not in a pass, not revealed.  What is on  *)
(* the schedule is not revealed yet, and what a pass is about to reveal it *)
(* has just taken off the schedule.                                        *)
(***************************************************************************)

OnePass == \A p, q \in Passes : p = q

Before == {"new", "valid", "second", "not mined", "known nonce", "searching", "found", "to view"}
Current(p) == FirstOf(pass[p].list, pass[p].todo)

Positions ==
    /\ sent \in Seq(Tx)
    /\ DOMAIN verdict = Requests /\ DOMAIN pc = Requests
    /\ reveals \in [Requests -> {0, 1}]
    /\ scheduled \in Seq(Requests) /\ IsInjective(scheduled)
    /\ pass \in [Passes -> [at : {"idle", "querying", "asking", "sending"},
                            list : Seq(Requests), todo : SUBSET Requests]]
UnreportedIsNowhere ==
    \A r \in Requests : pc[r] \in Before =>
        /\ r \notin ToSet(scheduled) /\ reveals[r] = 0
        /\ \A p \in Passes : r \notin pass[p].todo
ScheduledIsUnrevealed == \A r \in ToSet(scheduled) : reveals[r] = 0
TakenIsUnrevealed ==
    \A p \in Passes : pass[p].at = "sending" =>
        /\ pass[p].todo # {} /\ pass[p].todo \subseteq ToSet(pass[p].list)
        /\ Current(p) \notin ToSet(scheduled) /\ reveals[Current(p)] = 0
        /\ pass[p].todo \ {Current(p)} \subseteq ToSet(scheduled)

IInv == Positions /\ UnreportedIsNowhere /\ ScheduledIsUnrevealed /\ TakenIsUnrevealed

LEMMA SplicedTakes ==
  ASSUME scheduled \in Seq(Requests), IsInjective(scheduled), NEW r \in ToSet(scheduled)
  PROVE  /\ Spliced(r) \in Seq(Requests)
         /\ ToSet(Spliced(r)) = ToSet(scheduled) \ {r}
         /\ IsInjective(Spliced(r))
<1>1. PICK i \in DOMAIN scheduled :
         i = (CHOOSE j \in DOMAIN scheduled : scheduled[j] = r) /\ scheduled[i] = r
  BY DEF ToSet
<1>2. Spliced(r) = RemoveAt(scheduled, i)
  BY <1>1 DEF Spliced
<1>3. QED
  BY <1>1, <1>2, ElementsRemove

\* The loop goes on to a report it takes off the schedule first, or ends.
LEMMA ProceedTakes ==
  ASSUME Positions, NEW p \in Passes, NEW list \in Seq(Requests), NEW ripe,
         ripe \subseteq ToSet(list), ripe \subseteq ToSet(scheduled),
         Proceed(p, list, ripe)
  PROVE  /\ scheduled' \in Seq(Requests) /\ IsInjective(scheduled')
         /\ ToSet(scheduled') \subseteq ToSet(scheduled)
         /\ pass' \in [Passes -> [at : {"idle", "querying", "asking", "sending"},
                                  list : Seq(Requests), todo : SUBSET Requests]]
         /\ pass'[p].todo \subseteq ripe
         /\ pass'[p].at = "sending" =>
                /\ pass'[p].todo = ripe /\ ripe # {} /\ pass'[p].list = list
                /\ FirstOf(list, ripe) \in ripe \ ToSet(scheduled')
                /\ ripe \ {FirstOf(list, ripe)} \subseteq ToSet(scheduled')
<1>1. /\ scheduled \in Seq(Requests) /\ IsInjective(scheduled)
      /\ pass \in [Passes -> [at : {"idle", "querying", "asking", "sending"},
                              list : Seq(Requests), todo : SUBSET Requests]]
  BY DEF Positions
<1>2. Idle \in [at : {"idle", "querying", "asking", "sending"},
                list : Seq(Requests), todo : SUBSET Requests]
  BY EmptySeq DEF Idle
<1>3. CASE ripe = {}
  <2>1. pass' = [pass EXCEPT ![p] = Idle] /\ scheduled' = scheduled
    BY <1>3 DEF Proceed, Stops
  <2>2. pass'[p] = Idle
    BY <1>1, <2>1
  <2>3. QED
    BY <1>1, <1>2, <2>1, <2>2 DEF Idle
<1>4. CASE ripe # {}
  <2> DEFINE r == FirstOf(list, ripe)
             now == [at |-> "sending", list |-> list, todo |-> ripe]
  <2>1. r \in ripe
    BY <1>4, FirstIsIn
  <2>2. /\ pass' = [pass EXCEPT ![p] = now]
        /\ scheduled' = IF scheduled = <<>> THEN <<>> ELSE Spliced(r)
    BY <1>4 DEF Proceed, Goes
  <2>3. /\ Spliced(r) \in Seq(Requests) /\ IsInjective(Spliced(r))
        /\ ToSet(Spliced(r)) = ToSet(scheduled) \ {r}
    BY <1>1, <2>1, SplicedTakes
  <2>4. scheduled # <<>>
    BY <2>1 DEF ToSet
  <2>5. ripe \subseteq Requests
    BY <1>1 DEF ToSet
  <2>6. now \in [at : {"idle", "querying", "asking", "sending"},
                 list : Seq(Requests), todo : SUBSET Requests]
    BY <2>5
  <2> HIDE DEF r
  <2>7. pass'[p] = now
    BY <1>1, <2>2
  <2>8. pass' \in [Passes -> [at : {"idle", "querying", "asking", "sending"},
                              list : Seq(Requests), todo : SUBSET Requests]]
    BY <1>1, <2>2, <2>6
  <2>9. QED
    BY <1>4, <2>1, <2>2, <2>3, <2>4, <2>7, <2>8 DEF r
<1>5. QED
  BY <1>3, <1>4

LEMMA InitIInv == Init => IInv
<1> SUFFICES ASSUME Init PROVE IInv
  OBVIOUS
<1>1. /\ sent = <<>> /\ scheduled = <<>>
      /\ reveals = [r \in Requests |-> 0] /\ pass = [p \in Passes |-> Idle]
  BY DEF Init
<1>2. Positions
  <2>1. <<>> \in Seq(Tx) /\ <<>> \in Seq(Requests) /\ DOMAIN <<>> = {}
    BY EmptySeq
  <2>2. IsInjective(scheduled)
    BY <1>1, <2>1 DEF IsInjective
  <2>3. QED
    BY <1>1, <2>1, <2>2 DEF Init, Positions, Idle
<1>3. ToSet(scheduled) = {} /\ \A p \in Passes : pass[p].at = "idle" /\ pass[p].todo = {}
  BY <1>1 DEF ToSet, Idle
<1>4. QED
  BY <1>1, <1>2, <1>3 DEF IInv, UnreportedIsNowhere, ScheduledIsUnrevealed, TakenIsUnrevealed

\* A step that leaves schedule, passes and reveals alone, and lets no audit start
\* again.
LEMMA QuietKeepsIInv ==
  ASSUME IInv, sent' \in Seq(Tx), DOMAIN verdict' = Requests, DOMAIN pc' = Requests,
         UNCHANGED <<scheduled, reveals, pass>>,
         \A q \in Requests : pc'[q] \in Before => pc[q] \in Before
  PROVE  IInv'
<1>1. Positions' /\ ScheduledIsUnrevealed' /\ TakenIsUnrevealed'
  BY DEF IInv, Positions, ScheduledIsUnrevealed, TakenIsUnrevealed, Current
<1>2. UnreportedIsNowhere'
  BY DEF IInv, UnreportedIsNowhere
<1>3. QED
  BY <1>1, <1>2 DEF IInv

LEMMA ScheduleKeepsIInv ==
  ASSUME IInv, NEW r \in Requests, NEW call, pc[r] \in Before,
         pc' = [pc EXCEPT ![r] = "committing"], Schedules(r, call)
  PROVE  IInv'
<1>1. /\ scheduled' = Append(scheduled, r) /\ sent' = sent /\ verdict' = verdict
      /\ reveals' = reveals /\ pass' = pass
  BY DEF Schedules, chainVars, reportVars
<1>2. r \notin ToSet(scheduled) /\ reveals[r] = 0 /\ \A p \in Passes : r \notin pass[p].todo
  BY DEF IInv, UnreportedIsNowhere
<1>3. /\ scheduled' \in Seq(Requests) /\ IsInjective(scheduled')
      /\ ToSet(scheduled') = ToSet(scheduled) \cup {r}
  BY <1>1, <1>2, ElementsAppend DEF IInv, Positions
<1>4. Positions'
  BY <1>1, <1>3 DEF IInv, Positions
<1>5. UnreportedIsNowhere'
  <2> SUFFICES ASSUME NEW q \in Requests, pc'[q] \in Before
               PROVE  /\ q \notin ToSet(scheduled') /\ reveals'[q] = 0
                      /\ \A p \in Passes : q \notin pass'[p].todo
    BY DEF UnreportedIsNowhere
  <2>1. q # r /\ pc'[q] = pc[q]
    BY DEF Before, IInv, Positions
  <2>2. QED
    BY <1>1, <1>3, <2>1 DEF IInv, UnreportedIsNowhere
<1>6. ScheduledIsUnrevealed'
  BY <1>1, <1>2, <1>3 DEF IInv, ScheduledIsUnrevealed
<1>7. TakenIsUnrevealed'
  <2> SUFFICES ASSUME NEW p \in Passes, pass[p].at = "sending"
               PROVE  /\ pass[p].todo # {} /\ pass[p].todo \subseteq ToSet(pass[p].list)
                      /\ Current(p) \notin ToSet(scheduled') /\ reveals[Current(p)] = 0
                      /\ pass[p].todo \ {Current(p)} \subseteq ToSet(scheduled')
    BY <1>1 DEF TakenIsUnrevealed, Current
  <2>1. /\ pass[p].todo # {} /\ pass[p].todo \subseteq ToSet(pass[p].list)
        /\ Current(p) \notin ToSet(scheduled) /\ reveals[Current(p)] = 0
        /\ pass[p].todo \ {Current(p)} \subseteq ToSet(scheduled)
    BY DEF IInv, TakenIsUnrevealed
  <2>2. pass[p].list \in Seq(Requests)
    BY DEF IInv, Positions
  <2>3. Current(p) \in pass[p].todo
    BY <2>1, <2>2, FirstIsIn DEF Current
  <2>4. QED
    BY <1>2, <1>3, <2>1, <2>3
<1>8. QED
  BY <1>4, <1>5, <1>6, <1>7 DEF IInv

\* What is left to show of a step of the one pass there is.
LEMMA PassKeepsIInv ==
  ASSUME IInv, OnePass, NEW p \in Passes, Positions', UNCHANGED pc,
         ToSet(scheduled') \subseteq ToSet(scheduled),
         pass'[p].todo \subseteq ToSet(scheduled),
         \A q \in Requests : \/ reveals'[q] = reveals[q]
                             \/ q \in pass[p].todo \ ToSet(scheduled),
         pass'[p].at = "sending" =>
            /\ pass'[p].todo # {} /\ pass'[p].todo \subseteq ToSet(pass'[p].list)
            /\ Current(p)' \in pass'[p].todo \ ToSet(scheduled')
            /\ pass'[p].todo \ {Current(p)'} \subseteq ToSet(scheduled')
  PROVE  IInv'
<1>1. \A q \in Passes : q = p
  BY DEF OnePass
<1>2. ToSet(scheduled) \subseteq Requests
  BY DEF IInv, Positions, ToSet
<1>3. ScheduledIsUnrevealed'
  BY <1>2 DEF IInv, ScheduledIsUnrevealed
<1>4. UnreportedIsNowhere'
  BY <1>1 DEF IInv, UnreportedIsNowhere
<1>5. TakenIsUnrevealed'
  <2>1. pass'[p].at = "sending" => reveals'[Current(p)'] = 0
    BY <1>2 DEF IInv, ScheduledIsUnrevealed
  <2>2. QED
    BY <1>1, <2>1 DEF TakenIsUnrevealed, Current
<1>6. QED
  BY <1>3, <1>4, <1>5 DEF IInv

LEMMA AuditKeepsIInv ==
  ASSUME IInv, NEW r \in Requests, AuditStep(r)
  PROVE  IInv'
<1>1. sent \in Seq(Tx) /\ DOMAIN verdict = Requests /\ DOMAIN pc = Requests
  BY DEF IInv, Positions
<1>2. CASE ReportRepeated(r)
  <2>1. pc[r] \in Before /\ pc' = [pc EXCEPT ![r] = "committing"] /\ Schedules(r, "repeated")
    BY <1>2 DEF ReportRepeated, Moves, Before
  <2>2. QED
    BY <2>1, ScheduleKeepsIInv
<1>3. CASE ViewPasses(r, "illegal") /\ Moves(r, "to view", "committing") /\ Schedules(r, "illegal")
  <2>1. pc[r] \in Before /\ pc' = [pc EXCEPT ![r] = "committing"] /\ Schedules(r, "illegal")
    BY <1>3 DEF Moves, Before
  <2>2. QED
    BY <2>1, ScheduleKeepsIInv
<1>4. ASSUME UNCHANGED <<sent, verdict, scheduled, reveals, pass>>, NEW from, NEW to,
             Moves(r, from, to), from \in Before \/ to \notin Before
      PROVE  IInv'
  <2>1. pc[r] = from /\ pc' = [pc EXCEPT ![r] = to]
    BY <1>4 DEF Moves
  <2>2. \A q \in Requests : pc'[q] \in Before => pc[q] \in Before
    BY <1>1, <1>4, <2>1
  <2>3. QED
    BY <1>1, <1>4, <2>1, <2>2, QuietKeepsIInv
<1>5. CASE ValidateFirst(r)
  BY <1>4, <1>5 DEF ValidateFirst, OnlyAudit, chainVars, reportVars, scheduleVars, Before
<1>6. CASE CheckMined(r)
  BY <1>4, <1>6 DEF CheckMined, OnlyAudit, chainVars, reportVars, scheduleVars, Before
<1>7. CASE CheckNonce(r)
  BY <1>4, <1>7 DEF CheckNonce, OnlyAudit, chainVars, reportVars, scheduleVars, Before
<1>8. CASE LookUp(r)
  BY <1>4, <1>8 DEF LookUp, OnlyAudit, chainVars, reportVars, scheduleVars, Before
<1>9. CASE SearchPage(r)
  <2>1. UNCHANGED <<sent, verdict, scheduled, reveals, pass>>
    BY <1>9 DEF SearchPage, chainVars, reportVars, scheduleVars
  <2>2. CASE Moves(r, "searching", "found")
    BY <1>4, <2>1, <2>2 DEF Before
  <2>3. CASE Moves(r, "searching", "failed")
    BY <1>4, <2>1, <2>3 DEF Before
  <2>4. CASE UNCHANGED pc
    BY <1>1, <2>1, <2>4, QuietKeepsIInv
  <2>5. QED
    BY <1>9, <2>2, <2>3, <2>4 DEF SearchPage
<1>10. CASE SearchFails(r)
  BY <1>4, <1>10 DEF SearchFails, chainVars, reportVars, scheduleVars, Before
<1>11. CASE ValidateSecond(r)
  BY <1>4, <1>11 DEF ValidateSecond, OnlyAudit, chainVars, reportVars, scheduleVars, Before
<1>12. CASE ReportIllegal(r)
  BY <1>3, <1>4, <1>12
  DEF ReportIllegal, OnlyAudit, chainVars, reportVars, scheduleVars, Before
<1>13. CASE Commit(r)
  <2>1. UNCHANGED <<sent, verdict, scheduled, reveals, pass>>
    BY <1>13 DEF Commit, chainVars, scheduleVars
  <2>2. Moves(r, "committing", "committed") \/ Moves(r, "committing", "failed")
    BY <1>13 DEF Commit
  <2>3. QED
    BY <1>4, <2>1, <2>2 DEF Before
<1>14. QED
  BY <1>2, <1>5, <1>6, <1>7, <1>8, <1>9, <1>10, <1>11, <1>12, <1>13 DEF AuditStep

LEMMA StopTypes ==
  ASSUME Positions, NEW p \in Passes, Stops(p)
  PROVE  /\ pass' \in [Passes -> [at : {"idle", "querying", "asking", "sending"},
                                  list : Seq(Requests), todo : SUBSET Requests]]
         /\ pass'[p].at = "idle" /\ pass'[p].todo = {}
<1>1. Idle \in [at : {"idle", "querying", "asking", "sending"},
                list : Seq(Requests), todo : SUBSET Requests]
  BY EmptySeq DEF Idle
<1>2. pass'[p] = Idle
  BY DEF Stops, Positions
<1>3. QED
  BY <1>1, <1>2 DEF Stops, Positions, Idle

LEMMA GoTypes ==
  ASSUME Positions, NEW p \in Passes, NEW at \in {"querying", "asking"},
         NEW todo \in SUBSET Requests, Goes(p, at, <<>>, todo)
  PROVE  /\ pass' \in [Passes -> [at : {"idle", "querying", "asking", "sending"},
                                  list : Seq(Requests), todo : SUBSET Requests]]
         /\ pass'[p].at = at /\ pass'[p].todo = todo
<1> DEFINE now == [at |-> at, list |-> <<>>, todo |-> todo]
<1>1. now \in [at : {"idle", "querying", "asking", "sending"},
                list : Seq(Requests), todo : SUBSET Requests]
  BY EmptySeq
<1>2. pass'[p] = now
  BY DEF Goes, Positions
<1>3. QED
  BY <1>1, <1>2 DEF Goes, Positions


LEMMA ScheduledAreRequests == Positions => ToSet(scheduled) \subseteq Requests
  BY DEF Positions, ToSet

LEMMA PassStepKeepsIInv ==
  ASSUME IInv, OnePass, NEW p \in Passes, PassStep(p) \/ PassFails(p)
  PROVE  IInv'
<1>1. Positions /\ ToSet(scheduled) \subseteq Requests
  BY ScheduledAreRequests DEF IInv
<1>2. CASE StartPass(p)
  <2> DEFINE todo == ToSet(scheduled) \ readyKnown
             at == IF todo = {} THEN "asking" ELSE "querying"
  <2>1. /\ Goes(p, at, <<>>, todo)
        /\ UNCHANGED <<sent, verdict, pc, reveals, scheduled>>
    BY <1>2 DEF StartPass, OnlyPass, chainVars, reportVars, auditVars
  <2>2. at \in {"querying", "asking"} /\ todo \in SUBSET Requests
    BY <1>1
  <2> HIDE DEF at, todo
  <2>3. /\ pass' \in [Passes -> [at : {"idle", "querying", "asking", "sending"},
                                 list : Seq(Requests), todo : SUBSET Requests]]
        /\ pass'[p].at = at /\ pass'[p].todo = todo
    BY <1>1, <2>1, <2>2, GoTypes
  <2>4. Positions' /\ pass'[p].at # "sending"
    BY <1>1, <2>1, <2>2, <2>3 DEF Positions
  <2>5. QED
    BY <2>1, <2>3, <2>4, PassKeepsIInv DEF todo
<1>3. CASE QueryCommitments(p)
  <2>1. Goes(p, "asking", <<>>, {}) /\ UNCHANGED <<sent, verdict, pc, reveals, scheduled>>
    BY <1>3 DEF QueryCommitments, OnlyPass, chainVars, reportVars, auditVars
  <2>2. /\ pass' \in [Passes -> [at : {"idle", "querying", "asking", "sending"},
                                 list : Seq(Requests), todo : SUBSET Requests]]
        /\ pass'[p].at = "asking" /\ pass'[p].todo = {}
    BY <1>1, <2>1, GoTypes
  <2>3. Positions' /\ pass'[p].at # "sending"
    BY <1>1, <2>1, <2>2 DEF Positions
  <2>4. QED
    BY <2>1, <2>2, <2>3, PassKeepsIInv
<1>4. ASSUME Stops(p), UNCHANGED <<sent, verdict, pc, scheduled>>,
             reveals' \in [Requests -> {0, 1}],
             \A q \in Requests : \/ reveals'[q] = reveals[q]
                                 \/ q \in pass[p].todo \ ToSet(scheduled)
      PROVE  IInv'
  <2>1. /\ pass' \in [Passes -> [at : {"idle", "querying", "asking", "sending"},
                                 list : Seq(Requests), todo : SUBSET Requests]]
        /\ pass'[p].at = "idle" /\ pass'[p].todo = {}
    BY <1>1, <1>4, StopTypes
  <2>2. Positions' /\ pass'[p].at # "sending"
    BY <1>1, <1>4, <2>1 DEF Positions
  <2>3. QED
    BY <1>4, <2>1, <2>2, PassKeepsIInv
<1>5. ASSUME NEW list \in Seq(Requests), NEW ripe,
             ripe \subseteq ToSet(list), ripe \subseteq ToSet(scheduled),
             Proceed(p, list, ripe), UNCHANGED <<sent, verdict, pc>>,
             reveals' \in [Requests -> {0, 1}],
             \A q \in Requests : \/ reveals'[q] = reveals[q]
                                 \/ q \in pass[p].todo \ ToSet(scheduled)
      PROVE  IInv'
  <2>1. /\ scheduled' \in Seq(Requests) /\ IsInjective(scheduled')
        /\ ToSet(scheduled') \subseteq ToSet(scheduled)
        /\ pass' \in [Passes -> [at : {"idle", "querying", "asking", "sending"},
                                 list : Seq(Requests), todo : SUBSET Requests]]
        /\ pass'[p].todo \subseteq ripe
        /\ pass'[p].at = "sending" =>
               /\ pass'[p].todo = ripe /\ ripe # {} /\ pass'[p].list = list
               /\ FirstOf(list, ripe) \in ripe \ ToSet(scheduled')
               /\ ripe \ {FirstOf(list, ripe)} \subseteq ToSet(scheduled')
    BY <1>1, <1>5, ProceedTakes
  <2>2. Positions'
    BY <1>1, <1>5, <2>1 DEF Positions
  <2>3. pass'[p].at = "sending" => Current(p)' = FirstOf(list, ripe)
    BY <2>1 DEF Current
  <2>4. pass'[p].at = "sending" =>
            /\ pass'[p].todo # {} /\ pass'[p].todo \subseteq ToSet(pass'[p].list)
            /\ Current(p)' \in pass'[p].todo \ ToSet(scheduled')
            /\ pass'[p].todo \ {Current(p)'} \subseteq ToSet(scheduled')
    BY <1>5, <2>1, <2>3
  <2>5. QED
    BY <1>5, <2>1, <2>2, <2>4, PassKeepsIInv
<1>6. CASE ReadBlock(p)
  <2> DEFINE ripe == {r \in ToSet(scheduled) : IsReady(r)}
  <2>1. Proceed(p, scheduled, ripe) /\ UNCHANGED <<sent, verdict, pc, reveals>>
    BY <1>6 DEF ReadBlock, OnlyPass, chainVars, reportVars, auditVars
  <2>2. ripe \subseteq ToSet(scheduled)
    OBVIOUS
  <2> HIDE DEF ripe
  <2>3. scheduled \in Seq(Requests) /\ reveals' \in [Requests -> {0, 1}]
    BY <1>1, <2>1 DEF Positions
  <2>4. QED
    BY <1>5, <2>1, <2>2, <2>3
<1>7. CASE Reveal(p)
  <2> DEFINE r == Current(p)
  <2>1. /\ pass[p].at = "sending" /\ UNCHANGED <<sent, verdict, pc>>
    BY <1>7 DEF Reveal, chainVars, auditVars
  <2>2. /\ pass[p].todo # {} /\ pass[p].todo \subseteq ToSet(pass[p].list)
        /\ r \notin ToSet(scheduled) /\ reveals[r] = 0
        /\ pass[p].todo \ {r} \subseteq ToSet(scheduled)
    BY <2>1 DEF IInv, TakenIsUnrevealed
  <2>3. pass[p].list \in Seq(Requests) /\ pass[p].todo \subseteq Requests
    BY <1>1 DEF Positions
  <2>4. r \in pass[p].todo
    BY <2>2, <2>3, FirstIsIn DEF Current
  <2>5. \/ /\ Proceed(p, pass[p].list, pass[p].todo \ {r})
           /\ reveals' = [reveals EXCEPT ![r] = @ + 1]
        \/ /\ Stops(p) /\ scheduled' = scheduled
           /\ reveals' = reveals \/ reveals' = [reveals EXCEPT ![r] = @ + 1]
    BY <1>7, Zenon DEF Reveal, Current
  <2> HIDE DEF r
  <2>6. /\ reveals' \in [Requests -> {0, 1}]
        /\ \A q \in Requests : \/ reveals'[q] = reveals[q]
                               \/ q \in pass[p].todo \ ToSet(scheduled)
    <3>1. reveals \in [Requests -> {0, 1}] /\ r \in Requests
      BY <1>1, <2>3, <2>4 DEF Positions
    <3>2. reveals' = reveals \/ reveals' = [reveals EXCEPT ![r] = 1]
      BY <2>2, <2>5
    <3>3. QED
      BY <2>2, <2>4, <3>1, <3>2
  <2>7. CASE Stops(p) /\ scheduled' = scheduled
    BY <1>4, <2>1, <2>6, <2>7
  <2>8. CASE Proceed(p, pass[p].list, pass[p].todo \ {r})
    <3>1. pass[p].todo \ {r} \subseteq ToSet(pass[p].list)
      BY <2>2
    <3>2. QED
      BY <1>5, <2>1, <2>2, <2>3, <2>6, <2>8, <3>1
  <2>9. QED
    BY <2>5, <2>7, <2>8
<1>8. CASE PassFails(p)
  <2>1. Stops(p) /\ UNCHANGED <<sent, verdict, pc, reveals, scheduled>>
    BY <1>8 DEF PassFails, OnlyPass, chainVars, reportVars, auditVars
  <2>2. reveals' \in [Requests -> {0, 1}]
    BY <1>1, <2>1 DEF Positions
  <2>3. QED
    BY <1>4, <2>1, <2>2
<1>9. QED
  BY <1>2, <1>3, <1>6, <1>7, <1>8 DEF PassStep

LEMMA NextKeepsIInv == IInv /\ OnePass /\ [Next]_vars => IInv'
<1> SUFFICES ASSUME IInv, OnePass, [Next]_vars PROVE IInv'
  OBVIOUS
<1>1. sent \in Seq(Tx) /\ DOMAIN verdict = Requests /\ DOMAIN pc = Requests
  BY DEF IInv, Positions
<1>2. CASE UNCHANGED vars
  BY <1>1, <1>2, QuietKeepsIInv DEF vars
<1>3. ASSUME NEW r \in Requests, AuditStep(r) PROVE IInv'
  BY <1>3, AuditKeepsIInv
<1>4. ASSUME NEW p \in Passes, PassStep(p) \/ PassFails(p) PROVE IInv'
  BY <1>4, PassStepKeepsIInv
<1>5. CASE EmptyBlock \/ MineCommit
  BY <1>1, <1>5, QuietKeepsIInv
  DEF EmptyBlock, MineCommit, chainVars, auditVars, scheduleVars
<1>6. CASE MineReveal
  <2>1. UNCHANGED <<sent, pc, scheduled, pass, reveals>> /\ DOMAIN verdict' = Requests
    BY <1>1, <1>6 DEF MineReveal, chainVars, auditVars, scheduleVars
  <2>2. QED
    BY <1>1, <2>1, QuietKeepsIInv
<1>7. CASE WorkerSends
  <2>1. PICK c \in LegalCalls, price \in Prices :
           sent' = Append(sent, [from |-> Worker, nonce |-> Len(sent), call |-> c,
                                 price |-> price])
    BY <1>7 DEF WorkerSends
  <2> DEFINE tx == [from |-> Worker, nonce |-> Len(sent), call |-> c, price |-> price]
  <2>2. Len(sent) \in 0 .. MaxSent + 1
    BY <1>1, <1>7, PenalizerAssumption DEF WorkerSends
  <2>3. tx \in Tx
    BY <2>2 DEF Tx, Calls
  <2>4. sent' \in Seq(Tx)
    BY <1>1, <2>1, <2>3, AppendProperties
  <2>5. UNCHANGED <<verdict, pc, scheduled, pass, reveals>>
    BY <1>7 DEF WorkerSends, reportVars, auditVars, scheduleVars
  <2>6. QED
    BY <1>1, <2>4, <2>5, QuietKeepsIInv
<1>8. CASE WorkerMined
  BY <1>1, <1>8, QuietKeepsIInv DEF WorkerMined, reportVars, auditVars, scheduleVars
<1>9. CASE Restart
  <2>1. /\ scheduled' = <<>> /\ pass' = [p \in Passes |-> Idle]
        /\ UNCHANGED <<sent, verdict, reveals>>
    BY <1>9 DEF Restart, chainVars, reportVars
  <2>2. DOMAIN pc' = Requests /\ \A q \in Requests : pc'[q] \in Before => pc[q] \in Before
    BY <1>9 DEF Restart, Before
  <2>3. Positions'
    <3>1. <<>> \in Seq(Requests) /\ DOMAIN <<>> = {}
      BY EmptySeq
    <3>2. IsInjective(scheduled')
      BY <2>1, <3>1 DEF IsInjective
    <3>3. QED
      BY <1>1, <2>1, <2>2, <3>1, <3>2 DEF IInv, Positions, Idle
  <2>4. ToSet(scheduled') = {} /\ \A p \in Passes : pass'[p].at = "idle" /\ pass'[p].todo = {}
    BY <2>1 DEF ToSet, Idle
  <2>5. QED
    BY <2>1, <2>2, <2>3, <2>4
    DEF IInv, UnreportedIsNowhere, ScheduledIsUnrevealed, TakenIsUnrevealed
<1>10. QED
  BY <1>2, <1>3, <1>4, <1>5, <1>6, <1>7, <1>8, <1>9 DEF Next

\* As long as the passes of its interval handler do not overlap, the penalizer
\* reveals each report once, whatever the node, the explorer and a restart do.
THEOREM EachReportIsRevealedOnce ==
  ASSUME OnePass
  PROVE  Spec => []RevealedOnce
<1>1. IInv => RevealedOnce
  BY DEF IInv, Positions, RevealedOnce
<1>2. OnePass
  OBVIOUS
<1>3. IInv /\ [Next]_vars => IInv'
  BY <1>2, NextKeepsIInv
<1>4. QED
  BY InitIInv, <1>1, <1>3, PTL DEF Spec

\* A verdict needs what makes it one, and what the worker has sent stays sent.
Sound == sent \in Seq(Tx) /\ DOMAIN verdict = Requests /\ OnlyOffencesArePenalized

\* A relay loses its stake only over an offence of its worker's, whatever reports
\* the penalizer hands in, in whatever order and however often.
THEOREM StakeIsTakenForAnOffence == Spec => []OnlyOffencesArePenalized
<1>1. Init => Sound
  BY EmptySeq DEF Init, Sound, OnlyOffencesArePenalized
<1>2. Sound /\ [Next]_vars => Sound'
  <2> SUFFICES ASSUME Sound, [Next]_vars PROVE Sound'
    OBVIOUS
  <2>1. CASE UNCHANGED <<sent, verdict>>
    BY <2>1 DEF Sound, OnlyOffencesArePenalized
  <2>2. CASE WorkerSends
    <3>1. PICK c \in LegalCalls, price \in Prices :
             sent' = Append(sent, [from |-> Worker, nonce |-> Len(sent), call |-> c,
                                   price |-> price])
      BY <2>2 DEF WorkerSends
    <3> DEFINE tx == [from |-> Worker, nonce |-> Len(sent), call |-> c, price |-> price]
    <3>2. Len(sent) \in 0 .. MaxSent + 1
      BY <2>2, PenalizerAssumption DEF WorkerSends, Sound
    <3>3. tx \in Tx
      BY <3>2 DEF Tx, Calls
    <3> HIDE DEF tx
    <3>4. sent' = Append(sent, tx)
      BY <3>1 DEF tx
    <3>5. sent' \in Seq(Tx) /\ ToSet(sent) \subseteq ToSet(sent')
      <4>1. /\ Append(sent, tx) \in Seq(Tx)
            /\ \A i \in 1 .. Len(sent) : Append(sent, tx)[i] = sent[i]
            /\ 1 .. Len(sent) \subseteq DOMAIN Append(sent, tx)
            /\ DOMAIN sent = 1 .. Len(sent)
        BY <3>3, AppendProperties, LenProperties DEF Sound
      <4>2. QED
        BY <3>4, <4>1 DEF ToSet
    <3>6. verdict' = verdict
      BY <2>2 DEF WorkerSends, reportVars
    <3>7. QED
      BY <3>5, <3>6 DEF Sound, OnlyOffencesArePenalized
  <2>3. CASE MineReveal
    <3> DEFINE r == Head(outbox).of
    <3>1. verdict' = [verdict EXCEPT ![r] = Verdict(r, Aged[r])] /\ sent' = sent
      BY <2>3 DEF MineReveal, chainVars
    <3> HIDE DEF r
    <3>2. ASSUME Verdict(r, Aged[r]) = "penalized"
          PROVE  /\ r.from = Worker
                 /\ \/ r.call \notin LegalCalls
                    \/ \E s \in ToSet(sent) : s.nonce = r.nonce /\ s.call # r.call
      <4>1. Offence(r, report[r]) /\ HubPenalizes(r)
        BY <3>2 DEF Verdict
      <4>2. QED
        BY <4>1 DEF Offence, HubPenalizes, IllegalTransaction, RepeatedNonce
    <3>3. QED
      BY <3>1, <3>2 DEF Sound, OnlyOffencesArePenalized
  <2>4. ASSUME NEW r \in Requests, AuditStep(r) PROVE UNCHANGED <<sent, verdict>>
    BY <2>4 DEF AuditStep, ValidateFirst, CheckMined, CheckNonce, LookUp, SearchPage,
                SearchFails, ReportRepeated, ValidateSecond, ReportIllegal, Commit,
                Schedules, OnlyAudit, chainVars, reportVars
  <2>5. ASSUME NEW p \in Passes, PassStep(p) \/ PassFails(p) PROVE UNCHANGED <<sent, verdict>>
    BY <2>5 DEF PassStep, StartPass, QueryCommitments, ReadBlock, Reveal, PassFails,
                OnlyPass, chainVars, reportVars
  <2>6. CASE EmptyBlock \/ MineCommit \/ WorkerMined \/ Restart
    BY <2>1, <2>6 DEF EmptyBlock, MineCommit, WorkerMined, Restart, chainVars, reportVars
  <2>7. CASE UNCHANGED vars
    BY <2>1, <2>7 DEF vars
  <2>8. QED
    BY <2>1, <2>2, <2>3, <2>4, <2>5, <2>6, <2>7 DEF Next
<1>3. Sound => OnlyOffencesArePenalized
  BY DEF Sound
<1>4. QED
  BY <1>1, <1>2, <1>3, PTL DEF Spec

-----------------------------------------------------------------------------
(***************************************************************************)
(* The registration of the same server, with variables of its own.  What   *)
(* it may send is what it sends once, and what it owes: everything when    *)
(* the stake was withdrawn, all but the manager's balance when the hub's   *)
(* removal is due.  Neither the events nor what is due is ever taken back, *)
(* so what it owes only grows.                                             *)
(***************************************************************************)

Owed ==
    Once \cup
    IF Logged("StakeWithdrawn") THEN Withdrawals
    ELSE IF due # {} THEN {"workerToOwner", "hubToOwner"} ELSE {}

Steps == {"idle", "scan", "events", "register", "finish"}
Rounds == [step : Steps, block : 0 .. Len(log), upto : 0 .. Len(log), at : 0 .. Len(log),
           force : BOOLEAN]
FollowsTheLog ==
    /\ log \in Seq(Kinds)
    /\ round \in Rounds
    /\ scanned \in 0 .. Len(log)
SendsWhatIsOwed == FollowsTheLog /\ pending \in Seq(Owed)

LEMMA WhenIsOwed ==
  ASSUME NEW S, NEW condition, NEW a, condition => a \in S
  PROVE  When(condition, a) \in Seq(S)
  BY EmptySeq DEF When

\* The part that is kept of what is sent, one by one.
LEMMA QueueIsOwed ==
  ASSUME NEW S, pending \in Seq(S), NEW actions \in Seq(S)
  PROVE  Queue(actions) \in Seq(S)
<1> DEFINE New(i) == IF i <= Len(actions) /\ actions[i] \notin Pending
                     THEN <<actions[i]>> ELSE <<>>
<1>1. ASSUME NEW i \in 1 .. 4 PROVE New(i) \in Seq(S)
  <2>1. i <= Len(actions) => actions[i] \in S
    BY <1>1, ElementOfSeq
  <2>2. QED
    BY <2>1
<1>2. /\ New(1) \in Seq(S) /\ New(2) \in Seq(S) /\ New(3) \in Seq(S) /\ New(4) \in Seq(S)
  BY <1>1
<1>3. Queue(actions) = pending \o New(1) \o New(2) \o New(3) \o New(4)
  BY DEF Queue
<1> HIDE DEF New
<1>4. QED
  BY <1>2, <1>3, ConcatProperties

LEMMA RemovedIsOwed ==
  ASSUME NEW S, pending \in Seq(S), NEW a
  PROVE  RemoveFirst(pending, a) \in Seq(S)
<1>1. Len(pending) \in Nat /\ \A i \in 1 .. Len(pending) : pending[i] \in S
  BY LenProperties, ElementOfSeq
<1>2. CASE \E i \in 1 .. Len(pending) : pending[i] = a
  <2> DEFINE I == {i \in 1 .. Len(pending) : pending[i] = a}
             k == Min(I)
  <2>0. I \subseteq Nat /\ I # {}
    BY <1>1, <1>2
  <2>1. PICK i \in I : \A j \in I : ~(<<j, i>> \in OpToRel(<, Nat))
    BY <2>0, NatLessThanWellFounded, WFMin, Zenon
  <2>2. \A j \in I : i \in Nat /\ j \in Nat /\ ~(j < i)
    BY <2>0, <2>1, Zenon DEF OpToRel
  <2>3. \A j \in I : i <= j
    BY <2>2
  <2>4. k \in I
    BY <2>3 DEF Min
  <2>5. SelectInSeq(pending, LAMBDA v : v = a) = k
    BY <1>2 DEF SelectInSeq
  <2> HIDE DEF k
  <2>6. RemoveFirst(pending, a) = RemoveAt(pending, k)
    BY <1>2, <2>5 DEF RemoveFirst
  <2>7. /\ SubSeq(pending, 1, k - 1) \in Seq(S)
        /\ SubSeq(pending, k + 1, Len(pending)) \in Seq(S)
    BY <1>1, <2>4, SubSeqProperties
  <2>8. QED
    BY <2>6, <2>7, ConcatProperties DEF RemoveAt
<1>3. QED
  BY <1>2 DEF RemoveFirst

LEMMA SentIsOwed ==
  ASSUME SendsWhatIsOwed, NEW m, NEW actions \in Seq(Owed), Sends(m, actions)
  PROVE  pending' \in Seq(Owed)
<1>1. pending' = Queue(actions) /\ pending \in Seq(Owed)
  BY DEF Sends, SendsWhatIsOwed
<1> HIDE DEF Owed
<1>2. QED
  BY <1>1, QueueIsOwed

\* What each step may send.
LEMMA SendsAreOwed ==
  /\ \A condition, a : a \in Once => When(condition, a) \in Seq(Owed)
  /\ RefreshSends \in Seq(Owed)
  /\ AddWorkerSends \in Seq(Owed)
  /\ ReplenishSends \in Seq(Owed)
  /\ <<>> \in Seq(Owed)
<1>1. \A condition, a : a \in Once => When(condition, a) \in Seq(Owed)
  <2>1. Once \subseteq Owed
    BY DEF Owed
  <2> HIDE DEF Owed
  <2>2. QED
    BY <2>1, WhenIsOwed, Zenon
<1>2. {"authorizeHub", "addWorker", "replenish"} \subseteq Once
  BY DEF Once
<1>3. QED
  BY <1>1, <1>2, EmptySeq
  DEF RefreshSends, AddWorkerSends, ReplenishSends

LEMMA WithdrawalsAreOwed ==
  /\ Logged("StakeWithdrawn") =>
        /\ WithdrawSends(TRUE) \in Seq(Owed)
        /\ \A condition : When(condition, "hubToOwner") \in Seq(Owed)
  /\ due # {} => WithdrawSends(FALSE) \in Seq(Owed)
<1> DEFINE hub == When("hub" \in funds, "hubToOwner")
           worker == When("worker" \in funds, "workerToOwner")
           manager(g) == When(g /\ "manager" \in funds, "managerToOwner")
<1>1. /\ WithdrawSends(TRUE) = hub \o worker \o manager(TRUE)
      /\ WithdrawSends(FALSE) = hub \o worker \o manager(FALSE)
  BY Zenon DEF WithdrawSends
<1>2. /\ "hubToOwner" \in Owed => hub \in Seq(Owed)
      /\ "workerToOwner" \in Owed => worker \in Seq(Owed)
      /\ "managerToOwner" \in Owed => manager(TRUE) \in Seq(Owed)
  <2> HIDE DEF Owed
  <2>1. QED
    BY WhenIsOwed, Zenon
<1>3. manager(FALSE) \in Seq(Owed)
  BY EmptySeq DEF When
<1>4. CASE Logged("StakeWithdrawn")
  <2>1. {"hubToOwner", "workerToOwner", "managerToOwner"} \subseteq Owed
    BY <1>4 DEF Owed, Withdrawals
  <2> HIDE DEF Owed
  <2>2. \A condition : When(condition, "hubToOwner") \in Seq(Owed)
    BY <2>1, WhenIsOwed, Zenon
  <2> HIDE DEF hub, worker, manager
  <2>3. /\ hub \o worker \o manager(TRUE) \in Seq(Owed)
        /\ hub \o worker \o manager(FALSE) \in Seq(Owed)
    BY <1>2, <1>3, <2>1, ConcatProperties
  <2>4. QED
    BY <1>1, <2>2, <2>3
<1>5. CASE due # {} /\ ~Logged("StakeWithdrawn")
  <2>1. {"hubToOwner", "workerToOwner"} \subseteq Owed
    BY <1>5 DEF Owed
  <2> HIDE DEF Owed, hub, worker, manager
  <2>2. hub \o worker \o manager(FALSE) \in Seq(Owed)
    BY <1>2, <1>3, <2>1, ConcatProperties
  <2>3. QED
    BY <1>1, <1>5, <2>2
<1>6. QED
  BY <1>4, <1>5

\* Neither the events nor what is due is taken back.
LEMMA OwedGrows ==
  ASSUME SendsWhatIsOwed, due \subseteq due',
         log' = log \/ \E event \in Kinds : log' = Append(log, event),
         pending' \in Seq(Owed),
         round' \in Rounds, scanned' \in 0 .. Len(log)
  PROVE  SendsWhatIsOwed'
<1>1. /\ log' \in Seq(Kinds) /\ 0 .. Len(log) \subseteq 0 .. Len(log')
      /\ \A i \in DOMAIN log : i \in DOMAIN log' /\ log'[i] = log[i]
  <2>1. log \in Seq(Kinds)
    BY DEF SendsWhatIsOwed, FollowsTheLog
  <2>2. ASSUME NEW event \in Kinds, log' = Append(log, event)
        PROVE  /\ log' \in Seq(Kinds) /\ 0 .. Len(log) \subseteq 0 .. Len(log')
               /\ \A i \in DOMAIN log : i \in DOMAIN log' /\ log'[i] = log[i]
    BY <2>1, <2>2, AppendProperties, LenProperties
  <2>3. QED
    BY <2>1, <2>2
<1>2. round' \in Rounds' /\ scanned' \in 0 .. Len(log')
  BY <1>1 DEF Rounds
<1>3. Logged("StakeWithdrawn") => Logged("StakeWithdrawn")'
  BY <1>1 DEF Logged
<1>4. Owed \subseteq Owed'
  BY <1>3 DEF Owed, Withdrawals
<1> HIDE DEF Owed
<1>5. pending' \in Seq(Owed')
  BY <1>4, LenProperties, ElementOfSeq, SeqDef
<1>6. QED
  BY <1>1, <1>2, <1>5 DEF SendsWhatIsOwed, FollowsTheLog

LEMMA IdleIsARound == SendsWhatIsOwed => Len(log) \in Nat /\ NoRound \in Rounds
  BY LenProperties DEF SendsWhatIsOwed, FollowsTheLog, NoRound, Rounds, Steps

\* A step of the worker or of a new process, which changes nothing on the chain.
LEMMA ServerKeeps ==
  ASSUME SendsWhatIsOwed, UNCHANGED managerVars, NEW m, NEW actions \in Seq(Owed),
         Sends(m, actions), round' \in Rounds, scanned' \in 0 .. Len(log)
  PROVE  SendsWhatIsOwed'
<1>1. pending' \in Seq(Owed)
  BY SentIsOwed
<1>2. log' = log /\ due' = due
  BY DEF managerVars
<1> HIDE DEF Owed
<1>3. QED
  BY <1>1, <1>2, OwedGrows

LEMMA FailureKeeps ==
  ASSUME SendsWhatIsOwed, UNCHANGED managerVars, NEW m, NEW actions \in Seq(Owed),
         Fails(m, actions), scanned' = scanned
  PROVE  SendsWhatIsOwed'
<1>1. round' \in Rounds /\ scanned' \in 0 .. Len(log)
  BY IdleIsARound DEF Fails, SendsWhatIsOwed, FollowsTheLog
<1>2. Sends([m EXCEPT !.ready = FALSE], actions)
  BY DEF Fails
<1>3. QED
  BY <1>1, <1>2, ServerKeeps

LEMMA ScanKeeps == SendsWhatIsOwed /\ Scan => SendsWhatIsOwed'
<1> SUFFICES ASSUME SendsWhatIsOwed, Scan PROVE SendsWhatIsOwed'
  OBVIOUS
<1>1. /\ UNCHANGED managerVars /\ scanned' = scanned
      /\ round \in Rounds /\ scanned \in 0 .. Len(log) /\ Len(log) \in 0 .. Len(log)
  BY IdleIsARound DEF Scan, SendsWhatIsOwed, FollowsTheLog
<1>2. /\ <<>> \in Seq(Owed)
      /\ When(MustSetOwner, "setOwner") \in Seq(Owed)
  BY SendsAreOwed, Zenon DEF Once
<1> DEFINE called == IF MustSetOwner THEN [mem EXCEPT !.setCalled = TRUE] ELSE mem
           next == [round EXCEPT !.step = "events", !.upto = Len(log), !.at = scanned,
                                 !.force = ShouldRegisterAgain]
<1>3. \/ /\ round' = next
         /\ Sends(called, When(MustSetOwner, "setOwner"))
      \/ Fails(mem, <<>>)
      \/ Fails(called, <<>>)
  BY Zenon DEF Scan
<1>4. next \in Rounds
  <2>1. ShouldRegisterAgain \in BOOLEAN
    BY DEF ShouldRegisterAgain
  <2>2. QED
    BY <1>1, <2>1 DEF Rounds, Steps
<1> HIDE DEF called, next, Owed
<1>5. QED
  BY <1>1, <1>2, <1>3, <1>4, ServerKeeps, FailureKeeps

LEMMA HandleEventKeeps == SendsWhatIsOwed /\ HandleEvent => SendsWhatIsOwed'
<1> SUFFICES ASSUME SendsWhatIsOwed, HandleEvent PROVE SendsWhatIsOwed'
  OBVIOUS
<1> DEFINE next == round.at + 1
           m == Refreshed(mem)
           withdraws == RefreshSends \o WithdrawSends(TRUE)
           half == RefreshSends \o When("hub" \in funds, "hubToOwner")
<1>1. /\ UNCHANGED managerVars /\ scanned' = scanned
      /\ round \in Rounds /\ scanned \in 0 .. Len(log)
      /\ log \in Seq(Kinds) /\ Len(log) \in Nat
  BY IdleIsARound DEF HandleEvent, SendsWhatIsOwed, FollowsTheLog
<1>2. next \in 1 .. Len(log)
  BY <1>1 DEF HandleEvent, Rounds
<1>3. log[next] = "StakeWithdrawn" => Logged("StakeWithdrawn")
  BY <1>1, <1>2, LenProperties DEF Logged
<1>4. /\ <<>> \in Seq(Owed) /\ RefreshSends \in Seq(Owed)
      /\ log[next] = "StakeWithdrawn" => withdraws \in Seq(Owed) /\ half \in Seq(Owed)
  <2> HIDE DEF Owed
  <2>1. <<>> \in Seq(Owed) /\ RefreshSends \in Seq(Owed)
    BY SendsAreOwed
  <2>2. log[next] = "StakeWithdrawn" =>
            /\ WithdrawSends(TRUE) \in Seq(Owed)
            /\ When("hub" \in funds, "hubToOwner") \in Seq(Owed)
    BY <1>3, WithdrawalsAreOwed, Zenon
  <2>3. QED
    BY <2>1, <2>2, ConcatProperties
<1>5. [round EXCEPT !.at = next] \in Rounds
  BY <1>1, <1>2 DEF Rounds
<1> DEFINE event == log[next]
           On == round' = [round EXCEPT !.at = next]
<1>6. \/ Sends([mem EXCEPT !.hub = TRUE], <<>>) /\ On
      \/ Sends([mem EXCEPT !.hub = FALSE, !.delayed = @ \cup {next}], <<>>) /\ On
      \/ Sends(m, RefreshSends) /\ On
      \/ event = "StakeWithdrawn" /\ Sends(m, withdraws) /\ On
      \/ /\ round' = NoRound
         /\ Sends([m EXCEPT !.ready = FALSE], RefreshSends)
      \/ event = "StakeWithdrawn" /\ Fails(m, half)
      \/ Fails(mem, <<>>)
  BY Zenon DEF HandleEvent
<1> HIDE DEF event
<1>7. On \/ round' = NoRound => round' \in Rounds
  BY <1>5, IdleIsARound
<1> HIDE DEF next, m, withdraws, half, On, Owed
<1>8. CASE Fails(mem, <<>>)
  BY <1>1, <1>4, <1>8, FailureKeeps
<1>9. CASE event = "StakeWithdrawn" /\ Fails(m, half)
  BY <1>1, <1>4, <1>9, FailureKeeps DEF event
<1>10. ASSUME NEW n, NEW actions \in Seq(Owed), Sends(n, actions),
              On \/ round' = NoRound
       PROVE  SendsWhatIsOwed'
  BY <1>1, <1>7, <1>10, ServerKeeps
<1>11. QED
  BY <1>4, <1>6, <1>8, <1>9, <1>10 DEF event

LEMMA HandleDueKeeps == SendsWhatIsOwed /\ HandleDue => SendsWhatIsOwed'
<1> SUFFICES ASSUME SendsWhatIsOwed, HandleDue PROVE SendsWhatIsOwed'
  OBVIOUS
<1> DEFINE m == [mem EXCEPT !.delayed = @ \ DueNow]
           on == [round EXCEPT !.step = "register"]
<1>1. /\ UNCHANGED managerVars /\ scanned' = scanned
      /\ round \in Rounds /\ scanned \in 0 .. Len(log)
  BY DEF HandleDue, SendsWhatIsOwed, FollowsTheLog
<1>2. \/ round' = on /\ Sends(m, <<>>)
      \/ /\ DueNow # {} /\ round' = on
         /\ Sends(m, WithdrawSends(FALSE))
      \/ round' = NoRound /\ Sends([m EXCEPT !.ready = FALSE], <<>>)
  BY Zenon DEF HandleDue
<1>3. DueNow # {} => due # {}
  BY DEF DueNow
<1>4. on \in Rounds /\ NoRound \in Rounds
  BY <1>1, IdleIsARound DEF Rounds, Steps
<1> HIDE DEF m, on, Owed
<1>5. /\ <<>> \in Seq(Owed)
      /\ DueNow # {} => WithdrawSends(FALSE) \in Seq(Owed)
  BY <1>3, SendsAreOwed, WithdrawalsAreOwed, Zenon
<1>6. QED
  BY <1>1, <1>2, <1>4, <1>5, ServerKeeps

LEMMA RegisterKeeps == SendsWhatIsOwed /\ Register => SendsWhatIsOwed'
<1> SUFFICES ASSUME SendsWhatIsOwed, Register PROVE SendsWhatIsOwed'
  OBVIOUS
<1> DEFINE m == [mem EXCEPT !.info = registry # "none"]
           on == [round EXCEPT !.step = "finish"]
           registers == Append(AddWorkerSends, "register")
<1>1. /\ UNCHANGED managerVars /\ scanned' = scanned
      /\ round \in Rounds /\ scanned \in 0 .. Len(log)
  BY DEF Register, SendsWhatIsOwed, FollowsTheLog
<1>2. \/ round' = on /\ Sends(m, <<>>)
      \/ round' = on /\ Sends(m, registers)
      \/ /\ round' = on
         /\ Sends(BalanceRefreshed(Refreshed(m)),
                               RefreshSends)
      \/ Fails(m, AddWorkerSends)
  BY Zenon DEF Register
<1>3. on \in Rounds
  BY <1>1 DEF Rounds, Steps
<1>4. "register" \in Owed
  BY DEF Owed, Once
<1> HIDE DEF m, on, Owed
<1>5. /\ <<>> \in Seq(Owed) /\ AddWorkerSends \in Seq(Owed)
      /\ registers \in Seq(Owed) /\ RefreshSends \in Seq(Owed)
  BY <1>4, SendsAreOwed, AppendProperties
<1> HIDE DEF registers
<1>6. QED
  BY <1>1, <1>2, <1>3, <1>5, ServerKeeps, FailureKeeps

LEMMA WorkerKeeps == SendsWhatIsOwed /\ WorkerStep => SendsWhatIsOwed'
<1> SUFFICES ASSUME SendsWhatIsOwed, WorkerStep PROVE SendsWhatIsOwed'
  OBVIOUS
<1>1. /\ NoRound \in Rounds /\ round \in Rounds /\ scanned \in 0 .. Len(log)
      /\ Len(log) \in 0 .. Len(log) /\ pending \in Seq(Owed)
  BY IdleIsARound DEF SendsWhatIsOwed, FollowsTheLog
<1>2. CASE Wake
  <2>1. [NoRound EXCEPT !.step = "scan", !.block = Len(log)] \in Rounds
    BY <1>1 DEF Rounds, Steps
  <2>2. round' \in Rounds /\ scanned' = scanned /\ pending' = pending /\ log' = log /\ due' = due
    BY <1>1, <1>2, <2>1 DEF Wake, managerVars
  <2> HIDE DEF Owed
  <2>3. QED
    BY <1>1, <2>2, OwedGrows
<1>3. CASE Finish
  <2>1. /\ round' = NoRound /\ scanned' = round.block
        /\ UNCHANGED managerVars
        /\ \/ Sends([mem EXCEPT !.ready = FALSE], <<>>)
           \/ pending' = Queue(ReplenishSends)
    BY <1>3 DEF Finish, Scanned
  <2>2. scanned' \in 0 .. Len(log)
    BY <1>1, <2>1 DEF Rounds
  <2> HIDE DEF Owed
  <2>3. <<>> \in Seq(Owed) /\ ReplenishSends \in Seq(Owed)
    BY SendsAreOwed
  <2>4. pending' \in Seq(Owed)
    BY <1>1, <2>1, <2>3, QueueIsOwed, SentIsOwed
  <2>5. log' = log /\ due' = due
    BY <2>1 DEF managerVars
  <2>6. QED
    BY <1>1, <2>1, <2>2, <2>4, <2>5, OwedGrows
<1>4. QED
  BY <1>2, <1>3, ScanKeeps, HandleEventKeeps, HandleDueKeeps, RegisterKeeps
  DEF WorkerStep

\* The chain adds events and lets removals mature; it sends nothing for the server.
LEMMA ChainKeeps ==
  ASSUME SendsWhatIsOwed,
         \/ \E a \in Actions : Mine(a)
         \/ Environment \/ Earn \/ Age
  PROVE  SendsWhatIsOwed'
<1>1. round \in Rounds /\ scanned \in 0 .. Len(log) /\ pending \in Seq(Owed)
  BY DEF SendsWhatIsOwed, FollowsTheLog
<1>2. ASSUME UNCHANGED <<round, scanned>>, pending' \in Seq(Owed), due \subseteq due',
             log' = log \/ \E event \in Kinds : log' = Append(log, event)
      PROVE  SendsWhatIsOwed'
  <2> HIDE DEF Owed
  <2>1. QED
    BY <1>1, <1>2, OwedGrows
<1>3. ASSUME NEW a \in Actions, Mine(a) PROVE SendsWhatIsOwed'
  <2>1. /\ pending' = RemoveFirst(pending, a)
        /\ UNCHANGED <<round, scanned, due>>
    BY <1>3 DEF Mine
  <2>2. \/ Logs("OwnerSet") \/ Logs("HubAuthorized") \/ log' = log
    BY <1>3, Zenon DEF Mine
  <2>3. log' = log \/ \E event \in Kinds : log' = Append(log, event)
    BY <2>2 DEF Logs, Kinds
  <2> HIDE DEF Owed
  <2>4. pending' \in Seq(Owed)
    BY <1>1, <2>1, RemovedIsOwed
  <2>5. QED
    BY <1>2, <2>1, <2>3, <2>4
<1>4. CASE Environment
  <2>1. UNCHANGED <<round, scanned, pending>>
    BY <1>4 DEF Environment
  <2>2. /\ due \subseteq due'
        /\ log' = log \/ \E event \in Kinds : log' = Append(log, event)
    BY <1>4
    DEF Environment, OwnerStakes, OwnerUnlocks,
        OwnerWithdraws, OwnerUnauthorizes, Mature,
        Expires, OwnerFunds, Logs,
        Kinds, managerVars
  <2> HIDE DEF Owed
  <2>3. QED
    BY <1>1, <1>2, <2>1, <2>2
<1>5. CASE Earn \/ Age
  <2>1. UNCHANGED <<round, scanned, pending, due, log>>
    BY <1>5 DEF Earn, Age, managerVars
  <2> HIDE DEF Owed
  <2>2. QED
    BY <1>1, <1>2, <2>1
<1>6. QED
  BY <1>3, <1>4, <1>5

\* The server gives no money away that it still needs: whatever events it misses
\* or handles twice, it sends a withdrawal only when one is due.
THEOREM FundsLeaveWhenDue == RegistrationSpec => []WithdrawnWhenDue
<1>1. RegistrationInit => SendsWhatIsOwed
  <2> SUFFICES ASSUME RegistrationInit PROVE SendsWhatIsOwed
    OBVIOUS
  <2>1. log = <<>> /\ pending = <<>> /\ scanned = 0 /\ round = NoRound
    BY DEF RegistrationInit
  <2>2. log \in Seq(Kinds) /\ Len(log) = 0 /\ pending \in Seq(Owed)
    BY <2>1, EmptySeq
  <2>3. round \in Rounds /\ scanned \in 0 .. Len(log)
    BY <2>1, <2>2 DEF Rounds, Steps, NoRound
  <2>4. QED
    BY <2>2, <2>3 DEF SendsWhatIsOwed, FollowsTheLog
<1>2. SendsWhatIsOwed /\ [RegistrationNext]_registrationVars => SendsWhatIsOwed'
  <2> SUFFICES ASSUME SendsWhatIsOwed, [RegistrationNext]_registrationVars
               PROVE  SendsWhatIsOwed'
    OBVIOUS
  <2>1. CASE RestartServer
    <3>1. /\ round' = NoRound /\ scanned' \in 0 .. Len(log)
          /\ UNCHANGED managerVars
          /\ Sends(Refreshed(NewProcess),
                                RefreshSends)
      BY <2>1 DEF RestartServer
    <3> HIDE DEF Owed
    <3>2. QED
      BY <3>1, IdleIsARound, SendsAreOwed, ServerKeeps
  <2>2. CASE UNCHANGED registrationVars
    BY <2>2 DEF registrationVars, managerVars, bounds, SendsWhatIsOwed, FollowsTheLog, Rounds, Owed,
                Logged
  <2>3. QED
    BY <2>1, <2>2, WorkerKeeps, ChainKeeps DEF RegistrationNext
<1>3. SendsWhatIsOwed => WithdrawnWhenDue
  <2> SUFFICES ASSUME SendsWhatIsOwed PROVE WithdrawnWhenDue
    OBVIOUS
  <2>1. Pending \subseteq Owed
    <3>1. pending \in Seq(Owed)
      BY DEF SendsWhatIsOwed
    <3> HIDE DEF Owed
    <3>2. QED
      BY <3>1, LenProperties, ElementOfSeq DEF Pending, ToSet
  <2>2. QED
    BY <2>1 DEF WithdrawnWhenDue, Owed, Once,
                Withdrawals
<1>4. QED
  BY <1>1, <1>2, <1>3, PTL DEF RegistrationSpec

-----------------------------------------------------------------------------
(***************************************************************************)
(* The operator's commands.  A run reads how much there is, then pays what *)
(* is missing.  While nothing disturbs it, nobody else pays in between, so *)
(* that what there is and what is on its way are at most what was asked.   *)
(***************************************************************************)
BeforePaying == [register |-> {"ping", "info", "balance", "funding", "owner", "stake",
                               "wrap", "approve", "send"},
                 fund |-> {"deposit", "pay"},
                 withdraw |-> {}]
Afterwards == [register |-> {"verify", "wait"},
               fund |-> {},
               withdraw |-> {"owner?", "nonce", "check", "sign"}]
HasSeen == {"balance", "funding", "owner", "stake"}
WillPay == {"wrap", "approve", "send", "pay"}
Fields == {"step", "option", "seen", "value", "tries", "nonce", "undisturbed"}
Transactions ==
    [type : {"fund"}, run : Runs]
    \cup [type : {"wrap", "approve", "deposit"}, value : Int]
    \cup [type : {"authorize"}]
    \cup [type : {"stake"}, value : Int, run : Runs,
          token : {FirstToken} \cup {o.token : o \in RegisterOptions},
          delay : {o.delay : o \in RegisterOptions}]

\* What the command pays up to, how much of it there is, and how it is paid.
Goal(r) == IF kind = "register" THEN run[r].option.stake ELSE run[r].option.amount
Paid == IF kind = "register" THEN stakeInfo.stake ELSE deposit
Payment == IF kind = "register" THEN "stake" ELSE "deposit"
Pays(o, i) == pool[o][i].type \in {"stake", "deposit"}
OnTheWay == \E o \in Operators : \E i \in DOMAIN pool[o] : Pays(o, i)

RunsInOrder ==
    /\ kind \in {"register", "fund", "withdraw"}
    /\ DOMAIN run = Runs
    /\ DOMAIN stakeInfo = {"owner", "token", "stake", "delay", "authorized"}
    /\ stakeInfo.stake \in Int /\ deposit \in Int
    /\ pool \in [Operators -> Seq(Transactions)]
    /\ \A r \in Runs :
          /\ DOMAIN run[r] = Fields
          /\ run[r].step \in {"idle"} \cup BeforePaying[kind] \cup Afterwards[kind] \cup Ended
          /\ run[r].option \in OptionsOf(kind) \cup {None}
          /\ run[r].option = None <=> run[r].step = "idle"
          /\ run[r].step = "idle" => run[r].undisturbed
          /\ run[r].undisturbed \in BOOLEAN
          /\ run[r].step \in HasSeen => run[r].seen.stake \in Int
          /\ run[r].step \in WillPay => run[r].value \in Int
    /\ \A o \in Operators : \A i \in DOMAIN pool[o] : Pays(o, i) => pool[o][i].type = Payment

OneAtATime ==
    /\ \A q, r \in Runs : Active(q) /\ Active(r) => q = r
    /\ \A o, p \in Operators : \A i \in DOMAIN pool[o], j \in DOMAIN pool[p] :
          Pays(o, i) /\ Pays(p, j) => o = p /\ i = j
    /\ \A r \in Runs : run[r].step \in BeforePaying[kind] => ~OnTheWay
SeesWhatThereIs ==
    \A r \in Runs :
        /\ run[r].step \in HasSeen => run[r].seen.stake = stakeInfo.stake
        /\ run[r].step \in WillPay => run[r].value = Goal(r) - Paid
AtMostAsked ==
    /\ \/ \E s \in Starts : Paid <= IF kind = "register" THEN s.stakeInfo.stake ELSE s.deposit
       \/ \E r \in Runs : run[r].option # None /\ Paid <= Goal(r)
    /\ \A o \in Operators : \A i \in DOMAIN pool[o] : Pays(o, i) =>
          \E r \in Runs : run[r].option # None /\ Paid + pool[o][i].value <= Goal(r)

CommandInv ==
    /\ RunsInOrder
    /\ Undisturbed => OneAtATime /\ SeesWhatThereIs /\ AtMostAsked

\* The steps of each command.
LEMMA StepsBefore ==
  /\ BeforePaying["register"] = {"ping", "info", "balance", "funding", "owner", "stake",
                                 "wrap", "approve", "send"}
  /\ BeforePaying["fund"] = {"deposit", "pay"} /\ BeforePaying["withdraw"] = {}
  /\ Afterwards["register"] = {"verify", "wait"} /\ Afterwards["fund"] = {}
  /\ Afterwards["withdraw"] = {"owner?", "nonce", "check", "sign"}
  BY DEF BeforePaying, Afterwards

LEMMA CommandsInitInv == CommandsInit => CommandInv
<1> SUFFICES ASSUME CommandsInit PROVE CommandInv
  OBVIOUS
<1>1. PICK s \in Starts : kind = s.kind /\ stakeInfo = s.stakeInfo /\ deposit = s.deposit
  BY DEF CommandsInit
<1>2. /\ run = [r \in Runs |-> NewRun]
      /\ pool = [o \in Operators |-> <<>>]
  BY DEF CommandsInit
<1>3. \A r \in Runs : DOMAIN run[r] = Fields /\ run[r].step = "idle" /\ run[r].option = None
                        /\ run[r].undisturbed = TRUE
  BY <1>2 DEF NewRun, Fields
<1>4. pool \in [Operators -> Seq(Transactions)] /\ \A o \in Operators : DOMAIN pool[o] = {}
  BY <1>2, EmptySeq
<1>5. RunsInOrder
  <2> USE DEF HasSeen, WillPay
  <2>1. /\ kind \in {"register", "fund", "withdraw"}
        /\ DOMAIN stakeInfo = {"owner", "token", "stake", "delay", "authorized"}
        /\ stakeInfo.stake \in Int /\ deposit \in Int
    BY <1>1, CommandsAssumption
  <2>2. DOMAIN run = Runs
    BY <1>2
  <2>3. QED
    BY <1>3, <1>4, <2>1, <2>2 DEF RunsInOrder
<1>6. OneAtATime
  BY <1>1, <1>3, <1>4, CommandsAssumption DEF OneAtATime, Active, BeforePaying, OnTheWay
<1>7. SeesWhatThereIs
  BY <1>3 DEF SeesWhatThereIs, HasSeen, WillPay
<1>8. AtMostAsked
  BY <1>1, <1>4, CommandsAssumption DEF AtMostAsked, Paid
<1>9. QED
  BY <1>5, <1>6, <1>7, <1>8 DEF CommandInv

\* What is left to show of a step that pays nothing.
Unpaid ==
    /\ kind' = kind /\ deposit' = deposit /\ stakeInfo'.stake = stakeInfo.stake
    /\ DOMAIN stakeInfo' = DOMAIN stakeInfo
    /\ pool' \in [Operators -> Seq(Transactions)]
    /\ \A o \in Operators : \A i \in DOMAIN pool'[o] :
          Pays(o, i)' => i \in DOMAIN pool[o] /\ pool'[o][i] = pool[o][i]
GoesOn(r, stage) ==
    /\ DOMAIN run' = Runs /\ \A q \in Runs \ {r} : run'[q] = run[q]
    /\ DOMAIN run'[r] = Fields
    /\ run'[r].step = stage /\ run'[r].option = run[r].option
    /\ run'[r].undisturbed = run[r].undisturbed

LEMMA PaymentsKept ==
  ASSUME RunsInOrder, Unpaid
  PROVE  /\ OnTheWay' => OnTheWay
         /\ \A o \in Operators : \A i \in DOMAIN pool'[o] :
              Pays(o, i)' => i \in DOMAIN pool[o] /\ Pays(o, i) /\ pool'[o][i] = pool[o][i]
         /\ Paid' = Paid
  BY DEF Unpaid, OnTheWay, Pays, Paid

\* The chain goes on without the runs.
LEMMA UnpaidKeeps ==
  ASSUME CommandInv, Unpaid, run' = run
  PROVE  CommandInv'
<1>1. RunsInOrder
  BY DEF CommandInv
<1>2. RunsInOrder'
  BY <1>1, PaymentsKept DEF RunsInOrder, Unpaid, Payment
<1>3. Undisturbed' = Undisturbed
  BY DEF Undisturbed
<1>4. ASSUME Undisturbed, OneAtATime, SeesWhatThereIs, AtMostAsked
      PROVE  OneAtATime' /\ SeesWhatThereIs' /\ AtMostAsked'
  <2>1. OneAtATime'
    BY <1>1, <1>4, PaymentsKept DEF OneAtATime, Unpaid, Active
  <2>2. SeesWhatThereIs'
    BY <1>1, <1>4, PaymentsKept DEF SeesWhatThereIs, Unpaid, Goal
  <2>3. AtMostAsked'
    BY <1>1, <1>4, PaymentsKept DEF AtMostAsked, Unpaid, Goal
  <2>4. QED
    BY <2>1, <2>2, <2>3
<1>5. QED
  BY <1>2, <1>3, <1>4 DEF CommandInv

\* A run goes on without paying.
LEMMA GoingKeeps ==
  ASSUME CommandInv, Unpaid, NEW r \in Runs, NEW stage, GoesOn(r, stage), Active(r),
         stage \in BeforePaying[kind] \cup Afterwards[kind] \cup Ended,
         stage \in BeforePaying[kind] => run[r].step \in BeforePaying[kind],
         Undisturbed /\ SeesWhatThereIs =>
            /\ stage \in HasSeen => run'[r].seen.stake = stakeInfo.stake
            /\ stage \in WillPay => run'[r].value = Goal(r) - Paid,
         stage \in HasSeen => run'[r].seen.stake \in Int,
         stage \in WillPay => run'[r].value \in Int
  PROVE  CommandInv'
<1>1. RunsInOrder
  BY DEF CommandInv
<1>2. run[r].step # "idle" /\ run[r].step \notin Ended
  BY DEF Active
<1>3. stage # "idle"
  <2>1. kind \in {"register", "fund", "withdraw"}
    BY <1>1 DEF RunsInOrder
  <2>2. QED
    BY <2>1, StepsBefore DEF Ended
<1>4. RunsInOrder'
  <2>1. \A q \in Runs :
          /\ DOMAIN run'[q] = Fields
          /\ run'[q].step \in {"idle"} \cup BeforePaying[kind] \cup Afterwards[kind] \cup Ended
          /\ run'[q].option \in OptionsOf(kind) \cup {None}
          /\ run'[q].option = None <=> run'[q].step = "idle"
          /\ run'[q].step = "idle" => run'[q].undisturbed
          /\ run'[q].undisturbed \in BOOLEAN
          /\ run'[q].step \in HasSeen => run'[q].seen.stake \in Int
          /\ run'[q].step \in WillPay => run'[q].value \in Int
    BY <1>1, <1>2, <1>3 DEF RunsInOrder, GoesOn
  <2>2. /\ DOMAIN run' = Runs /\ kind' = kind
        /\ pool' \in [Operators -> Seq(Transactions)]
        /\ DOMAIN stakeInfo' = DOMAIN stakeInfo /\ stakeInfo'.stake = stakeInfo.stake
        /\ deposit' = deposit
    BY DEF GoesOn, Unpaid
  <2>3. \A o \in Operators : \A i \in DOMAIN pool'[o] : Pays(o, i)' => pool'[o][i].type = Payment
    BY <1>1, PaymentsKept DEF RunsInOrder
  <2>4. QED
    BY <1>1, <2>1, <2>2, <2>3 DEF RunsInOrder, Payment
<1>5. Undisturbed' = Undisturbed
  <2>1. \A q \in Runs : run'[q].undisturbed = run[q].undisturbed
    BY DEF GoesOn
  <2>2. QED
    BY <2>1 DEF Undisturbed
<1>6. \A q \in Runs : run'[q].option = run[q].option /\ Goal(q)' = Goal(q)
  BY DEF GoesOn, Unpaid, Goal
<1>7. \A q \in Runs : Active(q)' => Active(q)
  BY <1>2 DEF Active, GoesOn
<1>8. ASSUME Undisturbed, OneAtATime, SeesWhatThereIs, AtMostAsked
      PROVE  OneAtATime' /\ SeesWhatThereIs' /\ AtMostAsked'
  <2>1. OneAtATime'
    <3>1. \A q \in Runs : run'[q].step \in BeforePaying[kind] => run[q].step \in BeforePaying[kind]
      BY DEF GoesOn
    <3>2. QED
      BY <1>1, <1>7, <1>8, <3>1, PaymentsKept DEF OneAtATime, Unpaid
  <2>2. SeesWhatThereIs'
    <3>1. \A q \in Runs : run'[q].step \in HasSeen =>
             run'[q].seen.stake = stakeInfo.stake
      BY <1>8 DEF SeesWhatThereIs, GoesOn
    <3>2. \A q \in Runs : run'[q].step \in WillPay =>
             run'[q].value = Goal(q) - Paid
      BY <1>8 DEF SeesWhatThereIs, GoesOn
    <3>3. QED
      BY <1>1, <1>6, <3>1, <3>2, PaymentsKept DEF SeesWhatThereIs, Unpaid
  <2>3. AtMostAsked'
    BY <1>1, <1>6, <1>8, PaymentsKept DEF AtMostAsked, Unpaid
  <2>4. QED
    BY <2>1, <2>2, <2>3
<1>9. QED
  BY <1>4, <1>5, <1>8 DEF CommandInv

\* The steps of an active run are those of its command.
LEMMA KindOfStep ==
  ASSUME RunsInOrder, NEW r \in Runs
  PROVE  /\ run[r].step \in BeforePaying["register"] \cup Afterwards["register"] =>
                /\ kind = "register" /\ run[r].option \in RegisterOptions
                /\ From(r) \in Operators /\ run[r].option.stake \in Nat
         /\ run[r].step \in BeforePaying["fund"] =>
                /\ kind = "fund" /\ run[r].option \in FundAmounts
                /\ From(r) \in Operators /\ run[r].option.amount \in Nat
         /\ run[r].step \in Afterwards["withdraw"] => kind = "withdraw"
<1>1. /\ kind \in {"register", "fund", "withdraw"}
      /\ run[r].step \in {"idle"} \cup BeforePaying[kind] \cup Afterwards[kind] \cup Ended
      /\ run[r].option \in OptionsOf(kind) \cup {None}
      /\ run[r].option = None <=> run[r].step = "idle"
  BY DEF RunsInOrder
<1>2. /\ OptionsOf("register") = RegisterOptions /\ OptionsOf("fund") = FundAmounts
  BY DEF OptionsOf
<1>3. CASE kind = "register"
  BY <1>1, <1>2, <1>3, StepsBefore, CommandsAssumption DEF Ended, From
<1>4. CASE kind = "fund"
  BY <1>1, <1>2, <1>4, StepsBefore, CommandsAssumption DEF Ended, From
<1>5. CASE kind = "withdraw"
  BY <1>1, <1>5, StepsBefore DEF Ended
<1>6. QED
  BY <1>1, <1>3, <1>4, <1>5

LEMMA SameIsUnpaid ==
  ASSUME RunsInOrder, UNCHANGED <<kind, deposit, stakeInfo, pool>>
  PROVE  Unpaid
  BY DEF RunsInOrder, Unpaid

LEMMA Appended ==
  ASSUME RunsInOrder, NEW o \in Operators, NEW tx \in Transactions, Send(o, tx)
  PROVE  /\ pool' \in [Operators -> Seq(Transactions)]
         /\ \A p \in Operators : \A i \in DOMAIN pool'[p] :
               \/ i \in DOMAIN pool[p] /\ pool'[p][i] = pool[p][i]
               \/ p = o /\ i = Len(pool[o]) + 1 /\ pool'[p][i] = tx
<1>1. pool \in [Operators -> Seq(Transactions)] /\ pool' = [pool EXCEPT ![o] = Append(@, tx)]
  BY DEF RunsInOrder, Send
<1>2. pool[o] \in Seq(Transactions)
  BY <1>1
<1>3. /\ Append(pool[o], tx) \in Seq(Transactions)
      /\ DOMAIN Append(pool[o], tx) = 1 .. Len(pool[o]) + 1
      /\ \A i \in 1 .. Len(pool[o]) : Append(pool[o], tx)[i] = pool[o][i]
      /\ Append(pool[o], tx)[Len(pool[o]) + 1] = tx
      /\ DOMAIN pool[o] = 1 .. Len(pool[o]) /\ Len(pool[o]) \in Nat
  BY <1>2, AppendProperties, LenProperties
<1>4. pool'[o] = Append(pool[o], tx) /\ \A p \in Operators \ {o} : pool'[p] = pool[p]
  BY <1>1
<1>5. ASSUME NEW p \in Operators, NEW i \in DOMAIN pool'[p]
      PROVE  \/ i \in DOMAIN pool[p] /\ pool'[p][i] = pool[p][i]
             \/ p = o /\ i = Len(pool[o]) + 1 /\ pool'[p][i] = tx
  BY <1>3, <1>4, <1>5
<1>6. QED
  BY <1>1, <1>3, <1>5

LEMMA SentIsUnpaid ==
  ASSUME RunsInOrder, NEW o \in Operators, NEW tx \in Transactions, Send(o, tx),
         tx.type \notin {"stake", "deposit"}, UNCHANGED <<kind, deposit, stakeInfo>>
  PROVE  Unpaid
  BY Appended DEF Unpaid, Pays

\* A run that only changes its step.
LEMMA ToGoes ==
  ASSUME RunsInOrder, NEW r \in Runs, NEW stage, To(r, stage)
  PROVE  GoesOn(r, stage) /\ run'[r].seen = run[r].seen /\ run'[r].value = run[r].value
  BY DEF RunsInOrder, GoesOn, To, Fields

LEMMA ToKeeps ==
  ASSUME CommandInv, Unpaid, NEW r \in Runs, NEW stage, To(r, stage), Active(r),
         stage \in BeforePaying[kind] \cup Afterwards[kind] \cup Ended,
         stage \in BeforePaying[kind] => run[r].step \in BeforePaying[kind],
         stage \in HasSeen => run[r].step \in HasSeen,
         stage \in WillPay => run[r].step \in WillPay
  PROVE  CommandInv'
<1>1. RunsInOrder
  BY DEF CommandInv
<1>2. GoesOn(r, stage) /\ run'[r].seen = run[r].seen /\ run'[r].value = run[r].value
  BY <1>1, ToGoes
<1>3. /\ stage \in HasSeen => run'[r].seen.stake \in Int
      /\ stage \in WillPay => run'[r].value \in Int
  BY <1>1, <1>2 DEF RunsInOrder
<1>4. SeesWhatThereIs =>
        /\ stage \in HasSeen => run'[r].seen.stake = stakeInfo.stake
        /\ stage \in WillPay => run'[r].value = Goal(r) - Paid
  BY <1>2 DEF SeesWhatThereIs
<1>5. QED
  BY <1>2, <1>3, <1>4, GoingKeeps

\* The run that pays is the one under way, and nothing else has been paid.
LEMMA PayingKeeps ==
  ASSUME CommandInv, NEW r \in Runs, NEW stage \in Afterwards[kind] \cup Ended, To(r, stage),
         run[r].step \in WillPay \cap BeforePaying[kind],
         NEW o \in Operators, NEW tx \in Transactions, Send(o, tx),
         tx.type = Payment, tx.value = run[r].value,
         UNCHANGED <<kind, deposit, stakeInfo>>
  PROVE  CommandInv'
<1>1. RunsInOrder
  BY DEF CommandInv
<1>2. kind \in {"register", "fund", "withdraw"}
  BY <1>1 DEF RunsInOrder
<1>3. /\ stage \notin BeforePaying[kind] \cup HasSeen \cup WillPay /\ stage # "idle"
      /\ Active(r)
      /\ \A q \in Runs : run[q].step \in BeforePaying[kind] => Active(q)
  BY <1>2, StepsBefore DEF HasSeen, WillPay, Ended, Active
<1>4. GoesOn(r, stage)
  BY <1>1, ToGoes
<1>5. /\ pool' \in [Operators -> Seq(Transactions)]
      /\ \A p \in Operators : \A i \in DOMAIN pool'[p] :
            \/ i \in DOMAIN pool[p] /\ pool'[p][i] = pool[p][i]
            \/ p = o /\ i = Len(pool[o]) + 1 /\ pool'[p][i] = tx
  BY <1>1, Appended
<1>6. RunsInOrder'
  <2>1. \A q \in Runs :
          /\ DOMAIN run'[q] = Fields
          /\ run'[q].step \in {"idle"} \cup BeforePaying[kind] \cup Afterwards[kind] \cup Ended
          /\ run'[q].option \in OptionsOf(kind) \cup {None}
          /\ run'[q].option = None <=> run'[q].step = "idle"
          /\ run'[q].step = "idle" => run'[q].undisturbed
          /\ run'[q].undisturbed \in BOOLEAN
          /\ run'[q].step \in HasSeen => run'[q].seen.stake \in Int
          /\ run'[q].step \in WillPay => run'[q].value \in Int
    BY <1>1, <1>3, <1>4 DEF RunsInOrder, GoesOn, Active
  <2>2. \A p \in Operators : \A i \in DOMAIN pool'[p] : Pays(p, i)' => pool'[p][i].type = Payment
    BY <1>1, <1>5 DEF RunsInOrder, Pays
  <2>3. DOMAIN run' = Runs
    BY <1>4 DEF GoesOn
  <2>4. QED
    BY <1>1, <1>5, <2>1, <2>2, <2>3 DEF RunsInOrder, Payment
<1>7. Undisturbed' = Undisturbed
  <2>1. \A q \in Runs : run'[q].undisturbed = run[q].undisturbed
    BY <1>4 DEF GoesOn
  <2>2. QED
    BY <2>1 DEF Undisturbed
<1>8. /\ Paid' = Paid
      /\ \A q \in Runs : run'[q].option = run[q].option /\ Goal(q)' = Goal(q)
  BY <1>4 DEF GoesOn, Goal, Paid
<1>9. ASSUME Undisturbed, OneAtATime, SeesWhatThereIs, AtMostAsked
      PROVE  OneAtATime' /\ SeesWhatThereIs' /\ AtMostAsked'
  <2>1. \A q \in Runs : Active(q) => q = r
    BY <1>3, <1>9 DEF OneAtATime
  <2>2. \A q \in Runs : run'[q].step \notin BeforePaying[kind] /\ (Active(q)' => Active(q))
    BY <1>3, <1>4, <2>1 DEF GoesOn, Active
  <2>3. ~OnTheWay
    BY <1>9 DEF OneAtATime
  <2>4. \A p \in Operators : \A i \in DOMAIN pool'[p] :
           Pays(p, i)' => p = o /\ i = Len(pool[o]) + 1 /\ pool'[p][i] = tx
    BY <1>5, <2>3 DEF OnTheWay, Pays
  <2>5. OneAtATime'
    BY <2>1, <2>2, <2>4 DEF OneAtATime
  <2>6. SeesWhatThereIs'
    BY <1>3, <1>4, <1>8, <1>9 DEF SeesWhatThereIs, GoesOn
  <2>7. AtMostAsked'
    <3>1. \/ \E s \in Starts : Paid <= IF kind = "register" THEN s.stakeInfo.stake ELSE s.deposit
          \/ \E q \in Runs : run[q].option # None /\ Paid <= Goal(q)
      BY <1>9 DEF AtMostAsked
    <3>2. run[r].option # None /\ Paid + tx.value = Goal(r) /\ Paid + tx.value <= Goal(r)
      <4>1. run[r].option # None /\ run[r].step \in BeforePaying[kind]
        BY <1>1, <1>3 DEF RunsInOrder, Active
      <4>2. tx.value = Goal(r) - Paid
        BY <1>9 DEF SeesWhatThereIs
      <4>3. Paid \in Int
        BY <1>1 DEF RunsInOrder, Paid
      <4>4. Goal(r) \in Int
        <5>1. kind # "withdraw"
          BY <4>1, StepsBefore
        <5>2. kind = "register" => run[r].option.stake \in Nat
          BY <1>1, <4>1, KindOfStep
        <5>3. kind = "fund" => run[r].option.amount \in Nat
          BY <1>1, <4>1, KindOfStep
        <5>4. QED
          BY <1>2, <5>1, <5>2, <5>3 DEF Goal
      <4>5. QED
        BY <4>1, <4>2, <4>3, <4>4
    <3>3. QED
      BY <1>8, <2>4, <3>1, <3>2 DEF AtMostAsked
  <2>8. QED
    BY <2>5, <2>6, <2>7
<1>10. QED
  BY <1>6, <1>7, <1>9 DEF CommandInv

\* A command begins.
LEMMA StartKeeps ==
  ASSUME CommandInv, NEW r \in Runs, Start(r)
  PROVE  CommandInv'
<1>1. RunsInOrder /\ kind \in {"register", "fund", "withdraw"} /\ run[r].step = "idle"
  BY DEF CommandInv, RunsInOrder, Start, At
<1>2. UNCHANGED <<kind, deposit, stakeInfo, pool>>
  BY DEF Start, accountVars, fixedVars
<1>3. PICK option \in OptionsOf(kind) :
        run' = [q \in Runs |->
                  IF q = r THEN [run[q] EXCEPT !.step = FirstStep[kind], !.option = option,
                                    !.undisturbed = (\A p \in Runs : ~Active(p)) /\ NothingPending]
                  ELSE [run[q] EXCEPT !.undisturbed = @ /\ ~Active(q)]]
  BY DEF Start
<1>4. /\ DOMAIN run'[r] = Fields /\ run'[r].step = FirstStep[kind] /\ run'[r].option = option
      /\ run'[r].undisturbed = ((\A p \in Runs : ~Active(p)) /\ NothingPending)
  BY <1>1, <1>3 DEF RunsInOrder, Fields
<1>5. \A q \in Runs \ {r} :
         /\ DOMAIN run'[q] = Fields /\ run'[q].step = run[q].step
         /\ run'[q].option = run[q].option
         /\ run'[q].seen = run[q].seen /\ run'[q].value = run[q].value
         /\ run'[q].undisturbed = (run[q].undisturbed /\ ~Active(q))
  BY <1>1, <1>3 DEF RunsInOrder, Fields
<1>6. /\ FirstStep[kind] \in BeforePaying[kind] \cup Afterwards[kind]
      /\ FirstStep[kind] \notin {"idle"} \cup HasSeen \cup WillPay
  BY <1>1, StepsBefore DEF FirstStep, HasSeen, WillPay
<1>7. option # None
  BY <1>1, CommandsAssumption DEF OptionsOf
<1>8. RunsInOrder'
  <2>1. ASSUME NEW q \in Runs \ {r}
        PROVE  /\ DOMAIN run'[q] = Fields
               /\ run'[q].step \in {"idle"} \cup BeforePaying[kind] \cup Afterwards[kind] \cup Ended
               /\ run'[q].option \in OptionsOf(kind) \cup {None}
               /\ run'[q].option = None <=> run'[q].step = "idle"
               /\ run'[q].step \in HasSeen => run'[q].seen.stake \in Int
               /\ run'[q].step \in WillPay => run'[q].value \in Int
    BY <1>1, <1>5 DEF RunsInOrder
  <2>2. /\ DOMAIN run'[r] = Fields
        /\ run'[r].step \in {"idle"} \cup BeforePaying[kind] \cup Afterwards[kind] \cup Ended
        /\ run'[r].option \in OptionsOf(kind) \cup {None}
        /\ run'[r].option = None <=> run'[r].step = "idle"
        /\ run'[r].step = "idle" => run'[r].undisturbed
        /\ run'[r].undisturbed \in BOOLEAN
        /\ run'[r].step \in HasSeen => run'[r].seen.stake \in Int
        /\ run'[r].step \in WillPay => run'[r].value \in Int
    BY <1>4, <1>6, <1>7
  <2>3. ASSUME NEW q \in Runs \ {r}
        PROVE  (run'[q].step = "idle" => run'[q].undisturbed) /\ run'[q].undisturbed \in BOOLEAN
    <3>1. run[q].step = "idle" => run[q].undisturbed /\ ~Active(q)
      BY <1>1 DEF RunsInOrder, Active
    <3>2. run'[q].step = run[q].step /\ run'[q].undisturbed = (run[q].undisturbed /\ ~Active(q))
      BY <1>5
    <3>3. QED
      BY <3>1, <3>2
  <2>4. DOMAIN run' = Runs
    BY <1>3
  <2>5. /\ DOMAIN stakeInfo' = {"owner", "token", "stake", "delay", "authorized"}
        /\ kind' \in {"register", "fund", "withdraw"}
        /\ stakeInfo'.stake \in Int /\ deposit' \in Int
        /\ pool' \in [Operators -> Seq(Transactions)]
        /\ \A o \in Operators : \A i \in DOMAIN pool'[o] : Pays(o, i)' => pool'[o][i].type = Payment'
    BY <1>1, <1>2 DEF RunsInOrder, Pays, Payment
  <2> HIDE <1>3
  <2>6. QED
    BY <1>2, <2>1, <2>2, <2>3, <2>4, <2>5 DEF RunsInOrder
<1>9. ASSUME Undisturbed'
      PROVE  /\ Undisturbed /\ \A p \in Runs : ~Active(p)
             /\ \A o \in Operators : pool[o] = <<>>
  <2>1. \A q \in Runs : run'[q].undisturbed
    BY <1>9 DEF Undisturbed
  <2>2. (\A p \in Runs : ~Active(p)) /\ NothingPending
    BY <1>4, <2>1
  <2>3. \A q \in Runs : run[q].undisturbed
    BY <1>1, <1>5, <2>1 DEF RunsInOrder
  <2>4. QED
    BY <2>2, <2>3 DEF NothingPending, Undisturbed
<1>10. ASSUME OneAtATime, SeesWhatThereIs, AtMostAsked, \A p \in Runs : ~Active(p),
              \A o \in Operators : pool[o] = <<>>
       PROVE  OneAtATime' /\ SeesWhatThereIs' /\ AtMostAsked'
  <2>1. \A o \in Operators : DOMAIN pool'[o] = {}
    BY <1>2, <1>10, EmptySeq
  <2>2. \A q \in Runs : Active(q)' => q = r
    BY <1>5, <1>10 DEF Active
  <2>3. OneAtATime'
    BY <2>1, <2>2 DEF OneAtATime, OnTheWay
  <2>4. Paid' = Paid /\ \A q \in Runs \ {r} : Goal(q)' = Goal(q)
    BY <1>2, <1>5 DEF Paid, Goal
  <2>5. SeesWhatThereIs'
    BY <1>2, <1>4, <1>5, <1>6, <1>10, <2>4 DEF SeesWhatThereIs
  <2>6. \A q \in Runs : run[q].option # None => q # r
    BY <1>1 DEF RunsInOrder
  <2>7. AtMostAsked'
    BY <1>2, <1>5, <1>10, <2>1, <2>4, <2>6 DEF AtMostAsked
  <2>8. QED
    BY <2>3, <2>5, <2>7
<1>11. QED
  BY <1>8, <1>9, <1>10 DEF CommandInv

\* A run of a command goes on.
LEMMA RegisterRelayKeeps ==
  ASSUME CommandInv, NEW r \in Runs, RegisterRelay(r)
  PROVE  CommandInv'
<1>1. RunsInOrder /\ DOMAIN run = Runs /\ DOMAIN run[r] = Fields
  BY DEF CommandInv, RunsInOrder
<1>2. /\ kind = "register" /\ run[r].option \in RegisterOptions /\ From(r) \in Operators
      /\ run[r].option.stake \in Nat /\ Active(r)
  BY <1>1, KindOfStep, StepsBefore
  DEF RegisterRelay, Ping, ReadStakeInfo, FundRelay, RelayFunded, WaitForOwner, CheckStake,
      Wrap, Approve, SendStake, Authorize, WaitForRelay, At, Active, Ended
<1> USE StepsBefore DEF Ended, HasSeen, WillPay
<1>3. UNCHANGED <<kind, deposit, stakeInfo>>
  BY DEF RegisterRelay, Ping, ReadStakeInfo, FundRelay, RelayFunded, WaitForOwner, CheckStake,
         Wrap, Approve, SendStake, Authorize, WaitForRelay, accountVars, fixedVars
<1>4. ASSUME UNCHANGED pool PROVE Unpaid
  BY <1>1, <1>3, <1>4, SameIsUnpaid
<1>5. ASSUME UNCHANGED pool, GivesUp(r) PROVE CommandInv'
  BY <1>2, <1>4, <1>5, ToKeeps DEF GivesUp
<1>6. ASSUME Ping(r) PROVE CommandInv'
  <2>1. UNCHANGED pool /\ (GivesUp(r) \/ To(r, "info")) /\ run[r].step = "ping"
    BY <1>6 DEF Ping, At
  <2>2. QED
    BY <1>2, <1>4, <1>5, <2>1, ToKeeps
<1>7. ASSUME ReadStakeInfo(r) PROVE CommandInv'
  <2>1. UNCHANGED pool /\ run[r].step = "info"
    BY <1>7 DEF ReadStakeInfo, At
  <2>2. CASE run' = [run EXCEPT ![r].step = "balance", ![r].seen = stakeInfo]
    <3>1. GoesOn(r, "balance") /\ run'[r].seen.stake = stakeInfo.stake
      BY <1>1, <2>2 DEF GoesOn, Fields
    <3>2. stakeInfo.stake \in Int
      BY <1>1 DEF RunsInOrder
    <3>3. QED
      BY <1>2, <1>4, <2>1, <3>1, <3>2, GoingKeeps
  <2>3. QED
    BY <1>5, <1>7, <2>1, <2>2 DEF ReadStakeInfo
<1>8. ASSUME FundRelay(r) PROVE CommandInv'
  <2>1. run[r].step = "balance" /\ AfterFunding(r) \in {"owner", "stake"}
    BY <1>8 DEF FundRelay, At, AfterFunding
  <2>2. CASE To(r, AfterFunding(r)) /\ UNCHANGED pool
    BY <1>2, <1>4, <2>1, <2>2, ToKeeps
  <2>3. CASE To(r, "funding") /\ Send(From(r), [type |-> "fund", run |-> r])
    <3>1. [type |-> "fund", run |-> r] \in Transactions
      BY DEF Transactions
    <3>2. Unpaid
      BY <1>1, <1>2, <1>3, <2>3, <3>1, SentIsUnpaid
    <3>3. QED
      BY <1>2, <2>1, <2>3, <3>2, ToKeeps
  <2>4. QED
    BY <1>8, <2>2, <2>3 DEF FundRelay
<1>9. ASSUME RelayFunded(r) PROVE CommandInv'
  <2>1. /\ UNCHANGED pool /\ run[r].step = "funding" /\ To(r, AfterFunding(r))
        /\ AfterFunding(r) \in {"owner", "stake"}
    BY <1>9 DEF RelayFunded, At, AfterFunding
  <2>2. QED
    BY <1>2, <1>4, <2>1, ToKeeps
<1>10. ASSUME WaitForOwner(r) PROVE CommandInv'
  <2>1. UNCHANGED pool /\ run[r].step = "owner"
    BY <1>10 DEF WaitForOwner, At
  <2>2. CASE To(r, "stake")
    BY <1>2, <1>4, <2>1, <2>2, ToKeeps
  <2>3. CASE run' = [run EXCEPT ![r].tries = NextTry(@)]
    <3>1. GoesOn(r, "owner") /\ run'[r].seen = run[r].seen
      BY <1>1, <2>1, <2>3 DEF GoesOn, Fields
    <3>2. run[r].seen.stake \in Int /\ (SeesWhatThereIs => run[r].seen.stake = stakeInfo.stake)
      BY <1>1, <2>1 DEF RunsInOrder, SeesWhatThereIs
    <3>3. QED
      BY <1>2, <1>4, <2>1, <3>1, <3>2, GoingKeeps
  <2>4. QED
    BY <1>5, <1>10, <2>1, <2>2, <2>3 DEF WaitForOwner
<1>11. ASSUME CheckStake(r) PROVE CommandInv'
  <2>1. UNCHANGED pool /\ run[r].step = "stake"
    BY <1>11 DEF CheckStake, At
  <2>2. CASE To(r, "verify")
    BY <1>2, <1>4, <2>1, <2>2, ToKeeps
  <2>3. CASE run' = [run EXCEPT ![r].step = "wrap",
                                ![r].value = Missing(run[r].option.stake, run[r].seen.stake)]
    <3>1. GoesOn(r, "wrap") /\ run'[r].value = run[r].option.stake - run[r].seen.stake
      BY <1>1, <2>3 DEF GoesOn, Fields, Missing
    <3>2. run[r].seen.stake \in Int /\ (SeesWhatThereIs => run[r].seen.stake = stakeInfo.stake)
      BY <1>1, <2>1 DEF RunsInOrder, SeesWhatThereIs
    <3>3. run'[r].value \in Int /\ (SeesWhatThereIs => run'[r].value = Goal(r) - Paid)
      BY <1>2, <3>1, <3>2 DEF Goal, Paid
    <3>4. QED
      BY <1>2, <1>4, <2>1, <3>1, <3>3, GoingKeeps
  <2>4. QED
    BY <1>5, <1>11, <2>1, <2>2, <2>3 DEF CheckStake
<1>12. ASSUME NEW type \in {"wrap", "approve"}, NEW stage \in {"approve", "send"},
              run[r].step \in {"wrap", "approve"}, To(r, stage),
              \/ Send(From(r), [type |-> type, value |-> run[r].value])
              \/ UNCHANGED pool
       PROVE  CommandInv'
  <2>1. [type |-> type, value |-> run[r].value] \in Transactions
    BY <1>1, <1>12 DEF RunsInOrder, Transactions
  <2>2. Unpaid
    BY <1>1, <1>2, <1>3, <1>4, <1>12, <2>1, SentIsUnpaid
  <2>3. QED
    BY <1>2, <1>12, <2>2, ToKeeps
<1>13. ASSUME Wrap(r) \/ Approve(r) PROVE CommandInv'
  BY <1>12, <1>13 DEF Wrap, Approve, At
<1>14. ASSUME SendStake(r) PROVE CommandInv'
  <2> DEFINE tx == [type |-> "stake", value |-> run[r].value, run |-> r,
                    token |-> StakingToken(r), delay |-> run[r].option.delay]
  <2>1. run[r].step = "send"
    BY <1>14 DEF SendStake, At
  <2>2. CASE GivesUp(r) /\ UNCHANGED pool
    BY <1>5, <2>2
  <2>3. CASE To(r, "verify") /\ Send(From(r), tx)
    <3>1. run[r].value \in Int
      BY <1>1, <2>1 DEF RunsInOrder
    <3>2. tx \in Transactions
      BY <1>2, <3>1 DEF Transactions, StakingToken
    <3>3. tx.type = Payment /\ tx.value = run[r].value
      BY <1>2 DEF Payment
    <3> HIDE DEF tx
    <3>4. QED
      BY <1>2, <1>3, <2>1, <2>3, <3>2, <3>3, PayingKeeps
  <2>4. QED
    BY <1>14, <2>2, <2>3 DEF SendStake
<1>15. ASSUME Authorize(r) PROVE CommandInv'
  <2>1. run[r].step = "verify" /\ To(r, "wait")
    BY <1>15 DEF Authorize, At
  <2>2. [type |-> "authorize"] \in Transactions
    BY DEF Transactions
  <2>3. Unpaid
    BY <1>1, <1>2, <1>3, <1>4, <1>15, <2>2, SentIsUnpaid DEF Authorize
  <2>4. QED
    BY <1>2, <2>1, <2>3, ToKeeps
<1>16. ASSUME WaitForRelay(r) PROVE CommandInv'
  <2>1. UNCHANGED pool /\ (To(r, "success") \/ To(r, "failed"))
    BY <1>16 DEF WaitForRelay, TimedOut
  <2>2. QED
    BY <1>2, <1>4, <2>1, ToKeeps
<1>17. QED
  BY <1>6, <1>7, <1>8, <1>9, <1>10, <1>11, <1>13, <1>14, <1>15, <1>16 DEF RegisterRelay

LEMMA FundKeeps ==
  ASSUME CommandInv, NEW r \in Runs, ReadDeposit(r) \/ DepositFor(r)
  PROVE  CommandInv'
<1>1. RunsInOrder /\ DOMAIN run = Runs /\ DOMAIN run[r] = Fields
  BY DEF CommandInv, RunsInOrder
<1>2. /\ kind = "fund" /\ run[r].option \in FundAmounts /\ From(r) \in Operators
      /\ run[r].option.amount \in Nat /\ Active(r)
  BY <1>1, KindOfStep, StepsBefore DEF ReadDeposit, DepositFor, At, Active, Ended
<1> USE StepsBefore DEF Ended, HasSeen, WillPay
<1>3. UNCHANGED <<kind, deposit, stakeInfo>>
  BY DEF ReadDeposit, DepositFor, accountVars, fixedVars
<1>4. ASSUME ReadDeposit(r) PROVE CommandInv'
  <2>1. Unpaid /\ run[r].step = "deposit"
    BY <1>1, <1>3, <1>4, SameIsUnpaid DEF ReadDeposit, At
  <2>2. CASE To(r, "success")
    BY <1>2, <2>1, <2>2, ToKeeps
  <2>3. CASE run' = [run EXCEPT ![r].step = "pay",
                                ![r].value = Missing(run[r].option.amount, deposit)]
    <3>1. GoesOn(r, "pay") /\ run'[r].value = run[r].option.amount - deposit
      BY <1>1, <2>3 DEF GoesOn, Fields, Missing
    <3>2. run'[r].value \in Int /\ run'[r].value = Goal(r) - Paid
      BY <1>1, <1>2, <3>1 DEF Goal, Paid, RunsInOrder
    <3>3. QED
      BY <1>2, <2>1, <3>1, <3>2, GoingKeeps
  <2>4. QED
    BY <1>4, <2>2, <2>3 DEF ReadDeposit
<1>5. ASSUME DepositFor(r) PROVE CommandInv'
  <2> DEFINE tx == [type |-> "deposit", value |-> run[r].value]
  <2>1. run[r].step = "pay" /\ To(r, "success") /\ Send(From(r), tx)
    BY <1>5 DEF DepositFor, At
  <2>2. tx \in Transactions
    BY <1>1, <2>1 DEF RunsInOrder, Transactions
  <2>3. tx.type = Payment /\ tx.value = run[r].value
    BY <1>2 DEF Payment
  <2> HIDE DEF tx
  <2>4. QED
    BY <1>2, <1>3, <2>1, <2>2, <2>3, PayingKeeps
<1>6. QED
  BY <1>4, <1>5

LEMMA WithdrawKeeps ==
  ASSUME CommandInv, NEW r \in Runs, Withdraw(r)
  PROVE  CommandInv'
<1>1. RunsInOrder /\ DOMAIN run = Runs /\ DOMAIN run[r] = Fields
  BY DEF CommandInv, RunsInOrder
<1>2. kind = "withdraw" /\ Active(r)
  BY <1>1, KindOfStep, StepsBefore
  DEF Withdraw, CheckOwner, ReadNonce, ViewMode, BroadcastWithdrawal, At, Active, Ended
<1> USE StepsBefore DEF Ended, HasSeen, WillPay
<1>3. Unpaid
  BY <1>1, SameIsUnpaid
  DEF Withdraw, CheckOwner, ReadNonce, ViewMode, BroadcastWithdrawal, accountVars, fixedVars
<1>4. ASSUME NEW stage \in {"nonce", "sign", "failed", "success"}, To(r, stage) PROVE CommandInv'
  BY <1>2, <1>3, <1>4, ToKeeps
<1>5. ASSUME ReadNonce(r) PROVE CommandInv'
  <2>1. GoesOn(r, "check")
    BY <1>1, <1>5 DEF ReadNonce, GoesOn, Fields
  <2>2. QED
    BY <1>2, <1>3, <2>1, GoingKeeps
<1>6. ASSUME CheckOwner(r) \/ ViewMode(r) \/ BroadcastWithdrawal(r)
      PROVE  \E stage \in {"nonce", "sign", "failed", "success"} : To(r, stage)
  BY <1>6 DEF CheckOwner, ViewMode, BroadcastWithdrawal, GivesUp
<1>7. QED
  BY <1>4, <1>5, <1>6 DEF Withdraw

\* A mined transaction pays what it was sent for, or nothing.
LEMMA Mined ==
  ASSUME RunsInOrder, NEW o \in Operators, MineTx(o)
  PROVE  /\ pool' \in [Operators -> Seq(Transactions)]
         /\ \A p \in Operators : \A i \in DOMAIN pool'[p] :
               \E j \in DOMAIN pool[p] : /\ pool'[p][i] = pool[p][j]
                                         /\ j = IF p = o THEN i + 1 ELSE i
         /\ \A p \in Operators : DOMAIN pool'[p] \subseteq Nat \ {0}
         /\ 1 \in DOMAIN pool[o] /\ Head(pool[o]) = pool[o][1]
         /\ pool[o][1] \in Transactions
<1>1. pool \in [Operators -> Seq(Transactions)] /\ pool' = [pool EXCEPT ![o] = Tail(@)]
  BY DEF RunsInOrder, MineTx
<1>2. pool[o] \in Seq(Transactions) /\ pool[o] # <<>>
  BY <1>1 DEF MineTx
<1>3. /\ Tail(pool[o]) \in Seq(Transactions)
      /\ DOMAIN Tail(pool[o]) = 1 .. Len(pool[o]) - 1
      /\ \A i \in 1 .. Len(pool[o]) - 1 : Tail(pool[o])[i] = pool[o][i + 1]
      /\ Head(pool[o]) = pool[o][1]
      /\ DOMAIN pool[o] = 1 .. Len(pool[o]) /\ Len(pool[o]) \in Nat /\ Len(pool[o]) > 0
  BY <1>2
<1>4. pool'[o] = Tail(pool[o]) /\ \A p \in Operators \ {o} : pool'[p] = pool[p]
  BY <1>1
<1>5. \A p \in Operators : DOMAIN pool'[p] \subseteq Nat \ {0}
  BY <1>1, <1>3, <1>4
<1>6. ASSUME NEW p \in Operators, NEW i \in DOMAIN pool'[p]
      PROVE  \E j \in DOMAIN pool[p] : /\ pool'[p][i] = pool[p][j]
                                       /\ j = IF p = o THEN i + 1 ELSE i
  <2>1. CASE p = o
    <3>1. i \in 1 .. Len(pool[o]) - 1
      BY <1>3, <1>4, <1>6, <2>1
    <3>2. i + 1 \in DOMAIN pool[o] /\ pool'[o][i] = pool[o][i + 1]
      BY <1>3, <1>4, <3>1
    <3>3. QED
      BY <2>1, <3>2
  <2>2. CASE p # o
    <3>1. pool'[p] = pool[p]
      BY <1>4, <2>2
    <3>2. QED
      BY <1>6, <2>2, <3>1
  <2>3. QED
    BY <2>1, <2>2
<1>7. pool' \in [Operators -> Seq(Transactions)] /\ pool[o][1] \in Transactions
  BY <1>1, <1>2, <1>3
<1>8. QED
  BY <1>3, <1>5, <1>6, <1>7

LEMMA MineTxKeeps ==
  ASSUME CommandInv, NEW o \in Operators, MineTx(o)
  PROVE  CommandInv'
<1> DEFINE tx == pool[o][1]
<1>1. RunsInOrder /\ run' = run /\ kind' = kind
  BY DEF CommandInv, MineTx, fixedVars
<1>2. /\ pool' \in [Operators -> Seq(Transactions)]
      /\ \A p \in Operators : \A i \in DOMAIN pool'[p] :
            \E j \in DOMAIN pool[p] : pool'[p][i] = pool[p][j] /\ j = IF p = o THEN i + 1 ELSE i
      /\ \A p \in Operators : DOMAIN pool'[p] \subseteq Nat \ {0}
      /\ 1 \in DOMAIN pool[o] /\ tx \in Transactions /\ Applied(o, tx)
  BY <1>1, Mined DEF MineTx
<1>3. tx.type \in {"stake", "deposit"} => Pays(o, 1) /\ tx.type = Payment /\ tx.value \in Int
  BY <1>1, <1>2 DEF Pays, RunsInOrder, Transactions
<1> HIDE DEF tx
<1>4. /\ DOMAIN stakeInfo' = DOMAIN stakeInfo
      /\ \/ stakeInfo'.stake = stakeInfo.stake
         \/ tx.type = "stake" /\ stakeInfo'.stake = stakeInfo.stake + tx.value
      /\ \/ deposit' = deposit
         \/ tx.type = "deposit" /\ deposit' = deposit + tx.value
  BY <1>1, <1>2 DEF Applied, RunsInOrder
<1>5. /\ Paid \in Int
      /\ Paid' = Paid \/ (tx.type = Payment /\ Paid' = Paid + tx.value)
      /\ tx.type \notin {"stake", "deposit"} => Paid' = Paid /\ stakeInfo'.stake = stakeInfo.stake
  BY <1>1, <1>3, <1>4 DEF Paid, RunsInOrder, Payment
<1>6. RunsInOrder'
  <2>1. stakeInfo'.stake \in Int /\ deposit' \in Int
    BY <1>1, <1>3, <1>4 DEF RunsInOrder
  <2>2. \A p \in Operators : \A i \in DOMAIN pool'[p] : Pays(p, i)' => pool'[p][i].type = Payment
    BY <1>1, <1>2 DEF RunsInOrder, Pays
  <2>3. QED
    BY <1>1, <1>2, <1>4, <2>1, <2>2 DEF RunsInOrder, Payment
<1>7. Undisturbed' = Undisturbed /\ \A r \in Runs : Goal(r)' = Goal(r)
  BY <1>1 DEF Undisturbed, Goal
<1>8. ASSUME Undisturbed, OneAtATime, SeesWhatThereIs, AtMostAsked
      PROVE  OneAtATime' /\ SeesWhatThereIs' /\ AtMostAsked'
  <2>1. ASSUME NEW p \in Operators, NEW i \in DOMAIN pool'[p], Pays(p, i)'
        PROVE  /\ i \in Nat \ {0}
               /\ \E j \in DOMAIN pool[p] : /\ Pays(p, j) /\ pool'[p][i] = pool[p][j]
                                            /\ j = IF p = o THEN i + 1 ELSE i
    BY <1>2, <2>1 DEF Pays
  <2>2. OnTheWay' => OnTheWay
    BY <2>1 DEF OnTheWay
  <2>3. OneAtATime'
    <3>1. ASSUME NEW p \in Operators, NEW q \in Operators,
                 NEW i \in DOMAIN pool'[p], NEW j \in DOMAIN pool'[q], Pays(p, i)', Pays(q, j)'
          PROVE  p = q /\ i = j
      <4>1. PICK k \in DOMAIN pool[p] : Pays(p, k) /\ k = IF p = o THEN i + 1 ELSE i
        BY <2>1, <3>1
      <4>2. PICK l \in DOMAIN pool[q] : Pays(q, l) /\ l = IF q = o THEN j + 1 ELSE j
        BY <2>1, <3>1
      <4>3. p = q /\ k = l
        BY <1>8, <4>1, <4>2 DEF OneAtATime
      <4>4. i \in Nat /\ j \in Nat
        BY <2>1, <3>1
      <4>5. QED
        BY <4>1, <4>2, <4>3, <4>4
    <3>2. \A q, r \in Runs : Active(q)' /\ Active(r)' => q = r
      BY <1>1, <1>8 DEF OneAtATime, Active
    <3>3. \A r \in Runs : run'[r].step \in BeforePaying[kind'] => ~OnTheWay'
      BY <1>1, <1>8, <2>2 DEF OneAtATime
    <3>4. QED
      BY <3>1, <3>2, <3>3 DEF OneAtATime
  <2>4. SeesWhatThereIs'
    <3>1. CASE tx.type \in {"stake", "deposit"}
      <4>1. OnTheWay
        BY <1>2, <1>3, <3>1 DEF OnTheWay
      <4>2. \A r \in Runs : run[r].step \notin HasSeen \cup WillPay
        <5>1. \A r \in Runs : run[r].step \notin BeforePaying[kind]
          BY <1>8, <4>1 DEF OneAtATime
        <5>2. \A r \in Runs :
                 run[r].step \in {"idle"} \cup BeforePaying[kind] \cup Afterwards[kind] \cup Ended
          BY <1>1 DEF RunsInOrder
        <5>3. kind \in {"register", "fund", "withdraw"}
          BY <1>1 DEF RunsInOrder
        <5>4. QED
          BY <5>1, <5>2, <5>3, StepsBefore DEF HasSeen, WillPay, Ended
      <4>3. QED
        BY <1>1, <4>2 DEF SeesWhatThereIs
    <3>2. CASE tx.type \notin {"stake", "deposit"}
      BY <1>1, <1>5, <1>7, <1>8, <3>2 DEF SeesWhatThereIs
    <3>3. QED
      BY <3>1, <3>2
  <2>5. AtMostAsked'
    <3>1. CASE Paid' = Paid
      BY <1>1, <1>7, <1>8, <2>1, <3>1 DEF AtMostAsked
    <3>2. CASE tx.type = Payment /\ Paid' = Paid + tx.value
      <4>1. Pays(o, 1)
        BY <1>3, <3>2 DEF Payment
      <4>2. PICK r \in Runs : run[r].option # None /\ Paid' <= Goal(r)
        BY <1>2, <1>8, <3>2, <4>1 DEF AtMostAsked, tx
      <4>3. \A p \in Operators : \A i \in DOMAIN pool'[p] : ~Pays(p, i)'
        <5> SUFFICES ASSUME NEW p \in Operators, NEW i \in DOMAIN pool'[p], Pays(p, i)'
                     PROVE  FALSE
          OBVIOUS
        <5>1. PICK j \in DOMAIN pool[p] : Pays(p, j) /\ j = IF p = o THEN i + 1 ELSE i
          BY <2>1
        <5>2. p = o /\ j = 1
          BY <1>2, <1>8, <4>1, <5>1 DEF OneAtATime
        <5>3. i \in Nat \ {0}
          BY <2>1
        <5>4. QED
          BY <5>1, <5>2, <5>3
      <4>4. QED
        BY <1>1, <1>7, <4>2, <4>3 DEF AtMostAsked
    <3>3. QED
      BY <1>5, <3>1, <3>2
  <2>6. QED
    BY <2>3, <2>4, <2>5
<1>9. QED
  BY <1>6, <1>7, <1>8 DEF CommandInv

\* The relay's server pays nothing.
LEMMA ServerPaysNothing ==
  ASSUME CommandInv, SetOwner \/ BecomeReady \/ ServerSends \/ MineManagerTx
  PROVE  CommandInv'
<1>1. RunsInOrder
  BY DEF CommandInv
<1>2. /\ run' = run /\ kind' = kind /\ deposit' = deposit /\ pool' = pool
      /\ stakeInfo' = stakeInfo \/ stakeInfo' = [stakeInfo EXCEPT !.owner = Owner]
  BY DEF SetOwner, BecomeReady, ServerSends, MineManagerTx, accountVars, fixedVars
<1>3. stakeInfo'.stake = stakeInfo.stake /\ DOMAIN stakeInfo' = DOMAIN stakeInfo
  BY <1>1, <1>2 DEF RunsInOrder
<1>4. Unpaid
  BY <1>1, <1>2, <1>3 DEF Unpaid, RunsInOrder
<1>5. QED
  BY <1>2, <1>4, UnpaidKeeps

LEMMA CommandsNextKeeps == CommandInv /\ [CommandsNext]_commandVars => CommandInv'
<1> SUFFICES ASSUME CommandInv, [CommandsNext]_commandVars
             PROVE  CommandInv'
  OBVIOUS
<1>1. ASSUME NEW r \in Runs, Start(r) \/ Continue(r) PROVE CommandInv'
  BY <1>1, StartKeeps, RegisterRelayKeeps, FundKeeps, WithdrawKeeps DEF Continue
<1>2. CASE UNCHANGED commandVars
  <2>1. run' = run /\ UNCHANGED <<kind, deposit, stakeInfo, pool>>
    BY <1>2 DEF commandVars, accountVars, fixedVars
  <2>2. RunsInOrder
    BY DEF CommandInv
  <2>3. QED
    BY <2>1, <2>2, SameIsUnpaid, UnpaidKeeps
<1>3. QED
  BY <1>1, <1>2, MineTxKeeps, ServerPaysNothing DEF CommandsNext

\* A finite set of integers has a largest one: of the nonempty subsets without
\* one, a smallest would still be without one when an element is taken away.
LEMMA LargestExists ==
  ASSUME NEW S, S \subseteq Int, IsFiniteSet(S), S # {}
  PROVE  \E m \in S : \A x \in S : x <= m
<1> DEFINE Largest(T) == \E m \in T : \A x \in T : x <= m
           Without == {T \in SUBSET S : T # {} /\ ~Largest(T)}
           Sizes == {Cardinality(T) : T \in Without}
<1>1. \A T \in SUBSET S : IsFiniteSet(T) /\ Cardinality(T) \in Nat
  BY FS_Subset, FS_CardinalityType
<1>2. SUFFICES ASSUME ~Largest(S) PROVE FALSE
  OBVIOUS
<1>3. S \in Without /\ Sizes # {}
  BY <1>2
<1>4. Sizes \subseteq Nat
  BY <1>1
<1>5. \E n \in Sizes : \A k \in Sizes : ~(k < n)
  <2> HIDE DEF Sizes
  <2>1. PICK n \in Sizes : \A k \in Sizes : <<k, n>> \notin OpToRel(<, Nat)
    BY <1>3, <1>4, NatLessThanWellFounded, WFMin
  <2>2. QED
    BY <1>4, <2>1 DEF OpToRel
<1>6. PICK T \in Without : \A U \in Without : ~(Cardinality(U) < Cardinality(T))
  BY <1>5
<1>7. PICK a \in T : TRUE
  OBVIOUS
<1> DEFINE U == T \ {a}
<1>8. IsFiniteSet(T) /\ Cardinality(U) = Cardinality(T) - 1 /\ Cardinality(T) \in Nat
  BY <1>1, <1>7, FS_RemoveElement
<1>9. U \notin Without
  <2>1. ASSUME U \in Without PROVE ~(Cardinality(U) < Cardinality(T))
    BY <1>6, <2>1, Zenon
  <2> HIDE DEF U, Without
  <2>2. QED
    BY <1>8, <2>1
<1>10. CASE U = {}
  <2>1. T = {a}
    BY <1>7, <1>10
  <2>2. QED
    BY <2>1
<1>11. CASE U # {}
  <2>1. PICK m \in U : \A x \in U : x <= m
    BY <1>9, <1>11
  <2>2. m \in Int /\ a \in Int /\ T \subseteq Int
    BY <2>1, <1>7
  <2>3. CASE a <= m
    BY <2>1, <2>2, <2>3
  <2>4. CASE m <= a
    <3>1. \A x \in T : x <= a
      BY <2>1, <2>2, <2>4
    <3>2. QED
      BY <1>7, <3>1
  <2>5. QED
    BY <2>2, <2>3, <2>4
<1>12. QED
  BY <1>10, <1>11

\* The largest is what Max chooses, and no smaller than any other.
LEMMA AtMostMax ==
  ASSUME NEW S, S \subseteq Int, IsFiniteSet(S), NEW x \in S
  PROVE  Max(S) \in Int /\ x <= Max(S)
<1>1. PICK m \in S : \A y \in S : y <= m
  BY LargestExists
<1>2. m \in Int /\ \A y \in S : y \in Int
  BY <1>1
<1>3. \A y \in S : m >= y
  BY <1>1, <1>2
<1>4. Max(S) \in S /\ \A y \in S : Max(S) >= y
  BY <1>3, Zenon DEF Max
<1>5. QED
  BY <1>2, <1>4

\* As little is paid as was there at the start, or was asked for.
LEMMA RepeatedPaysOnceHolds == CommandInv => RepeatedPaysOnce
<1> SUFFICES ASSUME CommandInv, Undisturbed, kind \in {"register", "fund"}
             PROVE  /\ kind = "register" => stakeInfo.stake <=
                          Max(Asked("register", "stake") \cup {s.stakeInfo.stake : s \in Starts})
                    /\ kind = "fund" => deposit <=
                          Max(Asked("fund", "amount") \cup {s.deposit : s \in Starts})
  BY Zenon DEF RepeatedPaysOnce
<1>1. RunsInOrder /\ AtMostAsked
  BY DEF CommandInv
<1> DEFINE what == IF kind = "register" THEN "stake" ELSE "amount"
           Given(s) == IF kind = "register" THEN s.stakeInfo.stake ELSE s.deposit
           S == Asked(kind, what) \cup {Given(s) : s \in Starts}
<1>2. ASSUME NEW r \in Runs, run[r].option # None
      PROVE  Goal(r) \in Nat /\ Goal(r) \in S
  <2>1. run[r].option[what] = Goal(r)
    BY DEF Goal
  <2>2. Goal(r) \in Asked(kind, what)
    BY <1>2, <2>1 DEF Asked
  <2>3. kind = "register" => run[r].option.stake \in Nat
    BY <1>1, <1>2, CommandsAssumption DEF RunsInOrder, OptionsOf
  <2>4. kind = "fund" => run[r].option.amount \in Nat
    BY <1>1, <1>2, CommandsAssumption DEF RunsInOrder, OptionsOf
  <2>5. QED
    BY <2>2, <2>3, <2>4 DEF Goal
<1>3. \A s \in Starts : Given(s) \in Nat /\ Given(s) \in S
  BY CommandsAssumption
<1>4. \A x \in Asked(kind, what) : \E r \in Runs : run[r].option # None /\ x = Goal(r)
  BY DEF Asked, Goal
<1>5. S \subseteq Int
  BY <1>2, <1>3, <1>4
<1>6. IsFiniteSet(S)
  <2> DEFINE begun == {q \in Runs : kind = kind /\ run[q].option # None}
             first == [s \in Starts |-> Given(s)]
             asked == [r \in begun |-> run[r].option[what]]
  <2>1. IsFiniteSet({Given(s) : s \in Starts})
    <3>1. first \in Surjection(Starts, {Given(s) : s \in Starts})
      BY DEF Surjection
    <3>2. QED
      BY <3>1, CommandsAssumption, FS_Surjection
  <2>2. IsFiniteSet(Asked(kind, what))
    <3>1. IsFiniteSet(begun)
      BY CommandsAssumption, FS_Subset
    <3>2. asked \in Surjection(begun, Asked(kind, what))
      BY DEF Surjection, Asked
    <3>3. QED
      BY <3>1, <3>2, FS_Surjection
  <2>3. QED
    BY <2>1, <2>2, FS_Union
<1>7. Paid <= Max(S)
  <2>1. \/ \E s \in Starts : Paid <= Given(s)
        \/ \E r \in Runs : run[r].option # None /\ Paid <= Goal(r)
    BY <1>1 DEF AtMostAsked
  <2> HIDE DEF S, Given
  <2>2. PICK x \in S : Paid <= x
    BY <1>2, <1>3, <2>1
  <2>3. x <= Max(S) /\ Max(S) \in Int
    BY <1>5, <1>6, AtMostMax, Zenon
  <2>4. Paid \in Int /\ x \in Int
    BY <1>1, <1>5 DEF RunsInOrder, Paid
  <2>5. QED
    BY <2>2, <2>3, <2>4
<1>8. QED
  BY <1>7 DEF Paid

\* RepeatedPaysOnce: runs one after the other pay once.
THEOREM RepeatedRunsPayOnce == CommandsSpec => []RepeatedPaysOnce
<1>1. CommandsSpec => []CommandInv
  BY CommandsInitInv, CommandsNextKeeps, PTL DEF CommandsSpec
<1>2. QED
  BY <1>1, RepeatedPaysOnceHolds, PTL

-----------------------------------------------------------------------------
(* Deployments *)

\* The steps that follow each step of the script.
PastDeposit == {"done"}
PastForwarderSet == {"pmDeposit"} \cup PastDeposit
PastHubSet == {"pmForwarder"} \cup PastForwarderSet
PastPaymaster == {"pmHub"} \cup PastHubSet
PastMaxAge == {"Paymaster"} \cup PastPaymaster
PastDevAddress == {"maxAge"} \cup PastMaxAge
PastStakes == {"devAddress"} \cup PastDevAddress
PastCheck == {"stakes"} \cup PastStakes
PastConfig == {"checkConfig"} \cup PastCheck
PastHub == {"hubConfig"} \cup PastConfig
PastRegistrar == {"RelayHub"} \cup PastHub
PastManager == {"RelayRegistrar"} \cup PastRegistrar
PastPenalizer == {"StakeManager"} \cup PastManager
PastForwarder == {"requestType", "domain", "Penalizer"} \cup PastPenalizer
PastToken == {"Forwarder"} \cup PastForwarder
BeforeConfig == {"TestToken"} \cup (PastToken \ PastConfig)

FieldsOf(name) ==
    CASE name = "Penalizer" -> {"name", "delay", "expiration"}
      [] name = "StakeManager" -> {"name", "devAddress"}
      [] name = "RelayRegistrar" -> {"name", "maxAge"}
      [] name = "RelayHub" -> {"name", "stakeManager", "penalizer", "registrar", "config",
                               "stakes", "deposits"}
      [] name = "Paymaster" -> {"name", "hub", "forwarder"}
      [] OTHER -> {"name"}

\* Contracts are what their names say, records are of contracts, and a recorded
\* hub still has the other contracts it was constructed with.
ChainOK ==
    /\ contract \in Seq(Range(contract))
    /\ \A i \in DOMAIN contract : DOMAIN contract[i] = FieldsOf(contract[i].name)
RecordsOK ==
    \A n \in DOMAIN records : Record(n) \in DOMAIN contract /\ TheOf(n).name = n
HubWired ==
    "RelayHub" \in DOMAIN records =>
        /\ TheOf("RelayHub").stakeManager = records["RelayHub"].args[1]
        /\ TheOf("RelayHub").penalizer = records["RelayHub"].args[2]
        /\ TheOf("RelayHub").registrar = records["RelayHub"].args[3]

\* What a deployment has done by each step; the records first.
Recorded(n) == n \in DOMAIN records /\ records[n].args = Arguments(n)
RecordedSoFar ==
    /\ step \in PastToken => Recorded("TestToken")
    /\ step \in PastForwarder => "Forwarder" \in DOMAIN records
    /\ step \in PastPenalizer => Recorded("Penalizer")
    /\ step \in PastManager => Recorded("StakeManager")
    /\ step \in PastRegistrar => Recorded("RelayRegistrar")
    /\ step \in PastHub => Recorded("RelayHub")
    /\ step \in PastPaymaster => Recorded("Paymaster")
SetSoFar ==
    /\ step \in PastStakes => TheOf("RelayHub").stakes = Stakes
    /\ step \in PastDevAddress => TheOf("StakeManager").devAddress = env.devAddress
    /\ step \in PastMaxAge => TheOf("RelayRegistrar").maxAge = env.maxAge
    /\ step \in PastHubSet => TheOf("Paymaster").hub = Hub
    /\ step \in PastForwarderSet => TheOf("Paymaster").forwarder = Record("Forwarder")
    /\ step \in PastDeposit => Record("Paymaster") \in TheOf("RelayHub").deposits
\* A setConfiguration is pending only past its step, and sets what is configured.
ConfigSoFar ==
    /\ step \in BeforeConfig => unmined = <<>>
    /\ step \in PastConfig => unmined \in {<<>>, <<<<Hub, NewConfig>>>>}
    /\ step \in PastCheck => TheOf("RelayHub").config = NewConfig
DeploymentSoFar == RecordedSoFar /\ SetSoFar /\ (undisturbed => ConfigSoFar)

\* The command line, once used, is all that is used; the script's records and
\* what it has done are right until then.
DeployerInv ==
    command # "cli" =>
        /\ ChainOK /\ RecordsOK /\ HubWired
        /\ command = "deploy" /\ env # Nothing => DeploymentSoFar

\* A function on 1 .. n is a sequence of its own values.
LEMMA OwnRange ==
  ASSUME NEW d, NEW n \in Nat, d = [i \in 1 .. n |-> d[i]]
  PROVE  d \in Seq(Range(d)) /\ Len(d) = n /\ DOMAIN d = 1 .. n
<1>1. DOMAIN d = 1 .. n
  OBVIOUS
<1>2. d \in [1 .. n -> Range(d)]
  BY <1>1 DEF Range
<1>3. d \in Seq(Range(d))
  BY <1>2, SeqDef
<1>4. QED
  BY <1>1, <1>3, LenProperties

\* A contract is deployed behind the ones there are.
LEMMA GrownChain ==
  ASSUME NEW c, c \in Seq(Range(c)), NEW e
  PROVE  /\ Append(c, e) \in Seq(Range(Append(c, e)))
         /\ DOMAIN Append(c, e) = DOMAIN c \cup {Len(c) + 1}
         /\ Len(c) + 1 \notin DOMAIN c
         /\ \A i \in DOMAIN c : Append(c, e)[i] = c[i]
         /\ Append(c, e)[Len(c) + 1] = e
<1> DEFINE S == Range(c) \cup {e}
           d == Append(c, e)
<1>1. c \in Seq(S) /\ e \in S
  BY DEF Range
<1>2. /\ d \in Seq(S) /\ Len(d) = Len(c) + 1
      /\ \A i \in 1 .. Len(c) : d[i] = c[i]
      /\ d[Len(c) + 1] = e
      /\ DOMAIN c = 1 .. Len(c) /\ Len(c) \in Nat
  BY <1>1, AppendProperties, LenProperties
<1>3. DOMAIN d = 1 .. Len(d)
  BY <1>2, LenProperties
<1>4. 1 .. Len(c) + 1 = (1 .. Len(c)) \cup {Len(c) + 1}
  BY <1>2
<1>6. d \in Seq(Range(d))
  <2> HIDE DEF d, S
  <2>1. d = [i \in 1 .. Len(d) |-> d[i]] /\ Len(d) \in Nat
    BY <1>2, <1>3, LenProperties
  <2>2. QED
    BY <2>1, OwnRange
<1> HIDE DEF d, S
<1>7. QED
  BY <1>2, <1>3, <1>4, <1>6 DEF d

\* A setter changes one field of one contract.
LEMMA FieldSet ==
  ASSUME NEW c, c \in Seq(Range(c)), NEW id, NEW field, NEW value,
         NEW d, d = [c EXCEPT ![id][field] = value]
  PROVE  /\ d \in Seq(Range(d)) /\ DOMAIN d = DOMAIN c
         /\ \A i \in DOMAIN c : DOMAIN d[i] = DOMAIN c[i]
         /\ \A i \in DOMAIN c : \A f \in DOMAIN c[i] :
               i # id \/ f # field => d[i][f] = c[i][f]
         /\ id \in DOMAIN c /\ field \in DOMAIN c[id] => d[id][field] = value
<1>1. /\ DOMAIN d = DOMAIN c
      /\ \A i \in DOMAIN c : i # id => d[i] = c[i]
      /\ id \in DOMAIN c => d[id] = [c[id] EXCEPT ![field] = value]
  BY LenProperties
<1>2. DOMAIN c = 1 .. Len(c) /\ Len(c) \in Nat
  BY LenProperties
<1>4. d \in Seq(Range(d))
  <2>1. PICK n \in Nat : d = [i \in 1 .. n |-> d[i]]
    BY <1>1, <1>2
  <2>2. QED
    BY <2>1, OwnRange
<1>5. id \in DOMAIN c =>
        /\ DOMAIN d[id] = DOMAIN c[id]
        /\ \A f \in DOMAIN c[id] : d[id][f] = IF f = field THEN value ELSE c[id][f]
  <2> SUFFICES ASSUME id \in DOMAIN c
               PROVE  /\ DOMAIN d[id] = DOMAIN c[id]
                      /\ \A f \in DOMAIN c[id] : d[id][f] = IF f = field THEN value ELSE c[id][f]
    OBVIOUS
  <2>1. d[id] = [c[id] EXCEPT ![field] = value]
    BY <1>1
  <2>2. QED
    BY <2>1
<1>6. QED
  BY <1>1, <1>4, <1>5

\* The order of a deployment's steps.
LEMMA StepsInOrder ==
  ASSUME command # "applyConfig"
  PROVE  /\ After("TestToken") = "Forwarder"
         /\ After("Forwarder") = "requestType"
         /\ After("requestType") = "domain"
         /\ After("domain") = "Penalizer"
         /\ After("Penalizer") = "StakeManager"
         /\ After("StakeManager") = "RelayRegistrar"
         /\ After("RelayRegistrar") = "RelayHub"
         /\ After("RelayHub") = "hubConfig"
         /\ After("hubConfig") = "checkConfig"
         /\ After("stakes") = "devAddress"
         /\ After("devAddress") = "maxAge"
         /\ After("maxAge") = "Paymaster"
         /\ After("Paymaster") = "pmHub"
         /\ After("pmHub") = "pmForwarder"
         /\ After("pmForwarder") = "pmDeposit"
         /\ After("pmDeposit") = "done"
<1>1. /\ DOMAIN ScriptSteps = 1 .. 17 /\ Len(ScriptSteps) = 17
      /\ ScriptSteps[1] = "TestToken" /\ ScriptSteps[2] = "Forwarder"
      /\ ScriptSteps[3] = "requestType" /\ ScriptSteps[4] = "domain"
      /\ ScriptSteps[5] = "Penalizer" /\ ScriptSteps[6] = "StakeManager"
      /\ ScriptSteps[7] = "RelayRegistrar" /\ ScriptSteps[8] = "RelayHub"
      /\ ScriptSteps[9] = "hubConfig" /\ ScriptSteps[10] = "checkConfig"
      /\ ScriptSteps[11] = "stakes" /\ ScriptSteps[12] = "devAddress"
      /\ ScriptSteps[13] = "maxAge" /\ ScriptSteps[14] = "Paymaster"
      /\ ScriptSteps[15] = "pmHub" /\ ScriptSteps[16] = "pmForwarder"
      /\ ScriptSteps[17] = "pmDeposit"
  BY DEF ScriptSteps
<1>2. \A k \in 1 .. 17 :
        \/ k = 1 \/ k = 2 \/ k = 3 \/ k = 4 \/ k = 5 \/ k = 6 \/ k = 7 \/ k = 8 \/ k = 9
        \/ k = 10 \/ k = 11 \/ k = 12 \/ k = 13 \/ k = 14 \/ k = 15 \/ k = 16 \/ k = 17
  OBVIOUS
<1>3. \A i, k \in 1 .. 17 : ScriptSteps[i] = ScriptSteps[k] => i = k
  BY <1>1, <1>2
<1>4. ASSUME NEW k \in 1 .. 17
      PROVE  After(ScriptSteps[k]) = IF k = 17 THEN "done" ELSE ScriptSteps[k + 1]
  <2> DEFINE i == CHOOSE j \in DOMAIN ScriptSteps : ScriptSteps[j] = ScriptSteps[k]
  <2>1. i \in DOMAIN ScriptSteps /\ ScriptSteps[i] = ScriptSteps[k]
    BY <1>1
  <2>2. i = k
    BY <1>1, <1>3, <2>1
  <2> HIDE DEF i
  <2>3. After(ScriptSteps[k]) =
          IF i = Len(ScriptSteps) \/ (command = "applyConfig" /\ ScriptSteps[k] = "maxAge")
          THEN "done" ELSE ScriptSteps[i + 1]
    BY DEF After, i
  <2>4. QED
    BY <1>1, <2>2, <2>3
<1>5. /\ After(ScriptSteps[1]) = ScriptSteps[2] /\ After(ScriptSteps[2]) = ScriptSteps[3]
      /\ After(ScriptSteps[3]) = ScriptSteps[4] /\ After(ScriptSteps[4]) = ScriptSteps[5]
      /\ After(ScriptSteps[5]) = ScriptSteps[6] /\ After(ScriptSteps[6]) = ScriptSteps[7]
      /\ After(ScriptSteps[7]) = ScriptSteps[8] /\ After(ScriptSteps[8]) = ScriptSteps[9]
      /\ After(ScriptSteps[9]) = ScriptSteps[10] /\ After(ScriptSteps[11]) = ScriptSteps[12]
      /\ After(ScriptSteps[12]) = ScriptSteps[13] /\ After(ScriptSteps[13]) = ScriptSteps[14]
      /\ After(ScriptSteps[14]) = ScriptSteps[15] /\ After(ScriptSteps[15]) = ScriptSteps[16]
      /\ After(ScriptSteps[16]) = ScriptSteps[17] /\ After(ScriptSteps[17]) = "done"
  BY <1>4
<1>6. QED
  BY <1>1, <1>5

SetsField(id, field, value) == contract' = [contract EXCEPT ![id][field] = value]

\* Setting a field that is none of the constructor's leaves all records right,
\* and every other field.
LEMMA SetKeeps ==
  ASSUME ChainOK, RecordsOK, HubWired, NEW id, NEW field, NEW value,
         SetsField(id, field, value),
         field \notin {"name", "stakeManager", "penalizer", "registrar"},
         UNCHANGED records
  PROVE  /\ ChainOK' /\ RecordsOK' /\ HubWired'
         /\ \A n \in DOMAIN records : \A f \in FieldsOf(n) :
               Record(n) # id \/ f # field => TheOf(n)'[f] = TheOf(n)[f]
         /\ \A n \in DOMAIN records :
               Record(n) = id /\ field \in FieldsOf(n) => TheOf(n)'[field] = value
<1>1. contract \in Seq(Range(contract))
  BY DEF ChainOK
<1>2. PICK d : d = contract'
  OBVIOUS
<1>3. /\ d \in Seq(Range(d)) /\ DOMAIN d = DOMAIN contract
      /\ \A i \in DOMAIN contract : DOMAIN d[i] = DOMAIN contract[i]
      /\ \A i \in DOMAIN contract : \A f \in DOMAIN contract[i] :
            i # id \/ f # field => d[i][f] = contract[i][f]
      /\ id \in DOMAIN contract /\ field \in DOMAIN contract[id] => d[id][field] = value
  BY <1>1, <1>2, FieldSet DEF SetsField
<1>4. \A i \in DOMAIN contract : "name" \in DOMAIN contract[i]
  BY DEF ChainOK, FieldsOf
<1>5. \A i \in DOMAIN contract : d[i].name = contract[i].name
  BY <1>3, <1>4
<1>6. ChainOK'
  BY <1>2, <1>3, <1>5 DEF ChainOK
<1>7. \A n \in DOMAIN records :
        /\ records'[n] = records[n] /\ Record(n) \in DOMAIN contract
        /\ DOMAIN contract[Record(n)] = FieldsOf(n) /\ TheOf(n)' = d[Record(n)]
  BY <1>2 DEF RecordsOK, ChainOK, Record, TheOf
<1>8. RecordsOK'
  BY <1>2, <1>3, <1>5, <1>7 DEF RecordsOK, Record, TheOf
<1>9. \A n \in DOMAIN records : \A f \in FieldsOf(n) :
        Record(n) # id \/ f # field => TheOf(n)'[f] = TheOf(n)[f]
  BY <1>3, <1>7 DEF TheOf
<1>10. HubWired'
  BY <1>9 DEF HubWired, FieldsOf
<1>11. \A n \in DOMAIN records :
         Record(n) = id /\ field \in FieldsOf(n) => TheOf(n)'[field] = value
  BY <1>3, <1>7
<1>12. QED
  BY <1>6, <1>8, <1>9, <1>10, <1>11

\* A deployment's step of one contract records it, and disturbs no other.
LEMMA DeployKeeps ==
  ASSUME ChainOK, RecordsOK, HubWired, NEW name \in Names, DeployContract(name)
  PROVE  /\ ChainOK' /\ RecordsOK' /\ HubWired'
         /\ DOMAIN records' = DOMAIN records \cup {name}
         /\ \A n \in DOMAIN records : n # name =>
               records'[n] = records[n] /\ TheOf(n)' = TheOf(n)
         /\ name # "Forwarder" => records'[name].args = Arguments(name)
<1>1. CASE NewlyDeployed(name)
  <2>1. contract' = Append(contract, Fresh(name, Arguments(name))) /\ Saved(name, Len(contract) + 1)
    BY <1>1 DEF DeployContract
  <2>2. PICK e : e = Fresh(name, Arguments(name))
    OBVIOUS
  <2>3. e.name = name /\ DOMAIN e = FieldsOf(name)
    BY <2>2 DEF Fresh, FieldsOf, Names
  <2>4. /\ contract' \in Seq(Range(contract'))
        /\ DOMAIN contract' = DOMAIN contract \cup {Len(contract) + 1}
        /\ Len(contract) + 1 \notin DOMAIN contract
        /\ \A i \in DOMAIN contract : contract'[i] = contract[i]
        /\ contract'[Len(contract) + 1] = e
    BY <2>1, <2>2, GrownChain DEF ChainOK
  <2>5. ChainOK'
    BY <2>3, <2>4 DEF ChainOK
  <2>6. /\ DOMAIN records' = DOMAIN records \cup {name}
        /\ \A n \in DOMAIN records : n # name => records'[n] = records[n]
        /\ records'[name].address = Len(contract) + 1
        /\ records'[name].args = Arguments(name)
    BY <2>1 DEF Saved
  <2>7. \A n \in DOMAIN records : n # name => TheOf(n)' = TheOf(n)
    BY <2>4, <2>6 DEF RecordsOK, TheOf, Record
  <2>8. RecordsOK'
    BY <2>3, <2>4, <2>6 DEF RecordsOK, TheOf, Record
  <2>9. HubWired'
    <3>1. CASE name = "RelayHub"
      <4>1. /\ e.stakeManager = Arguments(name)[1] /\ e.penalizer = Arguments(name)[2]
            /\ e.registrar = Arguments(name)[3]
        BY <2>2, <3>1 DEF Fresh
      <4>2. QED
        BY <2>4, <2>6, <3>1, <4>1 DEF HubWired, TheOf, Record
    <3>2. CASE name # "RelayHub"
      BY <2>6, <2>7, <3>2 DEF HubWired
    <3>3. QED
      BY <3>1, <3>2
  <2>10. QED
    BY <2>5, <2>6, <2>7, <2>8, <2>9
<1>2. CASE ~NewlyDeployed(name) /\ name \in DOMAIN records
  <2>1. UNCHANGED <<contract, records>>
    BY <1>2 DEF DeployContract
  <2>2. name # "Forwarder" => records[name].args = Arguments(name)
    BY <1>2 DEF NewlyDeployed, IsDeployed
  <2>3. QED
    BY <1>2, <2>1, <2>2 DEF ChainOK, RecordsOK, HubWired, TheOf, Record
<1>3. CASE ~NewlyDeployed(name) /\ name \notin DOMAIN records
  <2>1. name = "Forwarder" /\ \E i \in DOMAIN contract : contract[i].name = name
    BY <1>3 DEF NewlyDeployed, IsDeployed, ForwarderExists
  <2>2. PICK a : a = CHOOSE i \in DOMAIN contract : contract[i].name = name
    OBVIOUS
  <2>3. a \in DOMAIN contract /\ contract[a].name = name
    BY <2>1, <2>2
  <2>4. contract' = contract /\ Saved(name, a)
    BY <1>3, <2>2 DEF DeployContract
  <2>5. /\ DOMAIN records' = DOMAIN records \cup {name}
        /\ \A n \in DOMAIN records : records'[n] = records[n]
        /\ records'[name].address = a
    BY <1>3, <2>4 DEF Saved
  <2>6. ChainOK' /\ RecordsOK' /\ \A n \in DOMAIN records : TheOf(n)' = TheOf(n)
    BY <2>3, <2>4, <2>5 DEF ChainOK, RecordsOK, TheOf, Record
  <2>7. HubWired'
    BY <2>1, <2>5, <2>6 DEF HubWired
  <2>8. QED
    BY <2>1, <2>5, <2>6, <2>7
<1>4. QED
  BY <1>1, <1>2, <1>3

\* So does a step that calls a setter only if the value is not right already.
LEMMA SetIfChangedKeeps ==
  ASSUME ChainOK, RecordsOK, HubWired, NEW s, NEW id, NEW field, NEW value,
         SetIfChanged(s, id, field, value),
         field \notin {"name", "stakeManager", "penalizer", "registrar"}
  PROVE  /\ ChainOK' /\ RecordsOK' /\ HubWired'
         /\ \A n \in DOMAIN records : \A f \in FieldsOf(n) :
               f # field => TheOf(n)'[f] = TheOf(n)[f]
         /\ \A n \in DOMAIN records :
               Record(n) = id /\ field \in FieldsOf(n) => TheOf(n)'[field] = value
<1>1. UNCHANGED records
  BY DEF SetIfChanged
<1>2. CASE contract[id][field] = value
  <2>1. UNCHANGED contract
    BY <1>2 DEF SetIfChanged
  <2>2. ChainOK' /\ RecordsOK' /\ HubWired' /\ \A n \in DOMAIN records : TheOf(n)' = TheOf(n)
    BY <1>1, <2>1 DEF ChainOK, RecordsOK, HubWired, TheOf, Record
  <2>3. \A n \in DOMAIN records : Record(n) = id => TheOf(n)[field] = value
    BY <1>2 DEF TheOf
  <2>4. QED
    BY <2>2, <2>3
<1>3. CASE contract[id][field] # value
  <2>1. SetsField(id, field, value)
    BY <1>3 DEF SetIfChanged, SetsField
  <2>2. /\ ChainOK' /\ RecordsOK' /\ HubWired'
        /\ \A n \in DOMAIN records : \A f \in FieldsOf(n) :
              Record(n) # id \/ f # field => TheOf(n)'[f] = TheOf(n)[f]
        /\ \A n \in DOMAIN records :
              Record(n) = id /\ field \in FieldsOf(n) => TheOf(n)'[field] = value
    BY <1>1, <2>1, SetKeeps
  <2>3. QED
    BY <2>2
<1>4. QED
  BY <1>2, <1>3

\* The steps that deploy a contract.
LEMMA ContractRecorded ==
  ASSUME ChainOK, RecordsOK, HubWired, DeploymentSoFar, command = "deploy",
         NEW name \in Names, DeployContract(name)
  PROVE  DeploymentSoFar'
<1> USE DEF PastToken, PastForwarder, PastPenalizer, PastManager, PastRegistrar, PastHub,
           PastConfig, PastCheck, PastStakes, PastDevAddress, PastMaxAge, PastPaymaster,
           PastHubSet, PastForwarderSet, PastDeposit, BeforeConfig
<1>1. /\ DOMAIN records' = DOMAIN records \cup {name}
      /\ \A n \in DOMAIN records : n # name =>
            records'[n] = records[n] /\ TheOf(n)' = TheOf(n)
      /\ name # "Forwarder" => records'[name].args = Arguments(name)
  BY DeployKeeps
<1>2. /\ step = name /\ UNCHANGED <<command, env, undisturbed, unmined>>
      /\ step' = After(name) \/ (name = "Forwarder" /\ step' = "Penalizer")
  BY DEF DeployContract, AtStep, Next1, history
<1>3. \A n \in DOMAIN records : n # name => Record(n)' = Record(n)
  BY <1>1 DEF Record
<1>4. ASSUME NEW n \in {"TestToken", "Penalizer", "StakeManager", "RelayRegistrar", "Paymaster"},
             Recorded(n) \/ n = name
      PROVE  Recorded(n)'
  <2>1. Arguments(n)' = Arguments(n)
    BY <1>2 DEF Arguments
  <2>2. CASE n = name
    BY <1>1, <2>1, <2>2 DEF Recorded
  <2>3. CASE n # name
    BY <1>1, <1>4, <2>1, <2>3 DEF Recorded
  <2>4. QED
    BY <2>2, <2>3
<1>5. ASSUME Recorded("RelayHub") \/ name = "RelayHub",
             name \notin {"StakeManager", "Penalizer", "RelayRegistrar"},
             Recorded("StakeManager"), Recorded("Penalizer"), Recorded("RelayRegistrar")
      PROVE  Recorded("RelayHub")'
  <2>1. /\ Record("StakeManager")' = Record("StakeManager")
        /\ Record("Penalizer")' = Record("Penalizer")
        /\ Record("RelayRegistrar")' = Record("RelayRegistrar")
    BY <1>3, <1>5 DEF Recorded
  <2>2. Arguments("RelayHub")' = Arguments("RelayHub")
    BY <1>2, <2>1 DEF Arguments
  <2>3. CASE name = "RelayHub"
    BY <1>1, <2>2, <2>3 DEF Recorded
  <2>4. CASE name # "RelayHub"
    BY <1>1, <1>5, <2>2, <2>4 DEF Recorded
  <2>5. QED
    BY <2>3, <2>4
<1>6. name \in {"TestToken", "Forwarder", "Penalizer", "StakeManager", "RelayRegistrar", "RelayHub",
                "Paymaster"}
  BY DEF Names
<1>7. CASE name = "TestToken"
  <2>1. step' = "Forwarder"
    BY <1>2, <1>7, StepsInOrder
  <2>2. Recorded("TestToken")'
    BY <1>4, <1>7
  <2>3. undisturbed => unmined = <<>>
    BY <1>2, <1>7 DEF DeploymentSoFar, ConfigSoFar
  <2>4. QED
    BY <1>2, <2>1, <2>2, <2>3 DEF DeploymentSoFar, RecordedSoFar, SetSoFar, ConfigSoFar
<1>8. CASE name = "Forwarder"
  <2>1. step' \in {"requestType", "Penalizer"}
    BY <1>2, <1>8, StepsInOrder
  <2>2. /\ Recorded("TestToken")
    BY <1>2, <1>8 DEF DeploymentSoFar, RecordedSoFar
  <2>3. /\ Recorded("TestToken")'
    BY <1>4, <1>8, <2>2
  <2>5. undisturbed => unmined = <<>>
    BY <1>2, <1>8 DEF DeploymentSoFar, ConfigSoFar
  <2>6. QED
    BY <1>1, <1>2, <1>8, <2>1, <2>2, <2>3, <2>5
    DEF DeploymentSoFar, RecordedSoFar, SetSoFar, ConfigSoFar
<1>9. CASE name = "Penalizer"
  <2>1. step' = "StakeManager"
    BY <1>2, <1>9, StepsInOrder
  <2>2. /\ Recorded("TestToken")
        /\ "Forwarder" \in DOMAIN records
    BY <1>2, <1>9 DEF DeploymentSoFar, RecordedSoFar
  <2>3. /\ Recorded("TestToken")'
        /\ Recorded("Penalizer")'
    BY <1>4, <1>9, <2>2
  <2>5. undisturbed => unmined = <<>>
    BY <1>2, <1>9 DEF DeploymentSoFar, ConfigSoFar
  <2>6. QED
    BY <1>1, <1>2, <1>9, <2>1, <2>2, <2>3, <2>5
    DEF DeploymentSoFar, RecordedSoFar, SetSoFar, ConfigSoFar
<1>10. CASE name = "StakeManager"
  <2>1. step' = "RelayRegistrar"
    BY <1>2, <1>10, StepsInOrder
  <2>2. /\ Recorded("TestToken")
        /\ Recorded("Penalizer")
        /\ "Forwarder" \in DOMAIN records
    BY <1>2, <1>10 DEF DeploymentSoFar, RecordedSoFar
  <2>3. /\ Recorded("TestToken")'
        /\ Recorded("Penalizer")'
        /\ Recorded("StakeManager")'
    BY <1>4, <1>10, <2>2
  <2>5. undisturbed => unmined = <<>>
    BY <1>2, <1>10 DEF DeploymentSoFar, ConfigSoFar
  <2>6. QED
    BY <1>1, <1>2, <1>10, <2>1, <2>2, <2>3, <2>5
    DEF DeploymentSoFar, RecordedSoFar, SetSoFar, ConfigSoFar
<1>11. CASE name = "RelayRegistrar"
  <2>1. step' = "RelayHub"
    BY <1>2, <1>11, StepsInOrder
  <2>2. /\ Recorded("TestToken")
        /\ Recorded("Penalizer")
        /\ Recorded("StakeManager")
        /\ "Forwarder" \in DOMAIN records
    BY <1>2, <1>11 DEF DeploymentSoFar, RecordedSoFar
  <2>3. /\ Recorded("TestToken")'
        /\ Recorded("Penalizer")'
        /\ Recorded("StakeManager")'
        /\ Recorded("RelayRegistrar")'
    BY <1>4, <1>11, <2>2
  <2>5. undisturbed => unmined = <<>>
    BY <1>2, <1>11 DEF DeploymentSoFar, ConfigSoFar
  <2>6. QED
    BY <1>1, <1>2, <1>11, <2>1, <2>2, <2>3, <2>5
    DEF DeploymentSoFar, RecordedSoFar, SetSoFar, ConfigSoFar
<1>12. CASE name = "RelayHub"
  <2>1. step' = "hubConfig"
    BY <1>2, <1>12, StepsInOrder
  <2>2. /\ Recorded("TestToken")
        /\ Recorded("Penalizer")
        /\ Recorded("StakeManager")
        /\ Recorded("RelayRegistrar")
        /\ "Forwarder" \in DOMAIN records
    BY <1>2, <1>12 DEF DeploymentSoFar, RecordedSoFar
  <2>3. /\ Recorded("TestToken")'
        /\ Recorded("Penalizer")'
        /\ Recorded("StakeManager")'
        /\ Recorded("RelayRegistrar")'
    BY <1>4, <1>12, <2>2
  <2>4. Recorded("RelayHub")'
    BY <1>5, <1>12, <2>2
  <2>5. undisturbed => unmined = <<>>
    BY <1>2, <1>12 DEF DeploymentSoFar, ConfigSoFar
  <2>6. QED
    BY <1>1, <1>2, <1>12, <2>1, <2>2, <2>3, <2>4, <2>5
    DEF DeploymentSoFar, RecordedSoFar, SetSoFar, ConfigSoFar
<1>13. CASE name = "Paymaster"
  <2>1. step' = "pmHub"
    BY <1>2, <1>13, StepsInOrder
  <2>2. /\ Recorded("TestToken") /\ Recorded("Penalizer") /\ Recorded("StakeManager")
        /\ Recorded("RelayRegistrar") /\ Recorded("RelayHub")
        /\ "Forwarder" \in DOMAIN records
    BY <1>2, <1>13 DEF DeploymentSoFar, RecordedSoFar
  <2>3. /\ Recorded("TestToken")' /\ Recorded("Penalizer")' /\ Recorded("StakeManager")'
        /\ Recorded("RelayRegistrar")' /\ Recorded("Paymaster")'
    BY <1>4, <1>13, <2>2
  <2>4. Recorded("RelayHub")'
    BY <1>5, <1>13, <2>2
  <2>5. /\ TheOf("RelayHub")' = TheOf("RelayHub")
        /\ TheOf("StakeManager")' = TheOf("StakeManager")
        /\ TheOf("RelayRegistrar")' = TheOf("RelayRegistrar")
        /\ Hub' = Hub /\ Stakes' = Stakes /\ NewConfig' = NewConfig
    BY <1>1, <1>2, <1>3, <1>13, <2>2 DEF Recorded, Hub, Stakes, NewConfig
  <2>6. SetSoFar'
    BY <1>2, <1>13, <2>1, <2>5 DEF DeploymentSoFar, SetSoFar
  <2>7. undisturbed => ConfigSoFar'
    BY <1>2, <1>13, <2>1, <2>5 DEF DeploymentSoFar, ConfigSoFar
  <2>8. QED
    BY <1>1, <1>2, <1>13, <2>1, <2>2, <2>3, <2>4, <2>6, <2>7 DEF DeploymentSoFar, RecordedSoFar
<1>14. QED
  BY <1>6, <1>7, <1>8, <1>9, <1>10, <1>11, <1>12, <1>13

\* While the records and the configuration stay, so does what is computed of them.
LEMMA RecordsStay ==
  ASSUME UNCHANGED <<records, env>>
  PROVE  /\ \A n : Record(n)' = Record(n)
         /\ \A n \in Names : Recorded(n)' = Recorded(n)
         /\ Hub' = Hub /\ Stakes' = Stakes /\ NewConfig' = NewConfig
<1>1. \A n : Record(n)' = Record(n)
  BY DEF Record
<1>2. /\ Record("StakeManager")' = Record("StakeManager")
      /\ Record("Penalizer")' = Record("Penalizer")
      /\ Record("RelayRegistrar")' = Record("RelayRegistrar")
      /\ Record("TestToken")' = Record("TestToken") /\ Record("RelayHub")' = Record("RelayHub")
  BY DEF Record
<1>3. ASSUME NEW n \in Names
      PROVE  Recorded(n)' = Recorded(n)
  <2>1. Arguments(n)' = Arguments(n)
    BY <1>2 DEF Arguments
  <2>2. QED
    BY <2>1 DEF Recorded
<1>4. QED
  BY <1>1, <1>2, <1>3 DEF Hub, Stakes, NewConfig

\* The steps that set a value.
LEMMA ValueSet ==
  ASSUME ChainOK, RecordsOK, HubWired, DeploymentSoFar, command = "deploy",
         ApplyConfig \/ SetPaymaster \/ Deposit
  PROVE  DeploymentSoFar'
<1> USE DEF PastToken, PastForwarder, PastPenalizer, PastManager, PastRegistrar, PastHub,
           PastConfig, PastCheck, PastStakes, PastDevAddress, PastMaxAge, PastPaymaster,
           PastHubSet, PastForwarderSet, PastDeposit, BeforeConfig
<1>1. PICK s, id, field, value :
        /\ SetIfChanged(s, id, field, value)
        /\ \/ s = "stakes" /\ id = Hub /\ field = "stakes" /\ value = Stakes
           \/ /\ s = "devAddress" /\ id = Record("StakeManager") /\ field = "devAddress"
              /\ value = env.devAddress
           \/ /\ s = "maxAge" /\ id = Record("RelayRegistrar") /\ field = "maxAge"
              /\ value = env.maxAge
           \/ s = "pmHub" /\ id = Record("Paymaster") /\ field = "hub" /\ value = Hub
           \/ /\ s = "pmForwarder" /\ id = Record("Paymaster") /\ field = "forwarder"
              /\ value = Record("Forwarder")
           \/ /\ s = "pmDeposit" /\ id = Hub /\ field = "deposits"
              /\ value = contract[Hub].deposits \cup {Record("Paymaster")}
  BY DEF ApplyConfig, SetPaymaster, Deposit
<1>2. /\ step = s /\ step' = After(s)
      /\ UNCHANGED <<records, command, env, undisturbed, unmined>>
  BY <1>1 DEF SetIfChanged, AtStep, Next1, history
<1>3. /\ \A n : Record(n)' = Record(n)
      /\ \A n \in Names : Recorded(n)' = Recorded(n)
      /\ Hub' = Hub /\ Stakes' = Stakes /\ NewConfig' = NewConfig
  BY <1>2, RecordsStay
<1>4. field \notin {"name", "stakeManager", "penalizer", "registrar"}
  BY <1>1
<1>5. /\ \A n \in DOMAIN records : \A f \in FieldsOf(n) :
            f # field => TheOf(n)'[f] = TheOf(n)[f]
      /\ \A n \in DOMAIN records :
            Record(n) = id /\ field \in FieldsOf(n) => TheOf(n)'[field] = value
  BY <1>1, <1>4, SetIfChangedKeeps
<1>6. /\ Recorded("TestToken") /\ Recorded("Penalizer") /\ Recorded("StakeManager")
      /\ Recorded("RelayRegistrar") /\ Recorded("RelayHub") /\ "Forwarder" \in DOMAIN records
      /\ s \in {"pmHub", "pmForwarder", "pmDeposit"} => Recorded("Paymaster")
  BY <1>1, <1>2 DEF DeploymentSoFar, RecordedSoFar
<1>7. /\ Recorded("TestToken")' /\ Recorded("Penalizer")' /\ Recorded("StakeManager")'
      /\ Recorded("RelayRegistrar")' /\ Recorded("RelayHub")' /\ "Forwarder" \in DOMAIN records'
      /\ s \in {"pmHub", "pmForwarder", "pmDeposit"} => Recorded("Paymaster")'
  BY <1>2, <1>3, <1>6 DEF Names
<1>8. step' = CASE s = "stakes" -> "devAddress" [] s = "devAddress" -> "maxAge"
                [] s = "maxAge" -> "Paymaster" [] s = "pmHub" -> "pmForwarder"
                [] s = "pmForwarder" -> "pmDeposit" [] s = "pmDeposit" -> "done"
  BY <1>1, <1>2, StepsInOrder
<1>9. RecordedSoFar'
  BY <1>1, <1>7, <1>8 DEF RecordedSoFar
<1>10. undisturbed' => ConfigSoFar'
  <2>1. TheOf("RelayHub")'.config = TheOf("RelayHub").config
    BY <1>1, <1>5, <1>6 DEF FieldsOf, Recorded
  <2>2. QED
    BY <1>1, <1>2, <1>3, <1>8, <2>1 DEF DeploymentSoFar, ConfigSoFar
<1>11. SetSoFar'
  <2>1. /\ field # "stakes" => TheOf("RelayHub")'.stakes = TheOf("RelayHub").stakes
        /\ field # "deposits" => TheOf("RelayHub")'.deposits = TheOf("RelayHub").deposits
        /\ field # "devAddress" =>
              TheOf("StakeManager")'.devAddress = TheOf("StakeManager").devAddress
        /\ field # "maxAge" => TheOf("RelayRegistrar")'.maxAge = TheOf("RelayRegistrar").maxAge
    BY <1>5, <1>6 DEF FieldsOf, Recorded
  <2>2. s \in {"pmHub", "pmForwarder", "pmDeposit"} =>
          /\ field # "hub" => TheOf("Paymaster")'.hub = TheOf("Paymaster").hub
          /\ field # "forwarder" => TheOf("Paymaster")'.forwarder = TheOf("Paymaster").forwarder
    BY <1>5, <1>6 DEF FieldsOf, Recorded
  <2>3. CASE s = "stakes"
    <3>1. TheOf("RelayHub")'.stakes = Stakes
      BY <1>1, <1>5, <1>6, <2>3 DEF FieldsOf, Recorded, Hub
    <3>2. QED
      BY <1>1, <1>2, <1>3, <1>8, <2>1, <2>2, <2>3, <3>1 DEF DeploymentSoFar, SetSoFar
  <2>4. CASE s = "devAddress"
    <3>1. TheOf("StakeManager")'.devAddress = env.devAddress
      BY <1>1, <1>5, <1>6, <2>4 DEF FieldsOf, Recorded, Hub
    <3>2. QED
      BY <1>1, <1>2, <1>3, <1>8, <2>1, <2>2, <2>4, <3>1 DEF DeploymentSoFar, SetSoFar
  <2>5. CASE s = "maxAge"
    <3>1. TheOf("RelayRegistrar")'.maxAge = env.maxAge
      BY <1>1, <1>5, <1>6, <2>5 DEF FieldsOf, Recorded, Hub
    <3>2. QED
      BY <1>1, <1>2, <1>3, <1>8, <2>1, <2>2, <2>5, <3>1 DEF DeploymentSoFar, SetSoFar
  <2>6. CASE s = "pmHub"
    <3>1. TheOf("Paymaster")'.hub = Hub
      BY <1>1, <1>5, <1>6, <2>6 DEF FieldsOf, Recorded, Hub
    <3>2. QED
      BY <1>1, <1>2, <1>3, <1>8, <2>1, <2>2, <2>6, <3>1 DEF DeploymentSoFar, SetSoFar
  <2>7. CASE s = "pmForwarder"
    <3>1. TheOf("Paymaster")'.forwarder = Record("Forwarder")
      BY <1>1, <1>5, <1>6, <2>7 DEF FieldsOf, Recorded, Hub
    <3>2. QED
      BY <1>1, <1>2, <1>3, <1>8, <2>1, <2>2, <2>7, <3>1 DEF DeploymentSoFar, SetSoFar
  <2>8. CASE s = "pmDeposit"
    <3>1. Record("Paymaster") \in TheOf("RelayHub")'.deposits
      BY <1>1, <1>5, <1>6, <2>8 DEF FieldsOf, Recorded, Hub
    <3>2. QED
      BY <1>1, <1>2, <1>3, <1>8, <2>1, <2>2, <2>8, <3>1 DEF DeploymentSoFar, SetSoFar
  <2>9. QED
    BY <1>1, <2>3, <2>4, <2>5, <2>6, <2>7, <2>8
<1>12. QED
  BY <1>9, <1>10, <1>11 DEF DeploymentSoFar

\* setConfiguration is mined, whenever it was sent.
LEMMA ConfigMined ==
  ASSUME ChainOK, RecordsOK, HubWired, SetConfigurationMined
  PROVE  /\ ChainOK' /\ RecordsOK' /\ HubWired'
         /\ command = "deploy" /\ DeploymentSoFar => DeploymentSoFar'
<1> USE DEF PastToken, PastForwarder, PastPenalizer, PastManager, PastRegistrar, PastHub,
           PastConfig, PastCheck, PastStakes, PastDevAddress, PastMaxAge, PastPaymaster,
           PastHubSet, PastForwarderSet, PastDeposit, BeforeConfig
<1>1. PICK id, config : id = Head(unmined)[1] /\ config = Head(unmined)[2]
  OBVIOUS
<1>2. /\ SetsField(id, "config", config) /\ unmined # <<>> /\ unmined' = Tail(unmined)
      /\ UNCHANGED <<records, step, command, env, undisturbed>>
  BY <1>1 DEF SetConfigurationMined, SetsField, history
<1>3. /\ ChainOK' /\ RecordsOK' /\ HubWired'
      /\ \A n \in DOMAIN records : \A f \in FieldsOf(n) :
            Record(n) # id \/ f # "config" => TheOf(n)'[f] = TheOf(n)[f]
      /\ \A n \in DOMAIN records :
            Record(n) = id /\ "config" \in FieldsOf(n) => TheOf(n)'["config"] = config
  BY <1>2, SetKeeps
<1>4. ASSUME command = "deploy", DeploymentSoFar
      PROVE  DeploymentSoFar'
  <2>1. /\ \A n : Record(n)' = Record(n)
        /\ \A n \in Names : Recorded(n)' = Recorded(n)
        /\ Hub' = Hub /\ Stakes' = Stakes /\ NewConfig' = NewConfig
    BY <1>2, RecordsStay
  <2>2. RecordedSoFar'
    BY <1>2, <1>4, <2>1 DEF DeploymentSoFar, RecordedSoFar, Names
  <2>3. SetSoFar'
    <3>1. /\ "RelayHub" \in DOMAIN records =>
                /\ TheOf("RelayHub")'.stakes = TheOf("RelayHub").stakes
                /\ TheOf("RelayHub")'.deposits = TheOf("RelayHub").deposits
          /\ "StakeManager" \in DOMAIN records =>
                TheOf("StakeManager")'.devAddress = TheOf("StakeManager").devAddress
          /\ "RelayRegistrar" \in DOMAIN records =>
                TheOf("RelayRegistrar")'.maxAge = TheOf("RelayRegistrar").maxAge
          /\ "Paymaster" \in DOMAIN records =>
                /\ TheOf("Paymaster")'.hub = TheOf("Paymaster").hub
                /\ TheOf("Paymaster")'.forwarder = TheOf("Paymaster").forwarder
      BY <1>3 DEF FieldsOf
    <3>2. /\ step \in PastHub =>
                {"RelayHub", "StakeManager", "RelayRegistrar"} \subseteq DOMAIN records
          /\ step \in PastPaymaster => "Paymaster" \in DOMAIN records
      BY <1>4 DEF DeploymentSoFar, RecordedSoFar, Recorded
    <3>3. QED
      BY <1>2, <1>4, <2>1, <3>1, <3>2 DEF DeploymentSoFar, SetSoFar
  <2>4. ASSUME undisturbed
        PROVE  ConfigSoFar'
    <3>1. CASE step \in PastConfig
      <4>1. unmined = <<<<Hub, NewConfig>>>>
        BY <1>2, <1>4, <2>4, <3>1 DEF DeploymentSoFar, ConfigSoFar
      <4>2. id = Hub /\ config = NewConfig /\ unmined' = <<>>
        BY <1>1, <1>2, <4>1
      <4>3. "RelayHub" \in DOMAIN records
        BY <1>4, <3>1 DEF DeploymentSoFar, RecordedSoFar, Recorded
      <4>4. TheOf("RelayHub")'.config = NewConfig
        BY <1>3, <4>2, <4>3 DEF Hub, FieldsOf
      <4>5. QED
        BY <1>2, <2>1, <3>1, <4>2, <4>4 DEF ConfigSoFar
    <3>2. CASE step \notin PastConfig
      BY <1>2, <1>4, <2>4, <3>2 DEF DeploymentSoFar, ConfigSoFar
    <3>3. QED
      BY <3>1, <3>2
  <2>5. QED
    BY <1>2, <2>2, <2>3, <2>4 DEF DeploymentSoFar
<1>5. QED
  BY <1>3, <1>4

\* The steps that register types, send setConfiguration and check it.
LEMMA NothingSet ==
  ASSUME DeploymentSoFar, command = "deploy",
         RegisterTypes \/ SetConfiguration \/ CheckConfiguration
  PROVE  DeploymentSoFar'
<1> USE DEF PastToken, PastForwarder, PastPenalizer, PastManager, PastRegistrar, PastHub,
           PastConfig, PastCheck, PastStakes, PastDevAddress, PastMaxAge, PastPaymaster,
           PastHubSet, PastForwarderSet, PastDeposit, BeforeConfig
<1>1. UNCHANGED <<records, command, env, undisturbed, contract>>
  BY DEF RegisterTypes, SetConfiguration, CheckConfiguration, history, onChain
<1>2. /\ \A n : Record(n)' = Record(n)
      /\ \A n \in Names : Recorded(n)' = Recorded(n)
      /\ Hub' = Hub /\ Stakes' = Stakes /\ NewConfig' = NewConfig
  BY <1>1, RecordsStay
<1>3. \A n : TheOf(n)' = TheOf(n)
  BY <1>1, <1>2 DEF TheOf
<1>4. CASE RegisterTypes
  <2>1. /\ UNCHANGED unmined
        /\ \/ step = "requestType" /\ step' = "domain"
           \/ step = "domain" /\ step' = "Penalizer"
    BY <1>4, StepsInOrder DEF RegisterTypes, AtStep, SendsOne, Next1
  <2>2. RecordedSoFar' /\ SetSoFar'
    BY <1>1, <1>2, <2>1 DEF DeploymentSoFar, RecordedSoFar, SetSoFar, Names
  <2>3. undisturbed => ConfigSoFar'
    BY <1>1, <2>1 DEF DeploymentSoFar, ConfigSoFar
  <2>4. QED
    BY <1>1, <2>2, <2>3 DEF DeploymentSoFar
<1>5. CASE SetConfiguration
  <2>1. /\ step = "hubConfig"
        /\ \/ step' = "stakes" /\ unmined' = unmined /\ contract[Hub].config = NewConfig
           \/ step' = "checkConfig" /\ unmined' = Append(unmined, <<Hub, NewConfig>>)
    BY <1>5, StepsInOrder DEF SetConfiguration, AtStep, SendsOne, Next1
  <2>2. RecordedSoFar' /\ SetSoFar'
    BY <1>1, <1>2, <2>1 DEF DeploymentSoFar, RecordedSoFar, SetSoFar, Names
  <2>3. undisturbed => unmined = <<>>
    BY <2>1 DEF DeploymentSoFar, ConfigSoFar
  <2>4. Append(<<>>, <<Hub, NewConfig>>) = <<<<Hub, NewConfig>>>>
    OBVIOUS
  <2>5. undisturbed => ConfigSoFar'
    BY <1>2, <1>3, <2>1, <2>3, <2>4 DEF ConfigSoFar, TheOf, Hub
  <2>6. QED
    BY <1>1, <2>2, <2>5 DEF DeploymentSoFar
<1>6. CASE CheckConfiguration
  <2>1. /\ step = "checkConfig" /\ unmined' = unmined
        /\ \/ step' = "stakes" /\ contract[Hub].config = NewConfig
           \/ step' = "failed"
    BY <1>6 DEF CheckConfiguration, AtStep
  <2>2. RecordedSoFar' /\ SetSoFar'
    BY <1>1, <1>2, <2>1 DEF DeploymentSoFar, RecordedSoFar, SetSoFar, Names
  <2>3. undisturbed => ConfigSoFar'
    BY <1>2, <1>3, <2>1 DEF DeploymentSoFar, ConfigSoFar, TheOf, Hub
  <2>4. QED
    BY <1>1, <2>2, <2>3 DEF DeploymentSoFar
<1>7. QED
  BY <1>4, <1>5, <1>6

\* A step that leaves the chain and the records keeps them right.
LEMMA DeployerInvStays ==
  ASSUME UNCHANGED <<contract, records>>, ChainOK, RecordsOK, HubWired
  PROVE  ChainOK' /\ RecordsOK' /\ HubWired'
<1>1. \A n : Record(n)' = Record(n) /\ TheOf(n)' = TheOf(n)
  BY DEF Record, TheOf
<1>2. QED
  BY <1>1 DEF ChainOK, RecordsOK, HubWired

\* The invariant holds at first, and every step keeps it.
LEMMA DeployerInitially == DeployerInit => DeployerInv
<1> SUFFICES ASSUME DeployerInit
             PROVE  ChainOK /\ RecordsOK /\ HubWired /\ env = Nothing
  BY DEF DeployerInv, DeployerInit
<1>1. CASE contract = <<>>
  <2>1. DOMAIN contract = {} /\ contract \in Seq(Range(contract))
    BY <1>1, EmptySeq
  <2>2. QED
    BY <2>1 DEF DeployerInit, ChainOK, RecordsOK, HubWired
<1>2. CASE contract = <<[name |-> "Forwarder"]>>
  <2>1. /\ contract = [i \in 1 .. 1 |-> contract[i]] /\ DOMAIN contract = {1}
        /\ contract[1] = [name |-> "Forwarder"]
    BY <1>2
  <2>2. contract \in Seq(Range(contract))
    BY <2>1, OwnRange
  <2>3. QED
    BY <2>1, <2>2 DEF DeployerInit, ChainOK, RecordsOK, HubWired, FieldsOf
<1>3. QED
  BY <1>1, <1>2 DEF DeployerInit

LEMMA DeployerStep ==
  ASSUME DeployerInv, [DeployerNext]_deployerVars
  PROVE  DeployerInv'
<1>1. CASE command = "cli"
  <2>1. command' = "cli"
    BY <1>1 DEF DeployerNext, deployerVars, Script, Cli, DeployContract, RegisterTypes, AtStep,
                SetConfiguration, CheckConfiguration, ApplyConfig, SetPaymaster, Deposit,
                SetIfChanged, GetContractInstance, CliWires, CliSets, CliRegistersTypes,
                SetConfigurationMined, Crash, Close, StartScript, StartCli
  <2>2. QED
    BY <2>1 DEF DeployerInv
<1>2. CASE command # "cli"
  <2> SUFFICES ASSUME ChainOK, RecordsOK, HubWired,
                      command = "deploy" /\ env # Nothing => DeploymentSoFar
               PROVE  DeployerInv'
    BY <1>2 DEF DeployerInv
  <2>1. ASSUME NEW name \in Names, DeployContract(name)
        PROVE  DeployerInv'
    <3>1. ChainOK' /\ RecordsOK' /\ HubWired'
      BY <2>1, DeployKeeps
    <3>2. UNCHANGED <<command, env>>
      BY <2>1 DEF DeployContract
    <3>3. command = "deploy" /\ env # Nothing => DeploymentSoFar'
      BY <2>1, ContractRecorded
    <3>4. QED
      BY <3>1, <3>2, <3>3 DEF DeployerInv
  <2>2. CASE RegisterTypes \/ SetConfiguration \/ CheckConfiguration
    <3>1. UNCHANGED <<command, env, records, contract>>
      BY <2>2 DEF RegisterTypes, SetConfiguration, CheckConfiguration, onChain
    <3>2. ChainOK' /\ RecordsOK' /\ HubWired'
      BY <3>1, DeployerInvStays
    <3>3. command = "deploy" /\ env # Nothing => DeploymentSoFar'
      BY <2>2, NothingSet
    <3>4. QED
      BY <3>1, <3>2, <3>3 DEF DeployerInv
  <2>3. CASE ApplyConfig \/ SetPaymaster \/ Deposit
    <3>1. UNCHANGED <<command, env>>
      BY <2>3 DEF ApplyConfig, SetPaymaster, Deposit, SetIfChanged
    <3>2. PICK s, id, field, value :
            /\ SetIfChanged(s, id, field, value)
            /\ field \notin {"name", "stakeManager", "penalizer", "registrar"}
      BY <2>3 DEF ApplyConfig, SetPaymaster, Deposit
    <3>3. ChainOK' /\ RecordsOK' /\ HubWired'
      BY <3>2, SetIfChangedKeeps
    <3>4. command = "deploy" /\ env # Nothing => DeploymentSoFar'
      BY <2>3, ValueSet
    <3>5. QED
      BY <3>1, <3>3, <3>4 DEF DeployerInv
  <2>4. CASE Cli
    BY <1>2, <2>4 DEF Cli, GetContractInstance, CliWires, CliSets, CliRegistersTypes, AtCli
  <2>5. CASE SetConfigurationMined
    <3>1. UNCHANGED <<command, env>>
      BY <2>5 DEF SetConfigurationMined
    <3>2. QED
      BY <2>5, <3>1, ConfigMined DEF DeployerInv
  <2>6. CASE Crash
    <3>1. UNCHANGED <<contract, records, command, env>> /\ step' = "failed"
      BY <2>6 DEF Crash, onChain
    <3>2. RecordedSoFar' /\ SetSoFar' /\ ConfigSoFar'
      BY <3>1 DEF RecordedSoFar, SetSoFar, ConfigSoFar, PastToken, PastForwarder, PastPenalizer,
                  PastManager, PastRegistrar, PastHub, PastConfig, PastCheck, PastStakes,
                  PastDevAddress, PastMaxAge, PastPaymaster, PastHubSet, PastForwarderSet,
                  PastDeposit, BeforeConfig
    <3>3. QED
      BY <3>1, <3>2, DeployerInvStays DEF DeployerInv, DeploymentSoFar
  <2>7. CASE Close
    <3>1. UNCHANGED <<contract, records>> /\ env' = Nothing
      BY <2>7 DEF Close, onChain
    <3>2. QED
      BY <3>1, DeployerInvStays DEF DeployerInv
  <2>8. ASSUME NEW c \in Commands, StartScript(c)
        PROVE  DeployerInv'
    <3>1. /\ UNCHANGED <<contract, records, unmined>> /\ command' = c
          /\ c # "applyConfig" => step' = "TestToken"
          /\ undisturbed' = (unmined = <<>>)
      BY <2>8 DEF StartScript, onChain
    <3>2. command' = "deploy" => RecordedSoFar' /\ SetSoFar' /\ (undisturbed' => ConfigSoFar')
      BY <3>1 DEF RecordedSoFar, SetSoFar, ConfigSoFar, PastToken, PastForwarder, PastPenalizer,
                  PastManager, PastRegistrar, PastHub, PastConfig, PastCheck, PastStakes,
                  PastDevAddress, PastMaxAge, PastPaymaster, PastHubSet, PastForwarderSet,
                  PastDeposit, BeforeConfig
    <3>3. QED
      BY <3>1, <3>2, DeployerInvStays DEF DeployerInv, DeploymentSoFar
  <2>9. CASE StartCli
    BY <2>9 DEF StartCli, DeployerInv
  <2>10. CASE UNCHANGED deployerVars
    <3>1. UNCHANGED <<contract, records, command, env, step, undisturbed, unmined>>
      BY <2>10 DEF deployerVars, onChain, history
    <3>2. /\ \A n : Record(n)' = Record(n) /\ TheOf(n)' = TheOf(n)
          /\ \A n \in Names : Recorded(n)' = Recorded(n)
          /\ Hub' = Hub /\ Stakes' = Stakes /\ NewConfig' = NewConfig
      BY <3>1, RecordsStay DEF TheOf
    <3>3. DeploymentSoFar => DeploymentSoFar'
      BY <3>1, <3>2 DEF DeploymentSoFar, RecordedSoFar, SetSoFar, ConfigSoFar, Names
    <3>4. QED
      BY <3>1, <3>3, DeployerInvStays DEF DeployerInv
  <2>11. QED
    BY <2>1, <2>2, <2>3, <2>4, <2>5, <2>6, <2>7, <2>8, <2>9, <2>10 DEF DeployerNext, Script
<1>3. QED
  BY <1>1, <1>2

\* deploy.ts, run again after any crash: a deployment that ends well has deployed
\* the contracts of its configuration, wired them to one another and set each
\* value that has a setter, unless a setConfiguration was pending when it started.
THEOREM DeploymentIsAsConfigured == DeployerSpec => []EndsAsConfigured
<1>1. ASSUME DeployerInv
      PROVE  EndsAsConfigured
  <2> SUFFICES ASSUME Deployed, undisturbed
               PROVE  /\ TheOf("RelayHub").stakeManager = Record("StakeManager")
                      /\ TheOf("RelayHub").penalizer = Record("Penalizer")
                      /\ TheOf("RelayHub").registrar = Record("RelayRegistrar")
                      /\ TheOf("RelayHub").config = NewConfig
                      /\ SetSoFar
    BY DEF EndsAsConfigured, SetSoFar, Deployed, PastDeposit, PastForwarderSet, PastHubSet,
           PastPaymaster, PastMaxAge, PastDevAddress, PastStakes
  <2>1. /\ step = "done" /\ HubWired /\ DeploymentSoFar
    BY <1>1 DEF DeployerInv, Deployed
  <2>2. Recorded("RelayHub") /\ TheOf("RelayHub").config = NewConfig
    BY <2>1 DEF DeploymentSoFar, RecordedSoFar, ConfigSoFar, PastHub, PastConfig, PastCheck,
                PastStakes, PastDevAddress, PastMaxAge, PastPaymaster, PastHubSet,
                PastForwarderSet, PastDeposit
  <2>3. QED
    BY <2>1, <2>2 DEF DeploymentSoFar, HubWired, Recorded, Arguments
<1>2. QED
  BY <1>1, DeployerInitially, DeployerStep, PTL DEF DeployerSpec

==============================================================================
