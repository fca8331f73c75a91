----------------------------- MODULE TailProofs -----------------------------
(***************************************************************************)
(* Proofs about where the tail ends up (module SyncTail): the chain above   *)
(* it and the window before the head, on top of the invariant of            *)
(* SyncTailProofs.                                                          *)
(***************************************************************************)
EXTENDS SyncTailProofs

\* The store's tail is where its headers begin.
EdgeInv == storeTail # 0 => storeTail - 1 \notin stored

\* What is missing between t and the tail has been accepted.
Reached(t) == \A h \in Heights : t <= h /\ h < storeTail => h \in Handed

\* The store has accepted the heights from i to j.
Accepted(i, j) == \A h \in Heights : i <= h /\ h <= j => h \in Handed

\* What a mover has appended.
AppendAt(m) ==
    /\ tpc[m] = "appending" /\ pc[m] # "idle" => batch[m] = <<new[m], new[m]>>
    /\ tpc[m] = "syncing" /\ pc[m] # "idle" => batch[m][2] = from[m] /\ Accepted(new[m], batch[m][1] - 1)
    /\ pc[m] = "publish" => Accepted(batch[m][1], batch[m][2])
    /\ tpc[m] = "appending" /\ pc[m] = "idle" /\ outcome[m] = "nil" => Accepted(new[m], new[m])
    /\ tpc[m] = "syncing" /\ pc[m] = "idle" /\ outcome[m] = "nil" => Accepted(new[m], from[m])
    /\ tpc[m] = "move" => new[m] = old[m] \/ Accepted(new[m], new[m])
    /\ tpc[m] = "sync" => Accepted(new[m], from[m])

\* The tail is at or below the one a call works from; once the call has moved it, what is missing
\* above the new one has been accepted.
TailAt(m) ==
    /\ tailMu = m /\ tpc[m] # "moved" /\ ~stale /\ old[m] # 0 => storeTail <= old[m]
    /\ tpc[m] = "moved" /\ ~stale /\ old[m] # 0 => Reached(new[m])

\* Only a call that is about to return has moved the tail above the one last settled on.
SettleInv ==
    settled # 0 => /\ storeTail # 0
                   /\ Reached(settled) \/ \E m \in Movers : tpc[m] = "moved" /\ ~stale /\ old[m] # 0

TailInv ==
    /\ EdgeInv /\ stale \in BOOLEAN /\ SettleInv
    /\ \A m \in Movers : AppendAt(m) /\ TailAt(m)

-----------------------------------------------------------------------------
\* Only a pruning takes headers away or moves the tail up.
Grows ==
    /\ \A h \in Heights : h \in Handed => h \in Handed'
    /\ storeTail # 0 => storeTail' # 0 /\ storeTail' <= storeTail

\* Every step but a pruning makes the chain grow.
LEMMA GrowStep ==
    ASSUME Inv, [Next]_vars
    PROVE  Grows \/ \E m \in Movers : DeleteRange(m)
<1>0. /\ SyncStoreTypeOK /\ LockInv /\ storeTail \in 0..MaxHeight /\ MaxHeight \in Nat
  BY SyncStoreAssumption DEF Inv, SyncStoreTypeOK
<1>1. ASSUME UNCHANGED <<storeTail, stored, queue>> PROVE Grows
  <2>1. Handed' = Handed
    BY <1>1 DEF Handed
  <2> QED  BY <1>0, <1>1, <2>1 DEF Grows
<1>2. ASSUME NEW b \in Spans, queue' = Append(queue, b), UNCHANGED <<stored, storeTail>> PROVE Grows
  BY <1>0, <1>2, Accept DEF Grows
<1>3. ASSUME NEW m \in Movers, QuietMove(m) \/ AppendTail(m) \/ SyncDiff(m) PROVE Grows
  <2>1. UNCHANGED <<storeTail, stored, queue>>
    BY <1>3, QuietFrame DEF AppendTail, SyncDiff, storeVars
  <2> QED  BY <1>1, <2>1
<1>4. ASSUME NEW m \in Movers, ForceAppend(m) PROVE Grows
  <2>1. new[m] \in Heights
    BY <1>4 DEF Inv, MoverInv, MoverAt, ForceAppend
  <2>2. <<new[m], new[m]>> \in Spans
    BY <2>1, SpanTypes DEF Heights
  <2> QED  BY <1>2, <1>4, <2>2 DEF ForceAppend
<1>5. ASSUME NEW a \in Appenders, StoreAppend(a) PROVE Grows
  <2>1. batch[a] \in Spans
    BY <1>0, <1>5 DEF LockInv, StoreAppend, MayAppend
  <2> QED  BY <1>2, <1>5, <2>1 DEF StoreAppend
<1>6. CASE StoreApplies
  <2>1. storeTail' \in Heights /\ (storeTail # 0 => storeTail' <= storeTail)
    BY <1>6, ApplyIs
  <2>2. storeTail' # 0
    BY <1>0, <2>1 DEF Heights
  <2> QED  BY <1>6, <2>1, <2>2, ApplyKeeps DEF Grows
<1>7. CASE OtherStep
  <2>1. \/ StoreApplies \/ \E a \in Appenders : StoreAppend(a)
        \/ UNCHANGED <<storeTail, stored, queue>>
    BY <1>7 DEF OtherStep, AppendCall, AppendStep, Lock, Reject, StoreAppendFails, Publish,
       LockCancelled, HeadCall, HeadReturn, HeadStep, HeadCached, HeadMiss, HeadLoad, HeadPublish, storeVars
  <2> QED  BY <1>1, <1>5, <1>6, <2>1
<1>8. CASE UNCHANGED vars
  BY <1>1, <1>8 DEF vars, syncStoreVars, storeVars
<1> QED
  BY <1>3, <1>4, <1>7, <1>8, NextCases

\* The tail stays where the headers begin.
LEMMA EdgeStep ==
    ASSUME Inv, EdgeInv, [Next]_vars
    PROVE  EdgeInv'
<1>0. /\ SyncStoreTypeOK /\ StoreInv /\ MaxHeight \in Nat /\ storeTail \in 0..MaxHeight
  BY SyncStoreAssumption DEF Inv, SyncStoreTypeOK
<1>1. CASE UNCHANGED <<storeTail, stored>>
  BY <1>1 DEF EdgeInv
<1>2. CASE StoreApplies
  <2> DEFINE b == Head(queue)
             lo == IF storeTail = 0 THEN b[1] ELSE storeTail
  <2>1. b \in Spans /\ stored' \in SUBSET Heights
    BY <1>2, ApplyIs
  <2>2. storeTail' = Downward(lo, stored')
    BY <1>2 DEF StoreApplies
  <2>3. lo \in Heights
    BY <1>0, <2>1, SpanTypes DEF Heights
  <2> HIDE DEF lo
  <2>4. storeTail' - 1 \notin stored'
    BY <2>1, <2>2, <2>3, DownwardIs
  <2> QED  BY <2>4 DEF EdgeInv
<1>3. ASSUME NEW m \in Movers, DeleteRange(m) PROVE EdgeInv'
  <2>1. 0 < old[m] /\ old[m] < new[m] /\ new[m] \in Nat /\ old[m] \in Nat
    BY <1>3 DEF Inv, MoverInv, MoverAt, MoverTypes, DeleteRange
  <2>2. storeTail' = new[m] /\ stored' = stored \ old[m]..new[m] - 1
    BY <1>3 DEF DeleteRange
  <2>3. new[m] - 1 \in old[m]..new[m] - 1
    BY <2>1
  <2> QED  BY <2>2, <2>3 DEF EdgeInv
<1>4. ASSUME NEW m \in Movers, QuietMove(m) \/ AppendTail(m) \/ SyncDiff(m) \/ ForceAppend(m) PROVE EdgeInv'
  BY <1>1, <1>4, QuietFrame DEF AppendTail, SyncDiff, ForceAppend, storeVars
<1>5. CASE OtherStep
  <2>1. StoreApplies \/ UNCHANGED <<storeTail, stored>>
    BY <1>5 DEF OtherStep, AppendCall, AppendStep, Lock, Reject, StoreAppend, StoreAppendFails, Publish,
       LockCancelled, HeadCall, HeadReturn, HeadStep, HeadCached, HeadMiss, HeadLoad, HeadPublish, storeVars
  <2> QED  BY <1>1, <1>2, <2>1
<1>6. CASE UNCHANGED vars
  BY <1>1, <1>6 DEF vars, syncStoreVars, storeVars
<1> QED
  BY <1>3, <1>4, <1>5, <1>6, NextCases

\* A mover that stands still keeps what it has appended.
LEMMA AppendStill ==
    ASSUME NEW m \in Movers, AppendAt(m), Still(m), Grows,
           new'[m] = new[m], from'[m] = from[m], old'[m] = old[m]
    PROVE  AppendAt(m)'
<1>1. \A i, j : Accepted(i, j) => Accepted(i, j)'
  BY DEF Grows, Accepted
<1>2. pc'[m] = pc[m] /\ batch'[m] = batch[m] /\ outcome'[m] = outcome[m] /\ tpc'[m] = tpc[m]
  BY DEF Still
<1> HIDE DEF Accepted
<1> QED
  BY <1>1, <1>2 DEF AppendAt

\* Every step keeps what the movers have appended.
LEMMA AppendedStep ==
    ASSUME Inv, \A m \in Movers : AppendAt(m), [Next]_vars, NEW m \in Movers
    PROVE  AppendAt(m)'
<1>0. /\ SyncStoreTypeOK /\ LockInv /\ MaxHeight \in Nat /\ AppendAt(m) /\ MoverAt(m)
      /\ m \in Appenders /\ m \in Procs /\ Appenders \subseteq Procs /\ m \notin Readers
      /\ pc \in [Procs -> PcTypes] /\ batch \in [Appenders -> Spans \cup {None}]
      /\ outcome \in [Appenders -> Outcomes] /\ tpc \in [Movers -> Stages]
      /\ pc[m] # "idle" => tpc[m] \in {"appending", "syncing"}
      /\ new \in [Movers -> 0..Width - 1] /\ from \in [Movers -> 0..Width - 1] /\ old \in [Movers -> 0..MaxHeight]
      /\ Width \in Nat /\ stored \subseteq Heights
  BY SyncStoreAssumption, SyncTailAssumption
     DEF Inv, Procs, SyncStoreTypeOK, PcTypes, Outcomes, MoverTypes, MoverInv, Stages, LockInv
\* Steps of others.
<1>1. ASSUME Still(m), Grows, new'[m] = new[m], from'[m] = from[m], old'[m] = old[m] PROVE AppendAt(m)'
  BY <1>0, <1>1, AppendStill
<1>2. ASSUME NEW q \in Movers, DeleteRange(q) PROVE AppendAt(m)'
  <2>1. UNCHANGED <<pc, batch, outcome, new, from, old>> /\ Step(q, "moved") /\ tpc[q] = "delete"
    BY <1>2 DEF DeleteRange
  <2>2. tailMu = q
    BY <2>1 DEF Inv, MoverInv, MoverAt
  <2>3. tpc'[m] \in {"idle", "tryLock", "moved"} /\ pc'[m] = "idle"
    BY <1>0, <2>1, <2>2 DEF Step, MoverAt
  <2> QED  BY <2>3 DEF AppendAt
<1>3. ASSUME NEW q \in Movers \ {m}, QuietMove(q) \/ AppendTail(q) \/ SyncDiff(q) \/ ForceAppend(q), Grows
      PROVE  AppendAt(m)'
  <2>1. new'[m] = new[m] /\ from'[m] = from[m] /\ old'[m] = old[m]
    BY <1>0, <1>3 DEF QuietMove, MoveCall, TryLock, Renew, Find, Load, Fetch, CallFails, TailAppended, Move,
       DeleteRefused, SyncAppended, SyncDone, Unlock, AppendTail, SyncDiff, ForceAppend, tailStays, Found
  <2>2. Still(m)
    <3>1. CASE QuietMove(q)
      BY <3>1, QuietFrame, QuietIdle DEF Still
    <3>2. CASE AppendTail(q) \/ SyncDiff(q)
      <4>1. UNCHANGED loc /\ tpc'[m] = tpc[m]
        BY <1>0, <3>2 DEF AppendTail, SyncDiff, Step
      <4>2. \E b \in Spans : StartAppend(q, b)
        BY <3>2, MoverAppends
      <4>3. pc'[m] = pc[m] /\ batch'[m] = batch[m] /\ outcome'[m] = outcome[m]
        BY <1>0, <4>2 DEF StartAppend, Goto
      <4> QED  BY <4>1, <4>3 DEF Still
    <3>3. CASE ForceAppend(q)
      BY <1>0, <3>3 DEF ForceAppend, Step, Still
    <3> QED  BY <1>3, <3>1, <3>2, <3>3
  <2> QED  BY <1>1, <1>3, <2>1, <2>2
\* Its own steps.
<1>4. ASSUME AppendTail(m) \/ SyncDiff(m), Grows PROVE AppendAt(m)'
  <2>1. PICK b \in Spans : StartAppend(m, b)
    BY <1>4, MoverAppends
  <2>2. CASE AppendTail(m)
    <3>1. StartAppend(m, <<new[m], new[m]>>) /\ UNCHANGED new /\ Step(m, "appending")
      BY <2>2 DEF AppendTail
    <3>2. tpc'[m] = "appending"
      BY <1>0, <3>1 DEF Step
    <3>3. \/ pc'[m] = "idle" /\ outcome'[m] = "nonAdjacent"
          \/ pc'[m] = "lock" /\ batch'[m] = <<new[m], new[m]>>
      BY <1>0, <3>1 DEF StartAppend, Goto
    <3> QED  BY <3>1, <3>2, <3>3 DEF AppendAt
  <2>3. CASE SyncDiff(m)
    <3>1. PICK last \in from[m] + 1..Lower(from[m] + RequestSize, old[m]) :
             /\ StartAppend(m, <<from[m] + 1, last>>) /\ UNCHANGED new /\ Step(m, "syncing") /\ tpc[m] = "sync"
             /\ from' = [from EXCEPT ![m] = last]
      BY <2>3 DEF SyncDiff
    <3>2. tpc'[m] = "syncing" /\ from'[m] = last
      BY <1>0, <3>1 DEF Step
    <3>3. \/ pc'[m] = "idle" /\ outcome'[m] = "nonAdjacent"
          \/ pc'[m] = "lock" /\ batch'[m] = <<from[m] + 1, last>>
      BY <1>0, <3>1 DEF StartAppend, Goto
    <3>4. Accepted(new[m], from[m]) /\ from[m] + 1 - 1 = from[m]
      BY <1>0, <3>1 DEF AppendAt
    <3>5. \A h \in Heights : new[m] <= h /\ h <= from[m] => h \in Handed'
      BY <1>4, <3>4 DEF Accepted, Grows
    <3>6. CASE pc'[m] = "idle" /\ outcome'[m] = "nonAdjacent"
      BY <3>2, <3>6 DEF AppendAt
    <3>7. CASE pc'[m] = "lock" /\ batch'[m] = <<from[m] + 1, last>>
      <4>1. batch'[m][2] = from'[m] /\ batch'[m][1] - 1 = from[m] /\ new'[m] = new[m]
        <5>1. batch'[m][1] = from[m] + 1 /\ batch'[m][2] = last
          BY <3>7
        <5>2. from[m] \in Int
          BY <1>0
        <5>3. batch'[m][1] - 1 = from[m]
          BY <5>1, <5>2
        <5> QED  BY <3>1, <3>2, <5>1, <5>3
      <4>2. Accepted(new[m], batch[m][1] - 1)'
        BY <3>5, <4>1 DEF Accepted
      <4> QED  BY <3>2, <3>7, <4>1, <4>2 DEF AppendAt
    <3> QED  BY <3>3, <3>6, <3>7
  <2> QED  BY <1>4, <2>2, <2>3
<1>5. ASSUME ForceAppend(m) PROVE AppendAt(m)'
  <2>1. new[m] \in Heights
    BY <1>0, <1>5 DEF MoverAt, ForceAppend
  <2>2. <<new[m], new[m]>> \in Spans
    BY <2>1, SpanTypes DEF Heights
  <2>3. \A h \in Heights : InBatch(h, <<new[m], new[m]>>) => h \in Handed'
    BY <1>0, <1>5, <2>2, Accept DEF ForceAppend
  <2>4. Accepted(new[m], new[m])' /\ UNCHANGED new
    BY <1>5, <2>3 DEF Accepted, InBatch, ForceAppend
  <2>5. tpc'[m] = "move" /\ pc'[m] = "idle"
    BY <1>0, <1>5 DEF ForceAppend, Step
  <2> QED  BY <2>4, <2>5 DEF AppendAt
<1>6. ASSUME QuietMove(m), Grows PROVE AppendAt(m)'
  <2>1. UNCHANGED <<pc, outcome, stored, queue>> /\ pc[m] = "idle"
    BY <1>6, QuietFrame, QuietIdle DEF storeVars
  <2>2. \A i, j : Accepted(i, j)' <=> Accepted(i, j)
    BY <2>1 DEF Accepted, Handed
  <2>3. ASSUME tpc'[m] \notin {"appending", "syncing", "move", "sync"} PROVE AppendAt(m)'
    BY <2>1, <2>3 DEF AppendAt
  <2>4. ASSUME tpc'[m] = "move", new'[m] = old'[m] \/ Accepted(new'[m], new'[m]) PROVE AppendAt(m)'
    <3>1. Accepted(new[m], new[m])' <=> Accepted(new'[m], new'[m])
      BY <2>1 DEF Accepted, Handed
    <3> QED  BY <2>1, <2>4, <3>1 DEF AppendAt
  <2>5. ASSUME tpc'[m] = "sync", Accepted(new'[m], from'[m]) PROVE AppendAt(m)'
    <3>1. Accepted(new[m], from[m])' <=> Accepted(new'[m], from'[m])
      BY <2>1 DEF Accepted, Handed
    <3> QED  BY <2>1, <2>5, <3>1 DEF AppendAt
  <2>6. ASSUME NEW h \in stored, h \in Heights PROVE Accepted(h, h)
    BY <1>0, <2>6 DEF Accepted, Handed, Heights
  <2>7. CASE Renew(m)
    <3>1. CASE config.kind = "hash" /\ Found(m, config.height) /\
               Step(m, IF config.height = old[m] \/ config.height \in stored THEN "move" ELSE "fetch")
      <4>1. new'[m] = config.height /\ UNCHANGED old
        BY <1>0, <2>7, <3>1 DEF Renew, Found, tailStays
      <4>2. CASE config.height = old[m] \/ config.height \in stored
        <5>1. tpc'[m] = "move"
          BY <1>0, <3>1, <4>2 DEF Step
        <5>2. config.height \in stored => Accepted(config.height, config.height)
          BY <1>0, <2>6
        <5> QED  BY <2>4, <4>1, <4>2, <5>1, <5>2
      <4>3. CASE ~(config.height = old[m] \/ config.height \in stored)
        <5>1. tpc'[m] = "fetch"
          BY <1>0, <3>1, <4>3 DEF Step
        <5> QED  BY <2>3, <5>1
      <4> QED  BY <4>2, <4>3
    <3>2. CASE Step(m, "load") \/ Step(m, "find")
      BY <1>0, <2>3, <3>2 DEF Step
    <3> QED  BY <2>7, <3>1, <3>2 DEF Renew
  <2>8. CASE Load(m)
    <3>1. CASE new[m] \in stored /\ Step(m, "move")
      <4>1. tpc'[m] = "move" /\ new'[m] = new[m]
        BY <1>0, <2>8, <3>1 DEF Load, Step
      <4> QED  BY <1>0, <2>4, <2>6, <3>1, <4>1
    <3>2. CASE Step(m, "fetch")
      BY <1>0, <2>3, <3>2 DEF Step
    <3> QED  BY <2>8, <3>1, <3>2 DEF Load
  <2>9. CASE TailAppended(m)
    <3>1. UNCHANGED <<new, old>> /\ tpc[m] = "appending" /\ pc[m] = "idle"
      BY <2>9 DEF TailAppended, tailStays
    <3>2. CASE outcome[m] = "nil" /\ Step(m, "move")
      <4>1. tpc'[m] = "move" /\ Accepted(new[m], new[m])
        BY <1>0, <3>1, <3>2 DEF AppendAt, Step
      <4> QED  BY <2>4, <3>1, <4>1
    <3>3. CASE Step(m, "force") \/ Step(m, "idle")
      BY <1>0, <2>3, <3>3 DEF Step
    <3> QED  BY <2>9, <3>2, <3>3 DEF TailAppended, Fail
  <2>10. CASE Move(m)
    <3>1. \/ Step(m, "moved") \/ Step(m, "delete")
          \/ old[m] # new[m] /\ Step(m, "sync")
      BY <2>10, Zenon DEF Move
    <3>2. CASE Step(m, "moved") \/ Step(m, "delete")
      BY <1>0, <2>3, <3>2 DEF Step
    <3>3. CASE old[m] # new[m] /\ Step(m, "sync")
      <4>1. tpc'[m] = "sync" /\ new'[m] = new[m] /\ from'[m] = new[m] /\ tpc[m] = "move"
        BY <1>0, <2>10, <3>3 DEF Move, Step
      <4> QED  BY <1>0, <2>5, <3>3, <4>1 DEF AppendAt
    <3> QED  BY <3>1, <3>2, <3>3
  <2>11. CASE SyncAppended(m)
    <3>1. UNCHANGED <<new, from>> /\ tpc[m] = "syncing"
      BY <2>11 DEF SyncAppended
    <3>2. CASE outcome[m] = "nil" /\ Step(m, "sync")
      <4>1. tpc'[m] = "sync" /\ Accepted(new[m], from[m])
        BY <1>0, <2>1, <3>1, <3>2 DEF AppendAt, Step
      <4> QED  BY <2>5, <3>1, <4>1
    <3>3. CASE Step(m, "idle")
      BY <1>0, <2>3, <3>3 DEF Step
    <3> QED  BY <2>11, <3>2, <3>3 DEF SyncAppended, Fail
  <2>12. CASE ~(Renew(m) \/ Load(m) \/ TailAppended(m) \/ Move(m) \/ SyncAppended(m))
    <3>1. tpc'[m] \notin {"appending", "syncing", "move", "sync"}
      BY <1>0, <1>6, <2>12 DEF QuietMove, MoveCall, TryLock, Find, Fetch, CallFails,
         DeleteRefused, SyncDone, Unlock, Fail, Step
    <3> QED  BY <2>3, <3>1
  <2> QED  BY <2>7, <2>8, <2>9, <2>10, <2>11, <2>12
\* Its Append.
<1>7. ASSUME pc[m] # "idle", Grows, UNCHANGED tailVars PROVE
          /\ tpc'[m] = tpc[m] /\ tpc'[m] \in {"appending", "syncing"} /\ new'[m] = new[m] /\ from'[m] = from[m]
          /\ tpc[m] = "appending" => batch[m] = <<new[m], new[m]>>
          /\ tpc[m] = "syncing" => /\ batch[m][2] = from[m]
                                  /\ \A h \in Heights : new[m] <= h /\ h <= batch[m][1] - 1 => h \in Handed'
  BY <1>0, <1>7 DEF AppendAt, Accepted, Grows, tailVars
<1>8. ASSUME pc[m] # "idle", Grows, UNCHANGED tailVars, batch'[m] = batch[m], pc'[m] # "idle",
             pc'[m] = "publish" => \A h \in Heights : batch[m][1] <= h /\ h <= batch[m][2] => h \in Handed'
      PROVE  AppendAt(m)'
  <2>1. pc'[m] = "publish" => Accepted(batch[m][1], batch[m][2])'
    BY <1>8 DEF Accepted
  <2>2. tpc[m] = "syncing" => Accepted(new[m], batch[m][1] - 1)'
    BY <1>7, <1>8 DEF Accepted
  <2> QED  BY <1>7, <1>8, <2>1, <2>2 DEF AppendAt
<1>9. ASSUME StoreAppend(m), Grows, UNCHANGED tailVars PROVE AppendAt(m)'
  <2>1. batch[m] \in Spans /\ pc[m] # "idle"
    BY <1>0, <1>9 DEF LockInv, StoreAppend, MayAppend
  <2>2. \A h \in Heights : InBatch(h, batch[m]) => h \in Handed'
    BY <1>0, <1>9, <2>1, Accept DEF StoreAppend
  <2>3. batch'[m] = batch[m] /\ pc'[m] = "publish"
    BY <1>0, <1>9 DEF StoreAppend, Goto
  <2> QED  BY <1>8, <1>9, <2>1, <2>2, <2>3 DEF InBatch
<1>10. ASSUME Reject(m) \/ StoreAppendFails(m) \/ LockCancelled(m), Grows, UNCHANGED tailVars PROVE AppendAt(m)'
  <2>1. pc[m] # "idle" /\ pc'[m] = "idle" /\ outcome'[m] # "nil"
    BY <1>0, <1>10 DEF Reject, StoreAppendFails, LockCancelled, Leave, Goto, MayAppend
  <2> QED  BY <1>7, <1>10, <2>1 DEF AppendAt
<1>11. ASSUME Publish(m), Grows, UNCHANGED tailVars PROVE AppendAt(m)'
  <2>1. pc[m] = "publish" /\ pc'[m] = "idle"
    BY <1>0, <1>11 DEF Publish, Leave, Goto
  <2>2. \A h \in Heights : batch[m][1] <= h /\ h <= batch[m][2] => h \in Handed'
    BY <1>0, <1>11, <2>1 DEF AppendAt, Accepted, Grows
  <2>3. CASE tpc[m] = "appending"
    <3>1. Accepted(new[m], new[m])'
      BY <1>7, <1>11, <2>1, <2>2, <2>3 DEF Accepted
    <3> QED  BY <1>7, <1>11, <2>1, <2>3, <3>1 DEF AppendAt
  <2>4. CASE tpc[m] = "syncing"
    <3>1. batch[m] \in Spans /\ batch[m][1] \in Int /\ batch[m][2] = from[m]
      BY <1>0, <1>7, <1>11, <2>1, <2>4, SpanTypes DEF LockInv, Heights
    <3>2. ASSUME NEW h \in Heights, new[m] <= h, h <= from[m] PROVE h \in Handed'
      <4>1. h <= batch[m][1] - 1 \/ batch[m][1] <= h
        BY <1>0, <3>1 DEF Heights
      <4> QED  BY <1>7, <1>11, <2>1, <2>2, <2>4, <3>1, <3>2, <4>1
    <3>3. Accepted(new[m], from[m])'
      BY <1>7, <1>11, <2>1, <3>2 DEF Accepted
    <3> QED  BY <1>7, <1>11, <2>1, <2>4, <3>3 DEF AppendAt
  <2> QED  BY <1>7, <1>11, <2>1, <2>3, <2>4
<1>12. ASSUME Lock(m) \/ HeadStep(m), Grows, UNCHANGED tailVars PROVE AppendAt(m)'
  <2>1. pc[m] # "idle" /\ UNCHANGED batch
    BY <1>12 DEF Lock, HeadStep, HeadCached, HeadMiss, HeadLoad, HeadPublish
  <2>2. \E l \in {"head", "storeHead", "cas", "decide", "empty"} : Goto(m, l)
    <3>1. HeadLoad(m) => Goto(m, "cas") \/ (m \in Readers /\ Goto(m, "done")) \/ Goto(m, "empty")
      BY Zenon DEF HeadLoad
    <3> QED  BY <1>0, <1>12, <3>1 DEF Lock, HeadStep, HeadCached, HeadMiss, HeadPublish, AfterHead
  <2>3. pc'[m] # "idle" /\ pc'[m] # "publish"
    BY <1>0, <2>2 DEF Goto
  <2> QED  BY <1>8, <1>12, <2>1, <2>3
<1>13. ASSUME NEW p \in Procs \ {m}, Only(p), Grows, UNCHANGED tailVars PROVE AppendAt(m)'
  BY <1>0, <1>1, <1>13 DEF Only, tailVars
<1>14. ASSUME NEW p \in Procs \ {m}, UNCHANGED tailVars,
              \/ AppendStep(p) \/ LockCancelled(p) \/ HeadCall(p) \/ HeadReturn(p) \/ HeadStep(p)
              \/ \E b \in Batches : AppendCall(p, b)
       PROVE  Only(p)
  <2>1. UNCHANGED pc \/ \E l : Goto(p, l)
    BY <1>14, Zenon DEF AppendCall, StartAppend, AppendStep, Lock, Reject, StoreAppend, StoreAppendFails, Publish,
       LockCancelled, HeadCall, HeadReturn, HeadStep, HeadCached, HeadMiss, HeadLoad, HeadPublish, Leave
  <2>2. UNCHANGED loc \/ \E h : Read(p, h)
    BY <1>14, Zenon DEF AppendCall, StartAppend, AppendStep, Lock, Reject, StoreAppend, StoreAppendFails, Publish,
       LockCancelled, HeadCall, HeadReturn, HeadStep, HeadCached, HeadMiss, HeadLoad, HeadPublish, Leave
  <2>3. UNCHANGED batch \/ \E b : batch' = [batch EXCEPT ![p] = b]
    BY <1>14, Zenon DEF AppendCall, StartAppend, AppendStep, Lock, Reject, StoreAppend, StoreAppendFails, Publish,
       LockCancelled, HeadCall, HeadReturn, HeadStep, HeadCached, HeadMiss, HeadLoad, HeadPublish, Leave
  <2>4. UNCHANGED outcome \/ \E o : outcome' = [outcome EXCEPT ![p] = o]
    BY <1>14, Zenon DEF AppendCall, StartAppend, AppendStep, Lock, Reject, StoreAppend, StoreAppendFails, Publish,
       LockCancelled, HeadCall, HeadReturn, HeadStep, HeadCached, HeadMiss, HeadLoad, HeadPublish, Leave
  <2>5. \A q \in Movers \ {p} : tpc'[q] = tpc[q]
    BY <1>14 DEF tailVars
  <2> QED  BY <2>1, <2>2, <2>3, <2>4, <2>5, OnlyIs
<1>15. ASSUME StoreApplies, Grows, UNCHANGED tailVars PROVE AppendAt(m)'
  BY <1>0, <1>1, <1>15 DEF StoreApplies, Still, tailVars
<1>16. ASSUME OtherStep, Grows, UNCHANGED tailVars PROVE AppendAt(m)'
  <2>1. ASSUME NEW a \in Appenders, AppendStep(a) \/ LockCancelled(a) PROVE AppendAt(m)'
    <3>1. a = m \/ a \in Procs \ {m}
      BY <1>0
    <3> QED  BY <1>9, <1>10, <1>11, <1>12, <1>13, <1>14, <1>16, <2>1, <3>1 DEF AppendStep
  <2>2. ASSUME NEW p \in Procs, HeadStep(p) PROVE AppendAt(m)'
    BY <1>12, <1>13, <1>14, <1>16, <2>2
  <2>3. ASSUME NEW r \in Readers, HeadCall(r) \/ HeadReturn(r) PROVE AppendAt(m)'
    <3>1. r \in Procs \ {m}
      BY <1>0 DEF Procs
    <3> QED  BY <1>13, <1>14, <1>16, <2>3, <3>1
  <2>4. ASSUME NEW a \in Appenders \ Movers, NEW b \in Batches, AppendCall(a, b) PROVE AppendAt(m)'
    <3>1. a \in Procs \ {m}
      BY <1>0
    <3> QED  BY <1>13, <1>14, <1>16, <2>4, <3>1
  <2> QED  BY <1>15, <1>16, <2>1, <2>2, <2>3, <2>4 DEF OtherStep
<1>17. ASSUME UNCHANGED vars, Grows PROVE AppendAt(m)'
  BY <1>1, <1>17 DEF vars, syncStoreVars, tailVars, Still
<1>18. CASE Grows
  <2>1. ASSUME NEW q \in Movers, QuietMove(q) \/ AppendTail(q) \/ SyncDiff(q) \/ ForceAppend(q) PROVE AppendAt(m)'
    BY <1>3, <1>4, <1>5, <1>6, <1>18, <2>1
  <2> QED  BY <1>2, <1>16, <1>17, <1>18, <2>1, NextCases
<1> QED
  BY <1>2, <1>18, GrowStep

\* What is reached stays reached while the chain grows.
LEMMA ReachedStill ==
    ASSUME Inv, Grows, storeTail # 0, storeTail' \in Nat, NEW t, Reached(t)
    PROVE  \A h \in Heights : t <= h /\ h < storeTail' => h \in Handed'
<1>0. storeTail \in Nat /\ Heights \subseteq Nat
  BY SyncStoreAssumption DEF Inv, SyncStoreTypeOK, Heights
<1>1. storeTail' <= storeTail
  BY DEF Grows
<1> QED
  BY <1>0, <1>1 DEF Reached, Grows

\* Every step keeps the tail at or below the one a call works from.
LEMMA TailAtStep ==
    ASSUME Inv, \A m \in Movers : AppendAt(m) /\ TailAt(m), [Next]_vars, NEW m \in Movers
    PROVE  TailAt(m)'
<1>0. /\ SyncStoreTypeOK /\ MaxHeight \in Nat /\ AppendAt(m) /\ MoverAt(m) /\ TailAt(m) /\ m # "free"
      /\ tpc \in [Movers -> Stages] /\ new \in [Movers -> 0..Width - 1] /\ Width \in Nat
      /\ old \in [Movers -> 0..MaxHeight] /\ from \in [Movers -> 0..Width - 1]
      /\ storeTail \in 0..MaxHeight /\ Heights \subseteq Nat
  <2>1. MaxHeight \in Nat /\ Width \in Nat /\ m # "free" /\ Heights \subseteq Nat
    BY SyncStoreAssumption, SyncTailAssumption DEF Heights
  <2>2. /\ tpc \in [Movers -> Stages] /\ new \in [Movers -> 0..Width - 1]
        /\ old \in [Movers -> 0..MaxHeight] /\ from \in [Movers -> 0..Width - 1]
    BY DEF Inv, MoverTypes, Stages
  <2>3. SyncStoreTypeOK /\ MoverAt(m) /\ storeTail \in 0..MaxHeight
    BY DEF Inv, MoverInv, SyncStoreTypeOK
  <2> QED  BY <2>1, <2>2, <2>3
<1>1. storeTail' \in Nat
  BY StoreTypeStep, SyncStoreAssumption DEF SyncStoreTypeOK
<1>2. ASSUME Grows, tpc'[m] = tpc[m], old'[m] = old[m], new'[m] = new[m], tailMu' = m => tailMu = m,
             tailMu = m => stale' = stale
      PROVE  TailAt(m)'
  <2>1. ASSUME tailMu' = m, tpc'[m] # "moved", ~stale', old'[m] # 0 PROVE storeTail' <= old'[m]
    <3>1. tailMu = m /\ tpc[m] # "moved" /\ ~stale /\ old[m] # 0
      BY <1>2, <2>1
    <3>2. storeTail <= old[m] /\ storeTail # 0
      BY <1>0, <3>1 DEF TailAt, MoverAt
    <3>3. storeTail' <= storeTail
      BY <1>2, <3>2 DEF Grows
    <3> QED  BY <1>0, <1>1, <1>2, <3>2, <3>3
  <2>2. ASSUME tpc'[m] = "moved", ~stale', old'[m] # 0 PROVE Reached(new[m])'
    <3>1. tpc[m] = "moved" /\ ~stale /\ old[m] # 0
      BY <1>0, <1>2, <2>2 DEF MoverAt
    <3>2. Reached(new[m]) /\ storeTail # 0
      BY <1>0, <3>1 DEF TailAt, MoverAt
    <3>3. \A h \in Heights : new[m] <= h /\ h < storeTail' => h \in Handed'
      BY <1>1, <1>2, <3>2, ReachedStill
    <3> QED  BY <1>2, <3>3 DEF Reached
  <2> QED  BY <2>1, <2>2 DEF TailAt
<1>3. ASSUME tailMu' # m, tpc'[m] # "moved" PROVE TailAt(m)'
  BY <1>3 DEF TailAt
\* A step of another call.
<1>4. ASSUME NEW q \in Movers \ {m}, Grows, QuietMove(q) \/ AppendTail(q) \/ SyncDiff(q) \/ ForceAppend(q)
      PROVE  TailAt(m)'
  <2>1. old'[m] = old[m] /\ new'[m] = new[m]
    BY <1>0, <1>4 DEF QuietMove, MoveCall, TryLock, Renew, Find, Load, Fetch, CallFails, TailAppended, Move,
       DeleteRefused, SyncAppended, SyncDone, Unlock, AppendTail, SyncDiff, ForceAppend, tailStays, Found
  <2>2. tpc'[m] = tpc[m]
    BY <1>0, <1>4, QuietIdle DEF AppendTail, SyncDiff, ForceAppend, Step
  <2>3. tailMu' = tailMu \/ tailMu' = "free" \/ tailMu' = q
    BY <1>4 DEF QuietMove, MoveCall, TryLock, Renew, Find, Load, Fetch, CallFails, TailAppended, Move,
       DeleteRefused, SyncAppended, SyncDone, Unlock, AppendTail, SyncDiff, ForceAppend, Fail
  <2>4. stale' = stale \/ tailMu = "free"
    BY <1>4 DEF QuietMove, MoveCall, TryLock, Renew, Find, Load, Fetch, CallFails, TailAppended, Move,
       DeleteRefused, SyncAppended, SyncDone, Unlock, AppendTail, SyncDiff, ForceAppend, tailStays
  <2> QED  BY <1>0, <1>2, <1>4, <2>1, <2>2, <2>3, <2>4
<1>5. ASSUME NEW q \in Movers, DeleteRange(q) PROVE TailAt(m)'
  <2>1. tailMu = q
    BY <1>5 DEF Inv, MoverInv, MoverAt, DeleteRange
  <2>2. storeTail' = new[q] /\ UNCHANGED <<tailMu, new>> /\ tpc' = [tpc EXCEPT ![q] = "moved"]
    BY <1>5 DEF DeleteRange, Step
  <2>3. CASE q = m
    <3>1. new[m] \in Nat /\ tpc'[m] = "moved"
      BY <1>0, <2>2, <2>3
    <3>2. Reached(new[m])'
      BY <1>0, <2>2, <2>3, <3>1 DEF Reached
    <3> QED  BY <3>1, <3>2 DEF TailAt
  <2>4. CASE q # m
    <3>1. tpc'[m] = tpc[m] /\ tailMu' # m /\ tpc[m] # "moved"
      BY <1>0, <2>1, <2>2, <2>4 DEF MoverAt
    <3> QED  BY <1>3, <3>1
  <2> QED  BY <2>3, <2>4
\* Its own steps.
<1>6. ASSUME tailMu = m, storeTail' = storeTail, UNCHANGED <<tailMu, old, stale>>, tpc[m] # "moved", tpc'[m] # "moved"
      PROVE  TailAt(m)'
  BY <1>0, <1>6 DEF TailAt
<1>7. ASSUME storeTail' = storeTail, UNCHANGED <<tailMu, old, stale, stored, queue, new>>, tailMu = m,
             tpc[m] # "moved", old[m] # 0 /\ storeTail <= old[m] => Reached(new[m])
      PROVE  TailAt(m)'
  <2>1. Handed' = Handed
    BY <1>7 DEF Handed
  <2>2. Reached(new[m])' <=> Reached(new[m])
    BY <1>7, <2>1 DEF Reached
  <2> QED  BY <1>0, <1>7, <2>2 DEF TailAt
<1>8. CASE AppendTail(m) \/ SyncDiff(m) \/ ForceAppend(m)
  <2>1. tpc[m] \in {"append", "sync", "force"} /\ UNCHANGED <<storeTail, tailMu, old, stale>>
    BY <1>8 DEF AppendTail, SyncDiff, ForceAppend, storeVars, tailStays
  <2>2. tpc'[m] # "moved"
    BY <1>0, <1>8 DEF AppendTail, SyncDiff, ForceAppend, Step
  <2>3. tailMu = m
    BY <1>0, <2>1 DEF MoverAt
  <2> QED  BY <1>6, <2>1, <2>2, <2>3
<1>9. CASE QuietMove(m)
  <2>1. UNCHANGED <<storeTail, stored, queue>>
    BY <1>9, QuietFrame DEF storeVars
  <2>2. CASE \E h \in config.heads : MoveCall(m, h)
    <3>1. tailMu' # m /\ tpc'[m] # "moved"
      BY <1>0, <2>2 DEF MoveCall, MoverAt, Step
    <3> QED  BY <1>3, <3>1
  <2>3. CASE TryLock(m)
    <3>1. CASE stale' = (old[m] # storeTail)
      <4>1. tpc'[m] # "moved"
        BY <1>0, <2>3 DEF TryLock, Step
      <4>2. UNCHANGED old
        BY <2>3 DEF TryLock
      <4>3. ~stale' => old[m] = storeTail
        BY <3>1
      <4> QED  BY <1>0, <2>1, <4>1, <4>2, <4>3 DEF TailAt
    <3>2. CASE tailMu # "free" /\ Step(m, "idle") /\ UNCHANGED tailMu
      <4>1. tailMu # m
        BY <1>0, <2>3 DEF TryLock, MoverAt
      <4> QED  BY <1>0, <1>3, <3>2, <4>1 DEF Step
    <3> QED  BY <2>3, <3>1, <3>2 DEF TryLock
  <2>4. CASE Move(m)
    <3>1. UNCHANGED <<tailMu, old, stale, new>> /\ tpc[m] = "move"
      BY <2>4 DEF Move, tailStays
    <3>2. tailMu = m
      BY <1>0, <3>1 DEF MoverAt
    <3>3. \/ old[m] = 0 \/ old[m] = new[m]
          \/ Step(m, "delete") \/ Step(m, "sync")
      BY <2>4, Zenon DEF Move
    <3>4. CASE old[m] = 0 \/ old[m] = new[m]
      <4>1. old[m] # 0 /\ storeTail <= old[m] => Reached(new[m])
        BY <1>0, <3>4 DEF Reached
      <4> QED  BY <1>7, <2>1, <3>1, <3>2, <4>1
    <3>5. CASE Step(m, "delete") \/ Step(m, "sync")
      <4>1. tpc'[m] # "moved" /\ tpc[m] # "moved"
        BY <1>0, <3>1, <3>5 DEF Step
      <4> QED  BY <1>6, <2>1, <3>1, <3>2, <4>1
    <3> QED  BY <3>3, <3>4, <3>5
  <2>5. CASE SyncDone(m)
    <3>1. UNCHANGED <<tailMu, old, stale, new>> /\ tpc[m] = "sync" /\ from[m] = old[m]
      BY <2>5 DEF SyncDone, tailStays
    <3>2. tailMu = m /\ Accepted(new[m], old[m])
      BY <1>0, <3>1 DEF MoverAt, AppendAt
    <3>3. storeTail <= old[m] => Reached(new[m])
      BY <1>0, <3>2 DEF Accepted, Reached
    <3> QED  BY <1>7, <2>1, <3>1, <3>2, <3>3
  <2>6. CASE CallFails(m) \/ DeleteRefused(m) \/ Unlock(m)
    BY <1>0, <1>3, <2>6 DEF CallFails, DeleteRefused, Unlock, Fail, Step
  <2>7. CASE TailAppended(m) \/ SyncAppended(m)
    <3>1. CASE Fail(m)
      BY <1>0, <1>3, <3>1 DEF Fail, Step
    <3>2. CASE ~Fail(m)
      <4>1. /\ UNCHANGED <<tailMu, old, stale>> /\ tpc[m] \in {"appending", "syncing"}
            /\ Step(m, "move") \/ Step(m, "force") \/ Step(m, "sync")
        BY <2>7, <3>2 DEF TailAppended, SyncAppended, tailStays
      <4>2. tpc'[m] # "moved" /\ tailMu = m
        BY <1>0, <4>1 DEF Step, MoverAt
      <4> QED  BY <1>6, <2>1, <4>1, <4>2
    <3> QED  BY <3>1, <3>2
  <2>8. CASE Renew(m) \/ Find(m) \/ Load(m) \/ Fetch(m)
    <3>1. /\ UNCHANGED <<tailMu, old, stale>> /\ tpc[m] \in {"renew", "find", "load", "fetch"}
          /\ \/ UNCHANGED tpc \/ Step(m, "move") \/ Step(m, "fetch")
             \/ Step(m, "load") \/ Step(m, "find") \/ Step(m, "append")
      BY <2>8 DEF Renew, Find, Load, Fetch, tailStays
    <3>2. tpc'[m] # "moved" /\ tailMu = m
      BY <1>0, <3>1 DEF Step, MoverAt
    <3> QED  BY <1>6, <2>1, <3>1, <3>2
  <2> QED  BY <1>9, <2>2, <2>3, <2>4, <2>5, <2>6, <2>7, <2>8 DEF QuietMove
<1>10. CASE Grows
  <2>1. ASSUME UNCHANGED tailVars PROVE TailAt(m)'
    BY <1>2, <1>10, <2>1 DEF tailVars
  <2> QED  BY <1>4, <1>5, <1>8, <1>9, <1>10, <2>1, NextCases DEF vars
<1> QED
  BY <1>5, <1>10, GrowStep

\* Every step keeps the chain down to the tail last settled on.
LEMMA SettleStep ==
    ASSUME Inv, SettleInv, \A m \in Movers : TailAt(m), [Next]_vars
    PROVE  SettleInv'
<1> DEFINE Witness(m) == tpc[m] = "moved" /\ ~stale /\ old[m] # 0
<1>0. /\ storeTail \in 0..MaxHeight /\ MaxHeight \in Nat /\ "free" \notin Movers
      /\ tpc \in [Movers -> Stages] /\ \A m \in Movers : MoverAt(m)
  BY SyncStoreAssumption, SyncTailAssumption DEF Inv, SyncStoreTypeOK, MoverTypes, MoverInv, Stages
<1>1. storeTail' \in Nat
  BY StoreTypeStep, SyncStoreAssumption DEF SyncStoreTypeOK
<1>2. \A m, q \in Movers : tpc[m] = "moved" /\ tpc[q] \notin {"idle", "tryLock"} => m = q /\ tailMu = m
  BY <1>0 DEF MoverAt
<1>3. ASSUME Grows, settled' = settled, \A m \in Movers : Witness(m) => Witness(m)'
      PROVE  SettleInv'
  <2>1. SUFFICES ASSUME settled # 0
                 PROVE  storeTail' # 0 /\ (Reached(settled)' \/ \E m \in Movers : Witness(m)')
    BY <1>3 DEF SettleInv
  <2>2. storeTail # 0
    BY <2>1 DEF SettleInv
  <2>3. storeTail' # 0
    BY <1>3, <2>2 DEF Grows
  <2>4. CASE Reached(settled)
    <3>1. \A h \in Heights : settled <= h /\ h < storeTail' => h \in Handed'
      BY <1>1, <1>3, <2>2, <2>4, ReachedStill
    <3> QED  BY <1>3, <2>3, <3>1 DEF Reached
  <2>5. CASE \E m \in Movers : Witness(m)
    BY <1>3, <2>3, <2>5
  <2> QED  BY <2>1, <2>4, <2>5 DEF SettleInv
<1>4. ASSUME NEW m \in Movers, DeleteRange(m) PROVE SettleInv'
  <2>1. 0 < old[m] /\ old[m] < new[m] /\ old[m] \in Nat /\ new[m] \in Nat
    BY <1>4 DEF Inv, MoverInv, MoverAt, MoverTypes, DeleteRange
  <2>2. storeTail' = new[m] /\ storeTail' # 0
    BY <1>4, <2>1 DEF DeleteRange
  <2>3. tpc'[m] = "moved" /\ ~stale' /\ old'[m] # 0
    BY <1>0, <1>4, <2>1 DEF DeleteRange, Step
  <2> QED  BY <2>2, <2>3 DEF SettleInv
<1>5. ASSUME NEW m \in Movers, Unlock(m) PROVE SettleInv'
  <2>1. /\ UNCHANGED <<storeTail, stored, queue, old, stale>> /\ tpc[m] = "moved"
        /\ settled' = IF old[m] = 0 \/ stale THEN settled ELSE new[m]
    BY <1>5 DEF Unlock, syncStoreVars, storeVars
  <2>2. Handed' = Handed
    BY <2>1 DEF Handed
  <2>3. CASE old[m] = 0 \/ stale
    <3>1. \A q \in Movers : ~Witness(q)
      BY <1>2, <2>1, <2>3
    <3>2. settled # 0 => storeTail # 0 /\ Reached(settled)
      BY <3>1 DEF SettleInv
    <3>3. settled' = settled
      BY <2>1, <2>3
    <3>4. Reached(settled)' <=> Reached(settled)
      BY <2>1, <2>2, <3>3 DEF Reached
    <3> QED  BY <2>1, <3>2, <3>3, <3>4 DEF SettleInv
  <2>4. CASE ~(old[m] = 0 \/ stale)
    <3>1. Reached(new[m]) /\ storeTail # 0 /\ settled' = new[m]
      BY <1>0, <2>1, <2>4 DEF TailAt, MoverAt
    <3>2. Reached(settled)'
      BY <2>1, <2>2, <3>1 DEF Reached
    <3> QED  BY <2>1, <3>1, <3>2 DEF SettleInv
  <2> QED  BY <2>3, <2>4
<1>6. ASSUME Grows, NEW q \in Movers, ~Unlock(q), QuietMove(q) \/ AppendTail(q) \/ SyncDiff(q) \/ ForceAppend(q)
      PROVE  SettleInv'
  <2>1. settled' = settled
    BY <1>6 DEF QuietMove, MoveCall, TryLock, Renew, Find, Load, Fetch, CallFails, TailAppended, Move,
       DeleteRefused, SyncAppended, SyncDone, AppendTail, SyncDiff, ForceAppend, tailStays
  <2>2. ASSUME NEW m \in Movers, Witness(m) PROVE Witness(m)'
    <3>1. tailMu = m /\ tailMu # "free"
      BY <1>0, <1>2, <2>2
    <3>2. tpc[q] # "moved"
      BY <1>6 DEF QuietMove, MoveCall, TryLock, Renew, Find, Load, Fetch, CallFails, TailAppended, Move,
         DeleteRefused, SyncAppended, SyncDone, AppendTail, SyncDiff, ForceAppend
    <3>3. q # m /\ tpc'[m] = tpc[m]
      BY <1>0, <1>6, <2>2, <3>2, QuietIdle DEF AppendTail, SyncDiff, ForceAppend, Step
    <3>4. old'[m] = old[m]
      BY <1>6, <3>3 DEF Inv, MoverTypes, QuietMove, MoveCall, TryLock, Renew, Find, Load, Fetch, CallFails,
         TailAppended, Move, DeleteRefused, SyncAppended, SyncDone, AppendTail, SyncDiff, ForceAppend, tailStays
    <3>5. stale' = stale
      BY <1>6, <3>1 DEF QuietMove, MoveCall, TryLock, Renew, Find, Load, Fetch, CallFails, TailAppended, Move,
         DeleteRefused, SyncAppended, SyncDone, AppendTail, SyncDiff, ForceAppend, tailStays
    <3> QED  BY <2>2, <3>3, <3>4, <3>5
  <2> QED  BY <1>3, <1>6, <2>1, <2>2
<1>7. ASSUME Grows, UNCHANGED tailVars PROVE SettleInv'
  BY <1>3, <1>7 DEF tailVars
<1>8. CASE Grows
  BY <1>4, <1>5, <1>6, <1>7, <1>8, NextCases DEF vars
<1> QED
  BY <1>4, <1>8, GrowStep

\* The invariant of the tail holds at first.
LEMMA TailInit == Init => TailInv
<1> SUFFICES ASSUME Init PROVE TailInv
  OBVIOUS
<1>1. stored = storeTail..storeHead \ {0} /\ stale = FALSE /\ settled = 0 /\ tailMu = "free"
  BY DEF Init, SyncStoreInit
<1>2. \A m \in Movers : tpc[m] = "idle" /\ pc[m] = "idle" /\ m # "free"
  BY SyncTailAssumption DEF Init, SyncStoreInit, Procs
<1>3. storeTail \in Int
  BY InitInv, SyncStoreAssumption DEF Inv, SyncStoreTypeOK
<1>4. EdgeInv
  BY <1>1, <1>3 DEF EdgeInv
<1>5. \A m \in Movers : AppendAt(m) /\ TailAt(m)
  BY <1>1, <1>2 DEF AppendAt, TailAt
<1> QED
  BY <1>1, <1>4, <1>5 DEF TailInv, SettleInv

\* Every step keeps it.
LEMMA TailStep ==
    ASSUME Inv, TailInv, [Next]_vars
    PROVE  TailInv'
<1>1. \A m \in Movers : AppendAt(m)'
  BY AppendedStep DEF TailInv
<1>2. \A m \in Movers : TailAt(m)'
  BY TailAtStep DEF TailInv
<1>3. stale' \in BOOLEAN
  <2>1. \/ stale' = stale \/ stale' = FALSE
        \/ \E m \in Movers : stale' = (old[m] # storeTail)
    BY NextCases DEF QuietMove, MoveCall, TryLock, Renew, Find, Load, Fetch, CallFails, TailAppended, Move,
       DeleteRefused, SyncAppended, SyncDone, Unlock, AppendTail, SyncDiff, ForceAppend, DeleteRange,
       tailStays, tailVars, vars
  <2> QED  BY <2>1 DEF TailInv
<1> QED
  BY <1>1, <1>2, <1>3, EdgeStep, SettleStep DEF TailInv

\* Moves, appends and syncs that overlap leave one chain from the tail last settled on up to the
\* head (moveTail), whatever the movers, the heads they bring, the batches and the scenarios.
THEOREM Settles == Spec => []TailSettles
<1>1. Inv /\ TailInv => TailSettles
  <2> SUFFICES ASSUME Inv, TailInv, queue = <<>>, tailMu = "free", settled # 0
               PROVE  storeTail <= settled /\ settled..storeHead \subseteq stored
    BY DEF TailSettles
  <2>0. /\ storeTail \in 0..MaxHeight /\ settled \in 0..MaxHeight /\ storeHead \in 0..MaxHeight /\ MaxHeight \in Nat
        /\ StoreInv /\ EdgeInv /\ SettleInv
    BY SyncStoreAssumption DEF Inv, SyncStoreTypeOK, MoverTypes, TailInv
  <2>1. \A m \in Movers : tpc[m] # "moved"
    BY SyncTailAssumption DEF Inv, MoverInv, MoverAt
  <2>2. storeTail # 0 /\ Reached(settled)
    BY <2>0, <2>1 DEF SettleInv
  <2>3. Handed = stored
    BY DEF Handed
  <2>4. storeTail <= settled
    <3> SUFFICES ASSUME settled < storeTail PROVE FALSE
      BY <2>0
    <3>1. storeTail - 1 \in Heights /\ settled <= storeTail - 1 /\ storeTail - 1 < storeTail
      BY <2>0 DEF Heights
    <3>2. storeTail - 1 \in stored
      BY <2>2, <2>3, <3>1 DEF Reached
    <3> QED  BY <2>0, <2>2, <3>2 DEF EdgeInv
  <2>5. ASSUME NEW h \in settled..storeHead PROVE h \in stored
    <3>1. h \in storeTail..storeHead
      BY <2>0, <2>4
    <3> QED  BY <2>0, <2>2, <3>1 DEF StoreInv
  <2> QED  BY <2>4, <2>5
<1>2. Init => TailInv
  BY TailInit
<1>3. Inv /\ TailInv /\ [Next]_vars => TailInv'
  BY TailStep
<1> QED
  BY <1>1, <1>2, <1>3, SyncTailInvariant, PTL DEF Spec

-----------------------------------------------------------------------------
\* The window.

\* What WindowMaintained says of the height that a mover has found.
Kept(m) ==
    /\ config.clock[new[m]] > Expected(m) - BlockTime \/ new[m] >= config.head
    /\ \A h \in old[m]..new[m] - 1 : TailTimeDiff(m) >= Window \/ config.clock[h] < Expected(m)

\* The stages after the search, and those that only a height with a header reaches.
Searched == {"load", "fetch", "append", "appending", "force", "move", "delete", "sync", "syncing", "moved"}
Loaded == {"move", "delete", "sync", "syncing", "moved"}

\* What a mover has found on its way; an estimate that is not a height goes no further than "fetch".
WindowAt(m) ==
    config.kind = "window" /\ old[m] # 0 =>
        /\ tpc[m] = "find" /\ TailTimeDiff(m) >= Window /\ new[m] \in Heights =>
              config.clock[new[m]] >= Expected(m)
        /\ tpc[m] = "find" /\ TailTimeDiff(m) < Window =>
              /\ old[m] <= new[m] /\ new[m] <= MaxHeight
              /\ \A h \in old[m]..new[m] - 1 : config.clock[h] < Expected(m)
              /\ new[m] = old[m] => TailTimeDiff(m) < BlockTime
        /\ tpc[m] \in Searched /\ new[m] \in Heights => Kept(m)
        /\ tpc[m] \in Loaded => new[m] \in Heights

WindowInv ==
    /\ config.head <= storeHead
    /\ \A m \in Movers : WindowAt(m)

\* Products and quotients.
LEMMA Times ==
    /\ \A x, y \in Int, b \in Nat : x <= y => x * b <= y * b
    /\ \A x \in Int, b \in Nat : (x - 1) * b = x * b - b /\ (x + 1) * b = x * b + b /\ x * b \in Int
OBVIOUS

LEMMA Quotient ==
    \A x \in Nat, b \in Nat \ {0} :
        (x \div b) * b <= x /\ x < (x \div b) * b + b /\ x \div b \in Nat
OBVIOUS

\* A header i heights above another is at most i block times younger, and never older.
LEMMA Drift ==
    ASSUME NEW c \in [Heights -> Int], \A h \in 1..MaxHeight - 1 : c[h + 1] - c[h] \in 0..BlockTime,
           NEW i \in Heights, NEW j \in Heights, i <= j
    PROVE  c[i] <= c[j] /\ c[j] - c[i] <= (j - i) * BlockTime
<1> DEFINE Fine(k) == c[i] <= c[i + k] /\ c[i + k] - c[i] <= k * BlockTime
           T == {k \in Nat : i + k <= MaxHeight /\ ~Fine(k)}
<1>0. MaxHeight \in Nat /\ BlockTime \in Nat /\ i \in 1..MaxHeight /\ j \in 1..MaxHeight
  BY SyncStoreAssumption, SyncTailAssumption DEF Heights
<1>1. T = {}
  <2> SUFFICES ASSUME T # {} PROVE FALSE
    OBVIOUS
  <2>1. PICK n \in T : \A k \in T : n <= k
    <3>1. T \in SUBSET Nat
      OBVIOUS
    <3> HIDE DEF T
    <3> QED  BY <3>1, Smallest
  <2>2. n \in Nat /\ i + n <= MaxHeight /\ ~Fine(n)
    BY <2>1
  <2>3. n # 0
    <3>1. 0 * BlockTime = 0 /\ i + 0 = i /\ c[i] \in Int
      BY <1>0
    <3>2. Fine(0)
      BY <3>1
    <3> QED  BY <2>2, <3>2
  <2>4. Fine(n - 1)
    <3>1. n - 1 \in Nat /\ i + (n - 1) <= MaxHeight /\ ~(n <= n - 1)
      BY <1>0, <2>2, <2>3
    <3>2. n - 1 \notin T
      BY <2>1, <3>1
    <3> QED  BY <3>1, <3>2
  <2>5. i + (n - 1) \in 1..MaxHeight - 1 /\ (i + (n - 1)) + 1 = i + n
    BY <1>0, <2>2, <2>3
  <2>6. c[i + n] - c[i + (n - 1)] \in 0..BlockTime
    BY <2>5
  <2>7. c[i + n] \in Int /\ c[i + (n - 1)] \in Int /\ c[i] \in Int
    BY <1>0, <2>5 DEF Heights
  <2>8. (n - 1) * BlockTime = n * BlockTime - BlockTime /\ n * BlockTime \in Int
    BY <1>0, <2>2, Times
  <2>9. Fine(n)
    <3> DEFINE p == (n - 1) * BlockTime
               q == n * BlockTime
    <3>1. p = q - BlockTime /\ q \in Int /\ c[i] <= c[i + (n - 1)] /\ c[i + (n - 1)] - c[i] <= p
      BY <2>4, <2>8
    <3> HIDE DEF p, q
    <3>2. c[i] <= c[i + n] /\ c[i + n] - c[i] <= q
      BY <1>0, <2>6, <2>7, <3>1
    <3> QED  BY <3>2 DEF q
  <2> QED  BY <2>2, <2>9
<1>2. j - i \in Nat /\ i + (j - i) = j
  BY <1>0
<1>3. Fine(j - i)
  <2>1. i + (j - i) <= MaxHeight
    BY <1>0, <1>2
  <2>2. j - i \notin T
    <3> HIDE DEF T
    <3> QED  BY <1>1
  <2> QED  BY <1>2, <2>1, <2>2
<1> QED
  BY <1>2, <1>3

\* What renewTail estimates from the tail or from the head.
LEMMA EstimateIs ==
    ASSUME Inv, NEW m \in Movers, tpc[m] = "renew", config.kind = "window", old[m] # 0, NEW e, e = Estimate(m)
    PROVE  LET d == TailTimeDiff(m)
           IN  /\ d <= 0 => e = old[m] /\ config.clock[e] >= Expected(m)
               /\ d >= Window /\ d > 0 /\ e \in Heights => config.clock[e] >= Expected(m)
               /\ 0 < d /\ d < Window =>
                     /\ old[m] <= e /\ e <= MaxHeight
                     /\ \A h \in old[m]..e - 1 : config.clock[h] < Expected(m)
                     /\ e = old[m] => d < BlockTime
<1> DEFINE d == TailTimeDiff(m)
           c == config.clock
           o == old[m]
           x == head[m]
<1>0. /\ Width \in Nat /\ Window \in Nat /\ BlockTime \in Nat \ {0} /\ BlockTime \in Nat /\ MaxHeight \in Nat
      /\ MaxHeight + Window < Width
  BY SyncTailAssumption, SyncStoreAssumption
<1>1. c \in [Heights -> Int] /\ \A h \in 1..MaxHeight - 1 : c[h + 1] - c[h] \in 0..BlockTime
  BY SyncTailAssumption DEF Inv, MoverTypes
<1>2. x \in Heights /\ o \in Heights
  <2>1. x \in Heights /\ o \in 0..MaxHeight
    BY DEF Inv, MoverInv, MoverAt, MoverTypes
  <2> QED  BY <1>0, <2>1 DEF Heights
<1>3. c[x] \in Int /\ c[o] \in Int /\ x \in Int /\ o \in Int
  BY <1>0, <1>1, <1>2 DEF Heights
<1>4. Expected(m) = c[x] - Window /\ d = Expected(m) - c[o] /\ Expected(m) \in Int /\ d \in Int
  BY <1>0, <1>3 DEF TailTimeDiff, Expected
<1>5. ASSUME NEW i \in Heights, NEW j \in Heights, i <= j
      PROVE  c[i] <= c[j] /\ c[j] - c[i] <= (j - i) * BlockTime
  <2> HIDE DEF c
  <2> QED  BY <1>1, <1>5, Drift
<1>6. /\ d <= 0 => e = o
      /\ ~(d <= 0) /\ d >= Window => e = (x - Window \div BlockTime) % Width
      /\ ~(d <= 0) /\ ~(d >= Window) => e = o + d \div BlockTime
  BY DEF Estimate
<1> HIDE DEF d, c, o, x
<1>7. ASSUME d <= 0 PROVE e = o /\ c[e] >= Expected(m)
  BY <1>3, <1>4, <1>6, <1>7
<1>8. ASSUME d >= Window, d > 0, e \in Heights PROVE c[e] >= Expected(m)
  <2> DEFINE k == Window \div BlockTime
  <2>1. k \in Nat /\ k * BlockTime <= Window /\ k * BlockTime \in Int /\ k <= Window
    <3>1. k \in Nat /\ k * BlockTime <= Window
      BY <1>0, Quotient
    <3> HIDE DEF k
    <3>2. k * BlockTime \in Int /\ k * 1 <= k * BlockTime
      BY <1>0, <3>1, Times
    <3> QED  BY <1>0, <3>1, <3>2
  <2>2. e = (x - k) % Width
    BY <1>0, <1>4, <1>6, <1>8
  <2> HIDE DEF k
  <2>3. e = x - k
    <3>1. \A y \in Int, w \in Nat \ {0} :
              /\ 0 <= y /\ y < w => y % w = y
              /\ -w <= y /\ y < 0 => y % w = y + w
      OBVIOUS
    <3>2. x - k \in Int /\ x - k < Width /\ -Width <= x - k /\ Width \in Nat \ {0}
      BY <1>0, <1>2, <2>1 DEF Heights
    <3>3. CASE x - k < 0
      <4>1. e = x - k + Width
        BY <2>2, <3>1, <3>2, <3>3
      <4> QED  BY <1>0, <1>2, <1>8, <2>1, <4>1 DEF Heights
    <3>4. CASE 0 <= x - k
      BY <2>2, <3>1, <3>2, <3>4
    <3> QED  BY <3>2, <3>3, <3>4
  <2>4. e <= x /\ x - e = k
    BY <1>3, <2>1, <2>3
  <2>5. c[x] - c[e] <= k * BlockTime /\ c[e] \in Int
    BY <1>1, <1>2, <1>5, <1>8, <2>4
  <2> QED  BY <1>0, <1>3, <1>4, <2>1, <2>5
<1>9. ASSUME 0 < d, d < Window
      PROVE  /\ o <= e /\ e <= MaxHeight
             /\ \A h \in o..e - 1 : c[h] < Expected(m)
             /\ e = o => d < BlockTime
  <2> DEFINE k == d \div BlockTime
  <2>1. k \in Nat /\ k * BlockTime <= d /\ d < k * BlockTime + BlockTime /\ k * BlockTime \in Int
    <3>1. d \in Nat
      BY <1>4, <1>9
    <3>2. k \in Nat /\ k * BlockTime <= d /\ d < k * BlockTime + BlockTime
      BY <1>0, <3>1, Quotient
    <3> HIDE DEF k
    <3> QED  BY <1>0, <3>2, Times
  <2>2. e = o + k
    BY <1>0, <1>4, <1>6, <1>9
  <2> HIDE DEF k
  <2>3. o < x
    <3> SUFFICES ASSUME x <= o PROVE FALSE
      BY <1>3
    <3>1. c[x] <= c[o]
      BY <1>2, <1>5
    <3> QED  BY <1>0, <1>3, <1>4, <1>9, <3>1
  <2>4. e <= x
    <3> SUFFICES ASSUME x < e PROVE FALSE
      BY <1>3, <2>1, <2>2
    <3>1. x - o <= k /\ x - o \in Int
      BY <1>3, <2>1, <2>2
    <3>2. (x - o) * BlockTime <= k * BlockTime /\ (x - o) * BlockTime \in Int
      BY <1>0, <2>1, <3>1, Times
    <3>3. c[x] - c[o] <= (x - o) * BlockTime
      BY <1>2, <1>3, <1>5, <2>3
    <3> QED  BY <1>0, <1>3, <1>4, <1>9, <2>1, <3>2, <3>3
  <2>5. o <= e /\ e <= MaxHeight /\ e \in Int
    BY <1>0, <1>2, <1>3, <2>1, <2>2, <2>4 DEF Heights
  <2>6. ASSUME NEW h \in o..e - 1 PROVE c[h] < Expected(m)
    <3>1. h \in Heights /\ o <= h /\ h - o <= k - 1 /\ h - o \in Int /\ k - 1 \in Int
      BY <1>0, <1>2, <1>3, <2>1, <2>2, <2>5 DEF Heights
    <3>2. c[h] - c[o] <= (h - o) * BlockTime /\ c[h] \in Int
      BY <1>1, <1>2, <1>5, <3>1
    <3>3. (h - o) * BlockTime <= (k - 1) * BlockTime /\ (h - o) * BlockTime \in Int
      BY <1>0, <3>1, Times
    <3>4. (k - 1) * BlockTime = k * BlockTime - BlockTime
      BY <1>0, <2>1, Times
    <3> QED  BY <1>0, <1>3, <1>4, <2>1, <3>2, <3>3, <3>4
  <2>7. e = o => d < BlockTime
    <3> SUFFICES ASSUME e = o PROVE d < BlockTime
      OBVIOUS
    <3>1. k = 0
      BY <1>3, <2>1, <2>2
    <3>2. k * BlockTime = 0
      BY <1>0, <3>1
    <3> QED  BY <1>0, <2>1, <3>2
  <2> QED  BY <2>5, <2>6, <2>7
<1>10. /\ d <= 0 => e = o /\ c[e] >= Expected(m)
       /\ d >= Window /\ d > 0 /\ e \in Heights => c[e] >= Expected(m)
       /\ 0 < d /\ d < Window => /\ o <= e /\ e <= MaxHeight
                                 /\ \A h \in o..e - 1 : c[h] < Expected(m)
                                 /\ e = o => d < BlockTime
  BY <1>7, <1>8, <1>9
<1> QED
  BY <1>10 DEF d, c, o

\* The clock and the times derived from it.
LEMMA ClockTypes ==
    ASSUME Inv, NEW m \in Movers, tpc[m] # "idle", old[m] # 0
    PROVE  /\ config.clock \in [Heights -> Int] /\ old[m] \in Heights /\ config.clock[old[m]] \in Int
           /\ Expected(m) \in Int /\ TailTimeDiff(m) = Expected(m) - config.clock[old[m]]
<1>0. Window \in Nat /\ MaxHeight \in Nat
  BY SyncTailAssumption, SyncStoreAssumption
<1>1. config.clock \in [Heights -> Int]
  BY SyncTailAssumption DEF Inv, MoverTypes
<1>2. head[m] \in Heights /\ old[m] \in 0..MaxHeight
  BY DEF Inv, MoverInv, MoverAt, MoverTypes
<1>3. old[m] \in Heights
  BY <1>0, <1>2 DEF Heights
<1> QED
  BY <1>0, <1>1, <1>2, <1>3 DEF Expected, TailTimeDiff

\* Every step keeps the window.
LEMMA WindowStep ==
    ASSUME Inv, WindowInv, [Next]_vars
    PROVE  WindowInv'
<1>0. /\ MaxHeight \in Nat /\ storeHead \in 0..MaxHeight /\ stored \subseteq Heights
      /\ tpc \in [Movers -> Stages] /\ new \in [Movers -> 0..Width - 1] /\ Width \in Nat
      /\ old \in [Movers -> 0..MaxHeight] /\ head \in [Movers -> 0..MaxHeight]
      /\ \A m \in Movers : WindowAt(m) /\ MoverAt(m)
      /\ BlockTime \in Nat \ {0} /\ Window \in Nat
  <2>1. MaxHeight \in Nat /\ Width \in Nat /\ BlockTime \in Nat \ {0} /\ Window \in Nat
    BY SyncStoreAssumption, SyncTailAssumption
  <2>2. /\ tpc \in [Movers -> Stages] /\ new \in [Movers -> 0..Width - 1]
        /\ old \in [Movers -> 0..MaxHeight] /\ head \in [Movers -> 0..MaxHeight]
    BY DEF Inv, MoverTypes, Stages
  <2>3. storeHead \in 0..MaxHeight /\ stored \subseteq Heights
    BY DEF Inv, SyncStoreTypeOK
  <2> QED  BY <2>1, <2>2, <2>3 DEF Inv, MoverInv, WindowInv
<1>1. config.head \in 0..MaxHeight
  <2>1. <<config.tail, config.head>> \in Spans \cup {None}
    BY SyncStoreAssumption, SyncTailAssumption DEF Inv, MoverTypes
  <2> QED  BY <1>0, <2>1 DEF Spans, None, Heights
<1>2. UNCHANGED config
  BY NextCases DEF QuietMove, MoveCall, TryLock, Renew, Find, Load, Fetch, CallFails, TailAppended, Move,
     DeleteRefused, SyncAppended, SyncDone, Unlock, AppendTail, SyncDiff, ForceAppend, DeleteRange,
     tailStays, tailVars, vars
<1>3. config'.head <= storeHead'
  <2>1. StoreApplies \/ storeHead' = storeHead
    <3>1. ASSUME NEW m \in Movers, QuietMove(m) PROVE storeHead' = storeHead
      BY <3>1, QuietFrame DEF storeVars
    <3> QED
      BY <3>1, NextCases DEF AppendTail, SyncDiff, ForceAppend, DeleteRange, OtherStep, AppendCall, AppendStep,
         Lock, Reject, StoreAppend, StoreAppendFails, Publish, LockCancelled, HeadCall, HeadReturn, HeadStep,
         HeadCached, HeadMiss, HeadLoad, HeadPublish, vars, syncStoreVars, storeVars
  <2>2. CASE StoreApplies
    <3>1. storeHead' \in Heights /\ (storeHead # 0 => storeHead <= storeHead')
      BY <2>2, ApplyIs
    <3>2. config.head <= storeHead
      BY DEF WindowInv
    <3> QED  BY <1>0, <1>1, <1>2, <3>1, <3>2 DEF Heights
  <2> QED  BY <1>2, <2>1, <2>2 DEF WindowInv
<1> SUFFICES ASSUME NEW m \in Movers PROVE WindowAt(m)'
  BY <1>3 DEF WindowInv
<1>4. WindowAt(m) /\ MoverAt(m)
  BY <1>0
<1> DEFINE Same == new'[m] = new[m] /\ old'[m] = old[m] /\ head'[m] = head[m]
<1>5. ASSUME old'[m] = old[m], head'[m] = head[m] PROVE Expected(m)' = Expected(m) /\ TailTimeDiff(m)' = TailTimeDiff(m)
  BY <1>2, <1>5 DEF Expected, TailTimeDiff
<1>6. ASSUME Same PROVE Kept(m)' <=> Kept(m)
  BY <1>2, <1>5, <1>6 DEF Kept
<1>7. ASSUME Same, tpc'[m] = tpc[m] PROVE WindowAt(m)'
  BY <1>2, <1>4, <1>5, <1>6, <1>7 DEF WindowAt
<1>8. ASSUME Same, tpc[m] \in Searched, tpc'[m] # "find",
             tpc'[m] \in Loaded => tpc[m] \in Loaded \/ new[m] \in Heights
      PROVE  WindowAt(m)'
  BY <1>2, <1>4, <1>5, <1>6, <1>8 DEF WindowAt
<1>9. ASSUME tpc'[m] \in {"idle", "tryLock", "renew"} PROVE WindowAt(m)'
  BY <1>9 DEF WindowAt, Searched, Loaded
\* Steps of others.
<1>10. ASSUME NEW q \in Movers \ {m}, QuietMove(q) \/ AppendTail(q) \/ SyncDiff(q) \/ ForceAppend(q) \/ DeleteRange(q)
       PROVE  WindowAt(m)'
  <2>1. Same
    BY <1>0, <1>10 DEF QuietMove, MoveCall, TryLock, Renew, Find, Load, Fetch, CallFails, TailAppended, Move,
       DeleteRefused, SyncAppended, SyncDone, Unlock, AppendTail, SyncDiff, ForceAppend, DeleteRange, tailStays, Found
  <2>2. tpc'[m] = tpc[m]
    BY <1>0, <1>10, QuietIdle DEF AppendTail, SyncDiff, ForceAppend, DeleteRange, Step
  <2> QED  BY <1>7, <2>1, <2>2
<1>11. ASSUME UNCHANGED tailVars PROVE WindowAt(m)'
  BY <1>7, <1>11 DEF tailVars
\* The search.
<1>12. CASE Renew(m)
  <2>1. UNCHANGED <<old, head>> /\ tpc[m] = "renew"
    BY <1>12 DEF Renew, tailStays
  <2>2. SUFFICES ASSUME config.kind = "window", old[m] # 0 PROVE WindowAt(m)'
    BY <1>2, <2>1 DEF WindowAt
  <2> DEFINE e == Estimate(m)
             d == TailTimeDiff(m)
  <2>3. Found(m, e) /\ Step(m, IF d <= 0 THEN "load" ELSE "find")
    BY <1>12, <2>2 DEF Renew
  <2>4. /\ d <= 0 => e = old[m] /\ config.clock[e] >= Expected(m)
        /\ d >= Window /\ d > 0 /\ e \in Heights => config.clock[e] >= Expected(m)
        /\ 0 < d /\ d < Window =>
              /\ old[m] <= e /\ e <= MaxHeight
              /\ \A h \in old[m]..e - 1 : config.clock[h] < Expected(m)
              /\ e = old[m] => d < BlockTime
    BY <2>1, <2>2, EstimateIs
  <2>5. d \in Int /\ Expected(m) \in Int /\ config.clock[old[m]] \in Int /\ old[m] \in Heights
    BY <2>1, <2>2, ClockTypes
  <2>6. Expected(m)' = Expected(m) /\ TailTimeDiff(m)' = d
    BY <1>5, <2>1
  <2> HIDE DEF e, d
  <2>7. new'[m] = e
    BY <1>0, <2>3 DEF Found
  <2>8. CASE d <= 0
    <3>1. tpc'[m] = "load" /\ new'[m] = old[m]
      BY <1>0, <2>3, <2>4, <2>7, <2>8 DEF Step
    <3>2. config'.clock[new'[m]] > Expected(m)' - BlockTime
      BY <1>0, <1>2, <2>4, <2>5, <2>6, <2>7, <2>8
    <3>3. \A h \in old'[m]..new'[m] - 1 : FALSE
      BY <1>0, <2>1, <3>1
    <3>4. Kept(m)'
      BY <3>2, <3>3 DEF Kept
    <3> QED  BY <3>1, <3>4 DEF WindowAt, Loaded
  <2>9. CASE d > 0
    <3>1. tpc'[m] = "find"
      BY <1>0, <2>3, <2>5, <2>9 DEF Step
    <3> QED  BY <1>2, <2>1, <2>4, <2>5, <2>6, <2>7, <2>9, <3>1 DEF WindowAt, Searched, Loaded
  <2> QED  BY <2>5, <2>8, <2>9
<1>13. CASE Find(m)
  <2>1. UNCHANGED <<old, head>> /\ tpc[m] = "find"
    BY <1>13 DEF Find, tailStays
  <2>2. SUFFICES ASSUME config.kind = "window", old[m] # 0 PROVE WindowAt(m)'
    BY <1>2, <2>1 DEF WindowAt
  <2> DEFINE d == TailTimeDiff(m)
  <2>3. /\ config.clock \in [Heights -> Int] /\ old[m] \in Heights
        /\ d = Expected(m) - config.clock[old[m]] /\ Expected(m) \in Int /\ config.clock[old[m]] \in Int
    BY <2>1, <2>2, ClockTypes
  <2>4. Expected(m)' = Expected(m) /\ TailTimeDiff(m)' = d
    BY <1>5, <2>1
  <2>5. /\ d >= Window /\ new[m] \in Heights => config.clock[new[m]] >= Expected(m)
        /\ d < Window => /\ old[m] <= new[m] /\ new[m] <= MaxHeight
                         /\ \A h \in old[m]..new[m] - 1 : config.clock[h] < Expected(m)
                         /\ new[m] = old[m] => d < BlockTime
    BY <1>4, <2>1, <2>2 DEF WindowAt
  <2> HIDE DEF d
  <2>6. new[m] \in Nat /\ old[m] \in Nat
    BY <1>0
  <2>7. CASE old[m] < new[m] /\ new[m] < storeHead /\ config.clock[new[m]] < Expected(m)
    <3>1. new'[m] = new[m] + 1 /\ tpc'[m] = "find"
      BY <1>0, <1>13, <2>1, <2>7 DEF Find, Scanning, Found
    <3>2. new[m] \in Heights /\ config.clock[new[m]] \in Int
      BY <1>0, <2>3, <2>6, <2>7 DEF Heights
    <3>3. d < Window
      BY <1>0, <2>3, <2>5, <2>7, <3>2
    <3>4. \A h \in old[m]..(new[m] + 1) - 1 : config.clock[h] < Expected(m)
      BY <2>5, <2>6, <2>7, <3>3
    <3>5. old[m] <= new[m] + 1 /\ new[m] + 1 <= MaxHeight /\ new[m] + 1 # old[m]
      BY <1>0, <2>6, <2>7
    <3>6. ~(d >= Window)
      BY <1>0, <2>3, <3>3
    <3> QED  BY <1>2, <2>1, <2>4, <3>1, <3>4, <3>5, <3>6 DEF WindowAt, Searched, Loaded
  <2>8. CASE ~(old[m] < new[m] /\ new[m] < storeHead /\ config.clock[new[m]] < Expected(m))
    <3>1. new'[m] = new[m] /\ tpc'[m] = "load"
      BY <1>0, <1>13, <2>8 DEF Find, Scanning, Step
    <3>2. ASSUME new[m] \in Heights PROVE Kept(m)
      <4>1. config.clock[new[m]] \in Int
        BY <2>3, <3>2
      <4>2. CASE d >= Window
        <5>1. config.clock[new[m]] > Expected(m) - BlockTime
          BY <1>0, <2>3, <2>5, <3>2, <4>1, <4>2
        <5> QED  BY <4>2, <5>1 DEF Kept, d
      <4>3. CASE d < Window
        <5>1. \A h \in old[m]..new[m] - 1 : config.clock[h] < Expected(m)
          BY <2>5, <4>3
        <5>2. CASE new[m] = old[m]
          <6>1. d < BlockTime
            BY <2>5, <4>3, <5>2
          <6>2. config.clock[new[m]] > Expected(m) - BlockTime
            BY <1>0, <2>3, <5>2, <6>1
          <6> QED  BY <5>1, <6>2 DEF Kept
        <5>3. CASE storeHead <= new[m]
          <6>1. config.head <= storeHead
            BY DEF WindowInv
          <6>2. new[m] >= config.head
            BY <1>0, <1>1, <2>6, <5>3, <6>1
          <6> QED  BY <5>1, <6>2 DEF Kept
        <5>4. CASE config.clock[new[m]] >= Expected(m)
          <6>1. config.clock[new[m]] > Expected(m) - BlockTime
            BY <1>0, <2>3, <4>1, <5>4
          <6> QED  BY <5>1, <6>1 DEF Kept
        <5>5. new[m] = old[m] \/ storeHead <= new[m] \/ config.clock[new[m]] >= Expected(m)
          BY <1>0, <2>3, <2>5, <2>6, <2>8, <4>1, <4>3
        <5> QED  BY <5>2, <5>3, <5>4, <5>5
      <4> QED  BY <1>0, <2>3, <4>2, <4>3
    <3>3. new'[m] \in Heights => Kept(m)'
      BY <1>6, <2>1, <3>1, <3>2
    <3> QED  BY <3>1, <3>3 DEF WindowAt, Loaded
  <2> QED  BY <2>7, <2>8
\* What follows keeps the height found.
<1>14. CASE Load(m)
  <2>1. Same /\ tpc[m] = "load"
    BY <1>14 DEF Load, tailStays
  <2>2. \/ tpc'[m] = "move" /\ new[m] \in Heights
        \/ tpc'[m] = "fetch"
    BY <1>0, <1>14 DEF Load, Step
  <2> QED  BY <1>8, <2>1, <2>2 DEF Searched, Loaded
<1>15. CASE AppendTail(m) \/ ForceAppend(m) \/ TailAppended(m) \/ Fetch(m)
  <2>1. Same /\ tpc[m] \in {"append", "force", "appending", "fetch"}
    BY <1>15 DEF AppendTail, ForceAppend, TailAppended, Fetch, tailStays
  <2>2. new[m] \in Heights
    BY <1>4, <1>15, <2>1 DEF MoverAt, Fetch, AppendTail, ForceAppend, TailAppended
  <2>3. tpc'[m] # "find"
    BY <1>0, <1>15 DEF AppendTail, ForceAppend, TailAppended, Fetch, Fail, Step
  <2> QED  BY <1>8, <2>1, <2>2, <2>3 DEF Searched
<1>16. CASE CallFails(m) \/ DeleteRefused(m) \/ Unlock(m) \/ (\E h \in config.heads : MoveCall(m, h)) \/ TryLock(m)
  <2>1. tpc'[m] \in {"idle", "tryLock", "renew"}
    BY <1>0, <1>16 DEF CallFails, DeleteRefused, Unlock, MoveCall, TryLock, Fail, Step
  <2> QED  BY <1>9, <2>1
<1>17. CASE Move(m) \/ DeleteRange(m) \/ SyncDiff(m) \/ SyncAppended(m) \/ SyncDone(m)
  <2>1. Same /\ tpc[m] \in Loaded
    BY <1>17 DEF Move, DeleteRange, SyncDiff, SyncAppended, SyncDone, tailStays, Loaded
  <2>2. \E l \in {"moved", "delete", "sync", "syncing", "idle"} : Step(m, l)
    <3>1. Move(m) => Step(m, "moved") \/ Step(m, "delete") \/ Step(m, "sync")
      BY Zenon DEF Move
    <3> QED  BY <1>17, <3>1 DEF DeleteRange, SyncDiff, SyncAppended, SyncDone, Fail
  <2>3. tpc'[m] # "find"
    BY <1>0, <2>2 DEF Step
  <2> QED  BY <1>8, <2>1, <2>3 DEF Searched, Loaded
<1>18. ASSUME QuietMove(m) \/ AppendTail(m) \/ SyncDiff(m) \/ ForceAppend(m) \/ DeleteRange(m) PROVE WindowAt(m)'
  BY <1>12, <1>13, <1>14, <1>15, <1>16, <1>17, <1>18 DEF QuietMove
<1> QED
  BY <1>10, <1>11, <1>18, NextCases DEF vars

\* A call moves the tail to the window before its head and prunes nothing within it
\* (findTailHeight), for every clock whose blocks are at most BlockTime apart.
THEOREM Windowed == Spec => []WindowMaintained
<1>1. Init => WindowInv
  <2> SUFFICES ASSUME Init PROVE WindowInv
    OBVIOUS
  <2>1. config.head = storeHead /\ \A m \in Movers : tpc[m] = "idle"
    BY DEF Init
  <2>2. storeHead \in Int
    BY InitInv, SyncStoreAssumption DEF Inv, SyncStoreTypeOK
  <2> QED  BY <2>1, <2>2 DEF WindowInv, WindowAt, Searched, Loaded
<1>2. Inv /\ WindowInv /\ [Next]_vars => WindowInv'
  BY WindowStep
<1>3. WindowInv => WindowMaintained
  BY DEF WindowInv, WindowAt, WindowMaintained, Kept, Searched, Loaded
<1> QED
  BY <1>1, <1>2, <1>3, SyncTailInvariant, PTL DEF Spec
=============================================================================
