---------------------------- MODULE SessionsProofs ----------------------------
(***************************************************************************)
(* Proofs about what an agent keeps between its requests: the payload of   *)
(* the live notifications, the pressure event, the voices of its soul, the *)
(* desks it answers from and its mailboxes, each by an invariant of its    *)
(* own and its types; and about them and what HistoryProofs and            *)
(* AgentsProofs are about together: that each value is of its type, that   *)
(* the model is shown what happened once, and so on.                       *)
(***************************************************************************)
EXTENDS MCSessions, HistoryProofs, AgentsProofs

-----------------------------------------------------------------------------
(* LiveMeta: the payload                                                   *)

LmResults == [id : Nat, large : BOOLEAN, note : Nat, snap : SUBSET Nat, done : BOOLEAN, lost : Nat,
              pair : BOOLEAN]

\* The results of a context are numbered as they came; since the last turnover no two have
\* a number, and only a summary lost a payload.
LmShape(context, n, since) ==
  /\ context \in Seq(LmResults)
  /\ \A i \in DOMAIN context : context[i].id \in 1..n /\ (~context[i].done => context[i].lost = 0)
  /\ \A i, j \in DOMAIN context : context[i].id > since /\ context[i].id = context[j].id => i = j

\* Of the results since the turnover only the holder shows a payload.
OnlyHolder(context, holder, since) ==
  \A i \in DOMAIN context : context[i].id > since /\ context[i].note # 0 => context[i].id = holder

\* One of the results since the turnover has, or had, the payload.
Bears(context, payload, since) ==
  \E i \in DOMAIN context : context[i].id > since /\ payload \in {context[i].note, context[i].lost}

\* The holder is an injected pair.
PairHeld(context, holder) == \E i \in DOMAIN context : context[i].id = holder /\ context[i].pair

\* What the channels may have held.
Written == {c \in [payload : Nat, form : Nat] : c.payload = 0 => c = NoContent}

LmNumbers ==
  /\ {lmCount, lmHolder, lmSignature, lmSince} \subseteq Nat /\ lmSince <= lmCount
  /\ lmChannel \in Written /\ lmFp \in Written
  /\ lmSnapshot \subseteq Nat /\ lmRuntime \in Nat

\* What counts as delivered is borne, and what the next batch will take for unchanged, but
\* for what a pair left behind and a batch took away: whatever the channels hold now.
LmDelivers(context, holder, sig, fp, since) ==
  /\ fp # NoContent =>
       \/ Bears(context, fp.payload, since)
       \/ holder = 0 /\ sig = 0
       \/ PairHeld(context, holder) /\ sig = fp.payload
  /\ holder # 0 /\ sig # 0 => Bears(context, sig, since) \/ PairHeld(context, holder)
LmDelivered(context) == LmDelivers(context, lmHolder, lmSignature, lmFp, lmSince)

LmInv ==
  /\ LmNumbers /\ LmShape(lmContext, lmCount, lmSince)
  /\ OnlyHolder(lmContext, lmHolder, lmSince) /\ LmDelivered(lmContext)

\* What a change of one result leaves of each.
LEMMA ResultChanges ==
  ASSUME NEW r \in LmResults, NEW note \in Nat, NEW snap \in SUBSET Nat
  PROVE  /\ [r EXCEPT !.note = note] \in LmResults
         /\ [r EXCEPT !.note = note].note = note /\ [r EXCEPT !.note = note].id = r.id
         /\ [r EXCEPT !.note = note].done = r.done /\ [r EXCEPT !.note = note].lost = r.lost
         /\ [r EXCEPT !.note = note].pair = r.pair
         /\ [r EXCEPT !.snap = snap] \in LmResults
         /\ [r EXCEPT !.snap = snap].note = r.note /\ [r EXCEPT !.snap = snap].id = r.id
         /\ [r EXCEPT !.snap = snap].done = r.done /\ [r EXCEPT !.snap = snap].lost = r.lost
         /\ [r EXCEPT !.snap = snap].pair = r.pair
BY DEF LmResults

\* Two contexts that differ in snapshots at most.
Alike(context, other) ==
  /\ other \in Seq(LmResults) /\ DOMAIN other = DOMAIN context
  /\ \A i \in DOMAIN context :
       /\ other[i].id = context[i].id /\ other[i].note = context[i].note
       /\ other[i].done = context[i].done /\ other[i].lost = context[i].lost
       /\ other[i].pair = context[i].pair

LEMMA SnapIs ==
  ASSUME NEW context \in Seq(LmResults), NEW id, NEW snap \in SUBSET Nat,
         NEW other,
         other = [i \in DOMAIN context |-> IF context[i].id = id THEN [context[i] EXCEPT !.snap = snap]
                                           ELSE context[i]]
  PROVE  Alike(context, other)
<1>1. \A i \in DOMAIN context : context[i] \in LmResults
  OBVIOUS
<1>2. /\ DOMAIN other = DOMAIN context
      /\ \A i \in DOMAIN context :
           other[i] = IF context[i].id = id THEN [context[i] EXCEPT !.snap = snap] ELSE context[i]
  OBVIOUS
<1>3. \A i \in DOMAIN context :
        /\ other[i] \in LmResults /\ other[i].id = context[i].id
        /\ other[i].note = context[i].note
        /\ other[i].done = context[i].done /\ other[i].lost = context[i].lost
        /\ other[i].pair = context[i].pair
  <2> SUFFICES ASSUME NEW i \in DOMAIN context
               PROVE  /\ other[i] \in LmResults /\ other[i].id = context[i].id
                      /\ other[i].note = context[i].note
                      /\ other[i].done = context[i].done /\ other[i].lost = context[i].lost
                      /\ other[i].pair = context[i].pair
    OBVIOUS
  <2>1. CASE context[i].id = id
    <3>1. other[i] = [context[i] EXCEPT !.snap = snap]
      BY <1>2, <2>1
    <3>2. context[i] \in LmResults
      BY <1>1
    <3> QED BY <2>1, <3>1, <3>2, ResultChanges, ZenonT(60)
  <2>2. CASE context[i].id # id
    BY <1>1, <1>2, <2>2
  <2> QED BY <2>1, <2>2
<1>4. DOMAIN context = 1..Len(context) /\ Len(context) \in Nat
  OBVIOUS
<1>5. other \in [1..Len(context) -> LmResults]
  <2>1. other = [i \in DOMAIN context |-> other[i]]
    BY <1>2
  <2> QED BY <1>3, <1>4, <2>1
<1>6. other \in Seq(LmResults)
  BY <1>4, <1>5
<1> QED BY <1>2, <1>3, <1>6 DEF Alike

\* Giving one result another payload, or none.
Noted(context, id, note, other) ==
  /\ other \in Seq(LmResults) /\ DOMAIN other = DOMAIN context
  /\ \A i \in DOMAIN context :
       /\ other[i].id = context[i].id
       /\ other[i].note = IF context[i].id = id THEN note ELSE context[i].note
       /\ other[i].done = context[i].done /\ other[i].lost = context[i].lost
       /\ other[i].pair = context[i].pair

LEMMA NoteIs ==
  ASSUME NEW context \in Seq(LmResults), NEW id, NEW note \in Nat,
         NEW other,
         other = [i \in DOMAIN context |-> IF context[i].id = id THEN [context[i] EXCEPT !.note = note]
                                           ELSE context[i]]
  PROVE  Noted(context, id, note, other)
<1>1. \A i \in DOMAIN context : context[i] \in LmResults
  OBVIOUS
<1>2. /\ DOMAIN other = DOMAIN context
      /\ \A i \in DOMAIN context :
           other[i] = IF context[i].id = id THEN [context[i] EXCEPT !.note = note] ELSE context[i]
  OBVIOUS
<1>3. \A i \in DOMAIN context :
        /\ other[i] \in LmResults /\ other[i].id = context[i].id
        /\ other[i].note = IF context[i].id = id THEN note ELSE context[i].note
        /\ other[i].done = context[i].done /\ other[i].lost = context[i].lost
        /\ other[i].pair = context[i].pair
  <2> SUFFICES ASSUME NEW i \in DOMAIN context
               PROVE  /\ other[i] \in LmResults /\ other[i].id = context[i].id
                      /\ other[i].note = IF context[i].id = id THEN note ELSE context[i].note
                      /\ other[i].done = context[i].done /\ other[i].lost = context[i].lost
                      /\ other[i].pair = context[i].pair
    OBVIOUS
  <2>1. CASE context[i].id = id
    <3>1. other[i] = [context[i] EXCEPT !.note = note]
      BY <1>2, <2>1
    <3>2. context[i] \in LmResults
      BY <1>1
    <3> DEFINE r == [context[i] EXCEPT !.note = note]
    <3>3. /\ r \in LmResults /\ r.note = note /\ r.id = context[i].id
          /\ r.done = context[i].done /\ r.lost = context[i].lost /\ r.pair = context[i].pair
      BY <3>2, ResultChanges
    <3> HIDE DEF r
    <3>4. other[i] = r
      BY <3>1 DEF r
    <3> QED BY <2>1, <3>3, <3>4
  <2>2. CASE context[i].id # id
    BY <1>1, <1>2, <2>2
  <2> QED BY <2>1, <2>2
<1>4. DOMAIN context = 1..Len(context) /\ Len(context) \in Nat
  OBVIOUS
<1>5. other \in [1..Len(context) -> LmResults]
  <2>1. other = [i \in DOMAIN context |-> other[i]]
    BY <1>2
  <2> QED BY <1>3, <1>4, <2>1
<1>6. other \in Seq(LmResults)
  BY <1>4, <1>5
<1> QED BY <1>2, <1>3, <1>6 DEF Noted

LEMMA SkeletonIs ==
  ASSUME NEW context \in Seq(LmResults), NEW id
  PROVE  Noted(context, id, 0, Skeleton(context, id))
BY NoteIs DEF Skeleton, WithOf

LEMMA NotedKeeps ==
  ASSUME NEW context, NEW n \in Nat, NEW since \in Nat, LmShape(context, n, since),
         NEW id, NEW note, NEW other, Noted(context, id, note, other)
  PROVE  LmShape(other, n, since)
BY DEF LmShape, Noted

LEMMA AlikeKeeps ==
  ASSUME NEW context, NEW n \in Nat, NEW since \in Nat, LmShape(context, n, since),
         NEW other, Alike(context, other)
  PROVE  /\ LmShape(other, n, since)
         /\ \A holder : OnlyHolder(context, holder, since) => OnlyHolder(other, holder, since)
         /\ \A payload : Bears(context, payload, since) => Bears(other, payload, since)
         /\ \A holder : PairHeld(context, holder) => PairHeld(other, holder)
<1>1. LmShape(other, n, since)
  BY DEF LmShape, Alike
<1>2. \A holder : OnlyHolder(context, holder, since) => OnlyHolder(other, holder, since)
  BY DEF OnlyHolder, Alike
<1>3. \A payload : Bears(context, payload, since) => Bears(other, payload, since)
  BY DEF Bears, Alike
<1>4. \A holder : PairHeld(context, holder) => PairHeld(other, holder)
  BY DEF PairHeld, Alike
<1> QED BY <1>1, <1>2, <1>3, <1>4

\* The result that comes next is the newest.
LEMMA ResultJoins ==
  ASSUME NEW context, NEW n \in Nat, NEW since \in Nat, since <= n, LmShape(context, n, since),
         NEW r \in LmResults, r.id = n + 1, ~r.done => r.lost = 0
  PROVE  /\ LmShape(Append(context, r), n + 1, since)
         /\ Newest(Append(context, r)) = n + 1
         /\ DOMAIN Append(context, r) = DOMAIN context \cup {Len(context) + 1}
         /\ Append(context, r)[Len(context) + 1] = r
         /\ \A i \in DOMAIN context : Append(context, r)[i] = context[i]
         /\ \A payload : Bears(context, payload, since) => Bears(Append(context, r), payload, since)
         /\ \A holder : OnlyHolder(context, holder, since) /\ r.note = 0
                          => OnlyHolder(Append(context, r), holder, since)
         /\ \A holder : PairHeld(context, holder) => PairHeld(Append(context, r), holder)
<1> DEFINE c == Append(context, r)
<1>1. /\ context \in Seq(LmResults) /\ DOMAIN context = 1..Len(context) /\ Len(context) \in Nat
  BY DEF LmShape
<1>2. /\ c \in Seq(LmResults) /\ Len(c) = Len(context) + 1 /\ DOMAIN c = 1..(Len(context) + 1)
      /\ \A i \in 1..Len(context) : c[i] = context[i]
      /\ c[Len(context) + 1] = r
  BY <1>1
<1> HIDE DEF c
<1>3. DOMAIN c = DOMAIN context \cup {Len(context) + 1}
  BY <1>1, <1>2
<1>4. Newest(c) = n + 1
  BY <1>2 DEF Newest
<1>5. LmShape(c, n + 1, since)
  <2>1. \A i \in DOMAIN context : c[i].id \in 1..n /\ c[i].id # n + 1 /\ (~c[i].done => c[i].lost = 0)
    BY <1>1, <1>2 DEF LmShape
  <2>2. \A i \in DOMAIN c : c[i].id \in 1..(n + 1) /\ (~c[i].done => c[i].lost = 0)
    BY <1>2, <1>3, <2>1
  <2>3. \A i, j \in DOMAIN c : c[i].id > since /\ c[i].id = c[j].id => i = j
    BY <1>1, <1>2, <1>3, <2>1 DEF LmShape
  <2> QED BY <1>2, <2>2, <2>3 DEF LmShape
<1>6. \A payload : Bears(context, payload, since) => Bears(c, payload, since)
  BY <1>1, <1>2, <1>3 DEF Bears
<1>7. \A holder : OnlyHolder(context, holder, since) /\ r.note = 0 => OnlyHolder(c, holder, since)
  BY <1>1, <1>2, <1>3 DEF OnlyHolder
<1>8. \A holder : PairHeld(context, holder) => PairHeld(c, holder)
  BY <1>1, <1>2, <1>3 DEF PairHeld
<1> QED BY <1>1, <1>2, <1>3, <1>4, <1>5, <1>6, <1>7, <1>8 DEF c

LEMMA FreshIs ==
  ASSUME LmNumbers, NEW large \in BOOLEAN
  PROVE  /\ FreshPayload(large) \in LmResults /\ FreshPayload(large).id = lmCount + 1
         /\ FreshPayload(large).note = 0 /\ FreshPayload(large).lost = 0
BY DEF LmNumbers, FreshPayload, LmResults, Unset

\* A snapshot is a set of numbers, and it changes nothing else.
LEMMA SnappedIs ==
  ASSUME NEW n \in Nat, NEW since \in Nat, NEW context, LmShape(context, n, since), context # <<>>,
         NEW shape, LmNumbers, Snapped(context, shape)
  PROVE  Alike(context, lmContext') /\ lmSnapshot' \subseteq Nat /\ lmRuntime' \in Nat
<1>1. context \in Seq(LmResults) /\ Len(context) \in DOMAIN context
  BY DEF LmShape
<1>2. Material(context) \in SUBSET Nat /\ Newest(context) \in Nat
  BY <1>1 DEF Material, ResultChars, LmShape, Newest
<1>3. CASE shape = "text" \/ Material(context) = lmSnapshot
  BY <1>1, <1>3 DEF Snapped, Alike, LmNumbers
<1>4. CASE ~(shape = "text" \/ Material(context) = lmSnapshot)
  <2> DEFINE bare == Bare(context, lmRuntime)
  <2>6. bare = [i \in DOMAIN context |-> IF context[i].id = lmRuntime THEN [context[i] EXCEPT !.snap = {0}]
                                         ELSE context[i]]
    BY DEF Bare, WithOf, Unset
  <2> HIDE DEF bare
  <2>7. {0} \in SUBSET Nat
    OBVIOUS
  <2>1. Alike(context, bare)
    BY <1>1, <2>6, <2>7, SnapIs, Zenon
  <2>2. lmContext' = [i \in DOMAIN bare |-> IF bare[i].id = Newest(context)
                                             THEN [bare[i] EXCEPT !.snap = Material(context)]
                                             ELSE bare[i]]
    BY <1>4 DEF Snapped, WithOf, bare
  <2>8. bare \in Seq(LmResults)
    BY <2>1 DEF Alike
  <2>3. Alike(bare, lmContext')
    BY <1>2, <2>2, <2>8, SnapIs, Zenon
  <2>4. Alike(context, lmContext')
    BY <2>1, <2>3 DEF Alike
  <2>5. lmRuntime' = Newest(context) /\ lmSnapshot' = Material(context)
    BY <1>4 DEF Snapped
  <2> QED BY <1>2, <2>4, <2>5
<1> QED BY <1>3, <1>4

\* What stamping a batch makes of the payload, on the context that ends in its result.
Noticed(context, holder, sig, fp) ==
  /\ LmShape(context, lmCount + 1, lmSince) /\ context # <<>>
  /\ OnlyHolder(context, holder, lmSince)
  /\ {holder, sig} \subseteq Nat /\ fp \in Written
  /\ LmDelivers(context, holder, sig, fp, lmSince)

LEMMA NotifiedIs ==
  ASSUME LmNumbers, NEW c, LmShape(c, lmCount + 1, lmSince), c # <<>>, Newest(c) = lmCount + 1,
         OnlyHolder(c, lmHolder, lmSince), LmDelivered(c), NEW shape,
         NEW notice, notice = Notified(c, shape)
  PROVE  Noticed(notice.context, notice.holder, notice.sig, notice.fp)
<1>1. c \in Seq(LmResults) /\ Len(c) \in DOMAIN c
  BY DEF LmShape
<1>2. /\ lmCount \in Nat /\ lmHolder \in Nat /\ lmSignature \in Nat /\ lmFp \in Written
      /\ lmSince \in Nat /\ lmSince <= lmCount
      /\ lmChannel \in Written /\ lmChannel.payload \in Nat
  BY DEF LmNumbers, Written
<1>3. /\ Noted(c, lmHolder, 0, Skeleton(c, lmHolder))
      /\ LmShape(Skeleton(c, lmHolder), lmCount + 1, lmSince)
  <2>1. Noted(c, lmHolder, 0, Skeleton(c, lmHolder))
    BY <1>1, SkeletonIs
  <2>2. lmCount + 1 \in Nat
    BY <1>2
  <2> QED BY <1>2, <2>1, <2>2, NotedKeeps
<1>4. CASE Collected = 0
  <2>1. notice = [context |-> Skeleton(c, lmHolder), holder |-> 0, sig |-> 0, fp |-> lmFp]
    BY <1>4 DEF Notified
  <2>2. \A holder : OnlyHolder(Skeleton(c, lmHolder), holder, lmSince)
    BY <1>3 DEF OnlyHolder, Noted
  <2>3. Skeleton(c, lmHolder) # <<>>
    BY <1>1, <1>3 DEF Noted
  <2> QED BY <1>2, <1>3, <2>1, <2>2, <2>3 DEF Noticed, LmDelivers
<1>5. CASE Collected # 0 /\ (shape = "text" \/ Unchanged(shape))
  <2>1. notice.context = c /\ notice.holder = lmHolder /\ notice.sig = lmSignature
    BY <1>5 DEF Notified
  <2>2. \/ notice.fp = lmFp
        \/ notice.fp = lmChannel /\ lmSignature = lmChannel.payload /\ lmHolder # 0
    BY <1>5 DEF Notified, Unchanged, Signed, Collected
  <2>3. LmDelivers(c, lmHolder, lmSignature, notice.fp, lmSince)
    BY <1>5, <2>2 DEF LmDelivered, LmDelivers, Collected
  <2> QED BY <1>2, <2>1, <2>2, <2>3 DEF Noticed
<1>6. CASE Collected # 0 /\ ~(shape = "text" \/ Unchanged(shape))
  <2> DEFINE bare == Skeleton(c, lmHolder)
             moved == Moved(c)
  <2>1. notice = [context |-> moved, holder |-> Newest(c), sig |-> Signed, fp |-> lmChannel]
    BY <1>6 DEF Notified
  <2>2. moved = [i \in DOMAIN bare |-> IF bare[i].id = Newest(c) THEN [bare[i] EXCEPT !.note = Collected]
                                       ELSE bare[i]]
    BY DEF Moved, WithOf
  <2> HIDE DEF bare, moved
  <2>3. bare \in Seq(LmResults) /\ Collected \in Nat
    BY <1>2, <1>3 DEF LmShape, bare, Collected
  <2>4. Noted(bare, Newest(c), Collected, moved)
    BY <2>2, <2>3, NoteIs, Zenon
  <2>5. LmShape(moved, lmCount + 1, lmSince)
    BY <1>2, <1>3, <2>4, NotedKeeps DEF bare
  <2>6. OnlyHolder(moved, Newest(c), lmSince)
    BY <1>3, <2>4 DEF OnlyHolder, Noted, bare
  <2>7. /\ DOMAIN moved = DOMAIN c /\ moved[Len(c)].id = lmCount + 1
        /\ moved[Len(c)].note = Collected
    BY <1>1, <1>3, <2>4 DEF Noted, Newest, bare
  <2>8. Bears(moved, lmChannel.payload, lmSince)
    BY <1>1, <1>2, <2>7 DEF Bears, Collected
  <2>9. moved # <<>>
    BY <1>1, <2>7
  <2>10. Signed = lmChannel.payload
    BY DEF Signed, Collected
  <2>11. Newest(c) \in Nat
    BY <1>2
  <2>12. LmDelivers(moved, Newest(c), Signed, lmChannel, lmSince)
    BY <2>8, <2>10 DEF LmDelivers
  <2> QED BY <1>2, <2>1, <2>5, <2>6, <2>9, <2>10, <2>11, <2>12 DEF Noticed
<1> QED BY <1>4, <1>5, <1>6

LEMMA StampedKeeps ==
  ASSUME LmNumbers, NEW c, LmShape(c, lmCount + 1, lmSince), c # <<>>, Newest(c) = lmCount + 1,
         OnlyHolder(c, lmHolder, lmSince), LmDelivered(c), NEW shape, Stamped(c, shape),
         lmCount' = lmCount + 1, UNCHANGED <<lmChannel, lmLife>>
  PROVE  LmInv'
<1> DEFINE notice == Notified(c, shape)
<1>1. lmHolder' = notice.holder /\ lmSignature' = notice.sig /\ lmFp' = notice.fp
      /\ Snapped(notice.context, shape)
  BY DEF Stamped
<1>2. Noticed(notice.context, notice.holder, notice.sig, notice.fp)
  BY NotifiedIs
<1> HIDE DEF notice
<1>3. /\ lmCount + 1 \in Nat /\ lmSince \in Nat /\ lmSince <= lmCount + 1
      /\ lmSince' = lmSince /\ lmChannel' = lmChannel
  BY DEF LmNumbers, lmLife
<1>4. LmShape(notice.context, lmCount + 1, lmSince) /\ notice.context # <<>>
  BY <1>2 DEF Noticed
<1>5. Alike(notice.context, lmContext') /\ lmSnapshot' \subseteq Nat /\ lmRuntime' \in Nat
  BY <1>1, <1>3, <1>4, SnappedIs
<1>6. /\ LmShape(lmContext', lmCount + 1, lmSince)
      /\ \A holder : OnlyHolder(notice.context, holder, lmSince) => OnlyHolder(lmContext', holder, lmSince)
      /\ \A payload : Bears(notice.context, payload, lmSince) => Bears(lmContext', payload, lmSince)
      /\ \A holder : PairHeld(notice.context, holder) => PairHeld(lmContext', holder)
  BY <1>3, <1>4, <1>5, AlikeKeeps
<1>7. LmNumbers'
  BY <1>1, <1>2, <1>3, <1>5 DEF Noticed, LmNumbers
<1>8. OnlyHolder(lmContext', lmHolder', lmSince')
  BY <1>1, <1>2, <1>3, <1>6 DEF Noticed
<1>9. LmDelivered(lmContext)'
  BY <1>1, <1>2, <1>3, <1>6 DEF Noticed, LmDelivered, LmDelivers
<1>10. LmShape(lmContext, lmCount, lmSince)'
  BY <1>3, <1>6
<1>11. OnlyHolder(lmContext, lmHolder, lmSince)'
  BY <1>8
<1> QED BY <1>7, <1>9, <1>10, <1>11 DEF LmInv

LEMMA BatchKeeps ==
  ASSUME LmInv, NEW shape, NEW large \in BOOLEAN, LmBatch(shape, large)
  PROVE  LmInv'
<1> DEFINE c == Append(lmContext, FreshPayload(large))
<1>1. LmNumbers /\ LmShape(lmContext, lmCount, lmSince) /\ OnlyHolder(lmContext, lmHolder, lmSince)
      /\ LmDelivered(lmContext) /\ lmCount \in Nat /\ lmSince \in Nat /\ lmSince <= lmCount
  BY DEF LmInv, LmNumbers
<1>2. /\ FreshPayload(large) \in LmResults /\ FreshPayload(large).id = lmCount + 1
      /\ FreshPayload(large).note = 0 /\ FreshPayload(large).lost = 0
  BY <1>1, FreshIs
<1>3. /\ LmShape(c, lmCount + 1, lmSince) /\ Newest(c) = lmCount + 1
      /\ \A payload : Bears(lmContext, payload, lmSince) => Bears(c, payload, lmSince)
      /\ \A holder : OnlyHolder(lmContext, holder, lmSince) => OnlyHolder(c, holder, lmSince)
      /\ \A holder : PairHeld(lmContext, holder) => PairHeld(c, holder)
      /\ Len(lmContext) + 1 \in DOMAIN c
  BY <1>1, <1>2, ResultJoins
<1>4. Stamped(c, shape) /\ lmCount' = lmCount + 1 /\ UNCHANGED <<lmChannel, lmLife>>
  BY DEF LmBatch
<1> HIDE DEF c
<1>5. c # <<>>
  BY <1>3
<1>6. OnlyHolder(c, lmHolder, lmSince) /\ LmDelivered(c)
  BY <1>1, <1>3 DEF LmDelivered, LmDelivers
<1> QED BY <1>1, <1>3, <1>4, <1>5, <1>6, StampedKeeps

\* A summary takes the payload of the result it replaces with it.
LEMMA SummaryIs ==
  ASSUME NEW context, NEW n \in Nat, NEW since \in Nat, LmShape(context, n, since),
         NEW k \in DOMAIN context, ~context[k].done,
         NEW other, other = Summary(context, context[k].id)
  PROVE  /\ LmShape(other, n, since) /\ DOMAIN other = DOMAIN context
         /\ \A holder : OnlyHolder(context, holder, since) => OnlyHolder(other, holder, since)
         /\ \A payload : Bears(context, payload, since) => Bears(other, payload, since)
         /\ \A holder : PairHeld(context, holder) => PairHeld(other, holder)
<1>1. /\ context \in Seq(LmResults) /\ DOMAIN context = 1..Len(context) /\ Len(context) \in Nat
      /\ \A i \in DOMAIN context : context[i] \in LmResults
  BY DEF LmShape
<1>2. /\ DOMAIN other = DOMAIN context /\ other = [i \in DOMAIN other |-> other[i]]
      /\ \A i \in DOMAIN context :
           other[i] = IF context[i].id = context[k].id
                      THEN [context[i] EXCEPT !.large = FALSE, !.note = 0, !.snap = Unset,
                                              !.done = TRUE, !.lost = context[i].note]
                      ELSE context[i]
  BY DEF Summary, WithOf
<1>3. ASSUME NEW r \in LmResults, NEW s, s = [r EXCEPT !.large = FALSE, !.note = 0, !.snap = Unset,
                                                       !.done = TRUE, !.lost = r.note]
      PROVE  s \in LmResults /\ s.id = r.id /\ s.note = 0 /\ s.done /\ s.lost = r.note /\ s.pair = r.pair
  <2>1. s = [id |-> r.id, large |-> FALSE, note |-> 0, snap |-> {0}, done |-> TRUE, lost |-> r.note,
             pair |-> r.pair]
    BY <1>3 DEF LmResults, Unset
  <2>2. r.id \in Nat /\ r.note \in Nat /\ r.pair \in BOOLEAN /\ {0} \in SUBSET Nat
    BY DEF LmResults
  <2> QED BY <2>1, <2>2 DEF LmResults
<1>4. \A i \in DOMAIN context :
        /\ other[i] \in LmResults /\ other[i].id = context[i].id /\ other[i].pair = context[i].pair
        /\ context[i].id = context[k].id => other[i].note = 0 /\ other[i].done /\ other[i].lost = context[i].note
        /\ context[i].id # context[k].id => other[i] = context[i]
  <2> SUFFICES ASSUME NEW i \in DOMAIN context
               PROVE  /\ other[i] \in LmResults /\ other[i].id = context[i].id
                      /\ other[i].pair = context[i].pair
                      /\ context[i].id = context[k].id =>
                           other[i].note = 0 /\ other[i].done /\ other[i].lost = context[i].note
                      /\ context[i].id # context[k].id => other[i] = context[i]
    OBVIOUS
  <2>1. CASE context[i].id = context[k].id
    <3> DEFINE r == context[i]
    <3>1. r \in LmResults
      BY <1>1
    <3>2. other[i] = [r EXCEPT !.large = FALSE, !.note = 0, !.snap = Unset, !.done = TRUE, !.lost = r.note]
      BY <1>2, <2>1
    <3> HIDE DEF r
    <3>3. /\ other[i] \in LmResults /\ other[i].id = r.id /\ other[i].note = 0 /\ other[i].done
          /\ other[i].lost = r.note /\ other[i].pair = r.pair
      BY <1>3, <3>1, <3>2, Zenon
    <3> QED BY <2>1, <3>3 DEF r
  <2>2. CASE context[i].id # context[k].id
    BY <1>1, <1>2, <2>2
  <2> QED BY <2>1, <2>2
<1>5. other \in Seq(LmResults)
  <2>1. other \in [1..Len(context) -> LmResults]
    BY <1>1, <1>2, <1>4
  <2> QED BY <1>1, <2>1
<1>6. LmShape(other, n, since)
  <2>1. \A i \in DOMAIN other : other[i].id \in 1..n /\ (~other[i].done => other[i].lost = 0)
    <3>1. \A i \in DOMAIN context : context[i].id \in 1..n /\ (~context[i].done => context[i].lost = 0)
      BY DEF LmShape
    <3>2. DOMAIN other = DOMAIN context
      BY <1>2
    <3> QED BY <1>4, <3>1, <3>2
  <2>2. \A i, j \in DOMAIN other : other[i].id > since /\ other[i].id = other[j].id => i = j
    <3>1. \A i, j \in DOMAIN context : context[i].id > since /\ context[i].id = context[j].id => i = j
      BY DEF LmShape
    <3>2. DOMAIN other = DOMAIN context
      BY <1>2
    <3> QED BY <1>4, <3>1, <3>2
  <2> QED BY <1>5, <2>1, <2>2 DEF LmShape
<1>7. \A holder : OnlyHolder(context, holder, since) => OnlyHolder(other, holder, since)
  BY <1>2, <1>4 DEF OnlyHolder
<1>8. ASSUME NEW payload, Bears(context, payload, since) PROVE Bears(other, payload, since)
  <2>1. PICK i \in DOMAIN context : context[i].id > since /\ payload \in {context[i].note, context[i].lost}
    BY <1>8 DEF Bears
  <2>2. CASE context[i].id = context[k].id
    <3>1. i = k
      BY <2>1, <2>2 DEF LmShape
    <3>2. context[i].lost = 0
      BY <3>1 DEF LmShape
    <3>3. payload \in {other[i].note, other[i].lost} /\ other[i].id > since
      BY <1>4, <2>1, <2>2, <3>2
    <3> QED BY <1>2, <3>3 DEF Bears
  <2>3. CASE context[i].id # context[k].id
    BY <1>2, <1>4, <2>1, <2>3 DEF Bears
  <2> QED BY <2>2, <2>3
<1>9. \A holder : PairHeld(context, holder) => PairHeld(other, holder)
  BY <1>2, <1>4 DEF PairHeld
<1> QED BY <1>2, <1>6, <1>7, <1>8, <1>9

LEMMA SummarizeKeeps ==
  ASSUME LmInv, NEW k \in DOMAIN lmContext, LmSummarize(k)
  PROVE  LmInv'
<1> DEFINE s == Summary(lmContext, lmContext[k].id)
           fresh == FreshPayload(FALSE)
           c == Append(s, fresh)
<1>1. LmNumbers /\ LmShape(lmContext, lmCount, lmSince) /\ OnlyHolder(lmContext, lmHolder, lmSince)
      /\ LmDelivered(lmContext) /\ lmCount \in Nat /\ lmSince \in Nat /\ lmSince <= lmCount
  BY DEF LmInv, LmNumbers
<1>2. fresh \in LmResults /\ fresh.id = lmCount + 1 /\ fresh.note = 0 /\ fresh.lost = 0
  BY <1>1, FreshIs
<1>3. ~lmContext[k].done /\ Stamped(c, "dict") /\ lmCount' = lmCount + 1
      /\ UNCHANGED <<lmChannel, lmLife>>
  BY DEF LmSummarize
<1>4. /\ LmShape(s, lmCount, lmSince)
      /\ \A holder : OnlyHolder(lmContext, holder, lmSince) => OnlyHolder(s, holder, lmSince)
      /\ \A payload : Bears(lmContext, payload, lmSince) => Bears(s, payload, lmSince)
      /\ \A holder : PairHeld(lmContext, holder) => PairHeld(s, holder)
  BY <1>1, <1>3, SummaryIs
<1> HIDE DEF s, fresh
<1>5. /\ LmShape(c, lmCount + 1, lmSince) /\ Newest(c) = lmCount + 1
      /\ \A payload : Bears(s, payload, lmSince) => Bears(c, payload, lmSince)
      /\ \A holder : OnlyHolder(s, holder, lmSince) => OnlyHolder(c, holder, lmSince)
      /\ \A holder : PairHeld(s, holder) => PairHeld(c, holder)
      /\ Len(s) + 1 \in DOMAIN c
  BY <1>1, <1>2, <1>4, ResultJoins
<1> HIDE DEF c
<1>6. c # <<>>
  BY <1>5
<1>7. OnlyHolder(c, lmHolder, lmSince) /\ LmDelivered(c)
  BY <1>1, <1>4, <1>5 DEF LmDelivered, LmDelivers
<1> QED BY <1>1, <1>3, <1>5, <1>6, <1>7, StampedKeeps

\* The pair an idle pass injects becomes the holder.
LEMMA InjectKeeps == LmInv /\ LmInject => LmInv'
<1> SUFFICES ASSUME LmInv, LmInject PROVE LmInv'
  OBVIOUS
<1> DEFINE s == Skeleton(lmContext, lmHolder)
           pair == [FreshPayload(FALSE) EXCEPT !.note = Collected, !.pair = TRUE]
           c == Append(s, pair)
<1>1. LmNumbers /\ LmShape(lmContext, lmCount, lmSince) /\ OnlyHolder(lmContext, lmHolder, lmSince)
      /\ lmCount \in Nat /\ lmSince \in Nat /\ lmSince <= lmCount /\ lmContext \in Seq(LmResults)
  BY DEF LmInv, LmNumbers, LmShape
<1>2. lmContext' = c /\ lmHolder' = pair.id
  BY DEF LmInject
<1>3. /\ lmCount' = lmCount + 1 /\ lmFp' = lmChannel
      /\ UNCHANGED <<lmChannel, lmSignature, lmRuntime, lmSnapshot, lmLife>>
  BY DEF LmInject
<1>4. pair \in LmResults /\ pair.id = lmCount + 1 /\ pair.note = Collected /\ pair.lost = 0 /\ pair.pair
  <2>1. PICK p : p = [FreshPayload(FALSE) EXCEPT !.note = Collected, !.pair = TRUE]
    OBVIOUS
  <2>2. p = [id |-> lmCount + 1, large |-> FALSE, note |-> lmChannel.payload, snap |-> {0},
             done |-> FALSE, lost |-> 0, pair |-> TRUE]
    BY <2>1 DEF FreshPayload, Unset, Collected
  <2>3. lmChannel.payload \in Nat /\ lmCount + 1 \in Nat /\ {0} \in SUBSET Nat
    BY <1>1 DEF LmNumbers, Written
  <2>4. p \in LmResults /\ p.id = lmCount + 1 /\ p.note = Collected /\ p.lost = 0 /\ p.pair
    BY <2>2, <2>3 DEF LmResults, Collected
  <2>5. pair = p
    BY <2>1
  <2> HIDE DEF pair
  <2> QED BY <2>4, <2>5
<1>5. Noted(lmContext, lmHolder, 0, s)
  BY <1>1, SkeletonIs
<1> HIDE DEF s, pair
<1>6. LmShape(s, lmCount, lmSince)
  BY <1>1, <1>5, NotedKeeps
<1>7. /\ LmShape(c, lmCount + 1, lmSince) /\ DOMAIN c = DOMAIN s \cup {Len(s) + 1}
      /\ c[Len(s) + 1] = pair /\ \A i \in DOMAIN s : c[i] = s[i]
  BY <1>1, <1>4, <1>6, ResultJoins
<1> HIDE DEF c
<1>8. OnlyHolder(c, lmCount + 1, lmSince)
  BY <1>1, <1>4, <1>5, <1>7 DEF OnlyHolder, Noted
<1>9. Bears(c, lmChannel.payload, lmSince) /\ PairHeld(c, lmCount + 1)
  <2>1. lmCount + 1 > lmSince
    BY <1>1
  <2> QED BY <1>4, <1>7, <2>1 DEF Bears, PairHeld, Collected
<1>10. LmNumbers'
  BY <1>1, <1>2, <1>3, <1>4 DEF LmNumbers, lmLife
<1>11. LmShape(lmContext, lmCount, lmSince)' /\ OnlyHolder(lmContext, lmHolder, lmSince)'
  BY <1>2, <1>3, <1>4, <1>7, <1>8 DEF lmLife
<1>12. LmDelivered(lmContext)'
  BY <1>2, <1>3, <1>4, <1>9 DEF LmDelivered, LmDelivers, lmLife
<1> QED BY <1>10, <1>11, <1>12 DEF LmInv

LEMMA ClearedKeeps == LmInv /\ LmCleared => LmInv'
<1> SUFFICES ASSUME LmInv, LmCleared PROVE LmInv'
  OBVIOUS
<1>1. LmNumbers /\ LmShape(lmContext, lmCount, lmSince) /\ OnlyHolder(lmContext, lmHolder, lmSince)
      /\ lmCount \in Nat /\ lmSince \in Nat /\ lmContext \in Seq(LmResults)
  BY DEF LmInv, LmNumbers, LmShape
<1>2. /\ lmContext' = Skeleton(lmContext, lmHolder) /\ lmHolder' = 0 /\ lmFp' = NoContent
      /\ UNCHANGED <<lmChannel, lmSignature, lmRuntime, lmSnapshot, lmCount, lmSince>>
  BY DEF LmCleared, lmLife
<1>3. Noted(lmContext, lmHolder, 0, lmContext')
  BY <1>1, <1>2, SkeletonIs
<1>4. LmShape(lmContext', lmCount, lmSince)
  BY <1>1, <1>3, NotedKeeps
<1>5. OnlyHolder(lmContext', lmHolder', lmSince)
  BY <1>1, <1>3 DEF OnlyHolder, Noted
<1>6. LmNumbers' /\ LmDelivered(lmContext)'
  BY <1>1, <1>2 DEF LmNumbers, LmDelivered, LmDelivers, Written, NoContent
<1> QED BY <1>2, <1>4, <1>5, <1>6 DEF LmInv

\* After a molt or a restart nothing counts as delivered, and what is left is old.
LEMMA OldShape ==
  ASSUME NEW n \in Nat, NEW since, NEW context, LmShape(context, n, since),
         NEW other \in Seq(LmResults),
         \A i \in DOMAIN other : \E j \in DOMAIN context : other[i] = context[j]
  PROVE  LmShape(other, n, n) /\ \A holder : OnlyHolder(other, holder, n)
<1>1. \A i \in DOMAIN other : other[i].id \in 1..n /\ (~other[i].done => other[i].lost = 0)
  BY DEF LmShape
<1>2. \A i \in DOMAIN other : ~(other[i].id > n)
  BY <1>1
<1> QED BY <1>1, <1>2 DEF LmShape, OnlyHolder

LEMMA KeptOnIs ==
  ASSUME NEW ids, lmContext \in Seq(LmResults)
  PROVE  /\ KeptOn(ids) \in Seq(LmResults)
         /\ \A i \in DOMAIN KeptOn(ids) : \E j \in DOMAIN lmContext : KeptOn(ids)[i] = lmContext[j]
<1> DEFINE places == {i \in DOMAIN lmContext : lmContext[i].id \in ids}
<1>1. places \in SUBSET (DOMAIN lmContext) /\ KeptOn(ids) = AtPlaces(lmContext, places)
  BY DEF KeptOn
<1> HIDE DEF places
<1> QED BY <1>1, AtPlacesIs

LEMMA TurnoverKeeps ==
  ASSUME LmInv, Turnover, UNCHANGED lmChannel, lmSignature' \in {lmSignature, 0},
         lmRuntime' \in Nat, lmSnapshot' \in SUBSET Nat, lmCount' \in {lmCount, lmCount + 1},
         LmShape(lmContext', lmCount', lmCount), OnlyHolder(lmContext', 0, lmCount)
  PROVE  LmInv'
<1>1. lmHolder' = 0 /\ lmFp' = NoContent /\ lmSince' = lmCount /\ LmNumbers
  BY DEF Turnover, LmInv
<1>2. LmNumbers'
  BY <1>1 DEF LmNumbers, Written, NoContent
<1>3. LmDelivered(lmContext)'
  BY <1>1 DEF LmDelivered, LmDelivers
<1> QED BY <1>1, <1>2, <1>3 DEF LmInv

LEMMA AnyMoltKeeps ==
  ASSUME LmInv, NEW ids, LmMolt(ids) \/ LmForcedMolt(ids)
  PROVE  LmInv'
<1> DEFINE s == KeptOn(ids)
           fresh == FreshPayload(FALSE)
           c == Append(s, fresh)
<1>1. LmNumbers /\ LmShape(lmContext, lmCount, lmSince) /\ lmCount \in Nat /\ lmSince \in Nat
      /\ lmContext \in Seq(LmResults)
  BY DEF LmInv, LmNumbers, LmShape
<1>2. LmShape(s, lmCount, lmCount) /\ \A holder : OnlyHolder(s, holder, lmCount)
  BY <1>1, KeptOnIs, OldShape
<1>3. fresh \in LmResults /\ fresh.id = lmCount + 1 /\ fresh.note = 0 /\ fresh.lost = 0
  BY <1>1, FreshIs
<1> HIDE DEF s, fresh
<1>4. /\ LmShape(c, lmCount + 1, lmCount) /\ Len(s) + 1 \in DOMAIN c
      /\ \A holder : OnlyHolder(s, holder, lmCount) => OnlyHolder(c, holder, lmCount)
  BY <1>1, <1>2, <1>3, ResultJoins
<1>5. Turnover /\ UNCHANGED <<lmChannel, lmSignature>> /\ lmCount' = lmCount + 1
  BY DEF LmMolt, LmForcedMolt
<1>6. Snapped(c, "dict") \/ (lmContext' = c /\ UNCHANGED <<lmRuntime, lmSnapshot>>)
  BY DEF LmMolt, LmForcedMolt, s, fresh
<1> HIDE DEF c
<1>7. /\ LmShape(lmContext', lmCount + 1, lmCount) /\ OnlyHolder(lmContext', 0, lmCount)
      /\ lmRuntime' \in Nat /\ lmSnapshot' \in SUBSET Nat
  <2>1. CASE Snapped(c, "dict")
    <3>1. c # <<>> /\ lmCount + 1 \in Nat
      BY <1>1, <1>4
    <3>2. Alike(c, lmContext') /\ lmSnapshot' \subseteq Nat /\ lmRuntime' \in Nat
      BY <1>1, <1>4, <2>1, <3>1, SnappedIs
    <3> QED BY <1>1, <1>2, <1>4, <3>1, <3>2, AlikeKeeps
  <2>2. CASE lmContext' = c /\ UNCHANGED <<lmRuntime, lmSnapshot>>
    BY <1>1, <1>2, <1>4, <2>2 DEF LmNumbers
  <2> QED BY <1>6, <2>1, <2>2
<1> QED BY <1>5, <1>7, TurnoverKeeps

LEMMA RestartKeeps == LmInv /\ LmRestart => LmInv'
<1> SUFFICES ASSUME LmInv, LmRestart PROVE LmInv'
  OBVIOUS
<1>1. /\ Turnover /\ lmSignature' = 0 /\ lmRuntime' = 0 /\ lmSnapshot' = {0}
      /\ UNCHANGED <<lmChannel, lmContext, lmCount>>
  BY DEF LmRestart, Unset
<1>2. LmShape(lmContext, lmCount, lmSince) /\ lmCount \in Nat /\ lmContext \in Seq(LmResults)
  BY DEF LmInv, LmNumbers, LmShape
<1>3. LmShape(lmContext, lmCount, lmCount) /\ OnlyHolder(lmContext, 0, lmCount)
  BY <1>2, OldShape
<1> QED BY <1>1, <1>3, TurnoverKeeps

\* What is written to the channels was not delivered, or was and is as it was.
LEMMA WriteKeeps == ASSUME LmInv, NEW content \in Contents, LmWrite(content) PROVE LmInv'
<1>1. /\ UNCHANGED <<lmContext, lmHolder, lmSignature, lmFp, lmRuntime, lmSnapshot, lmCount, lmSince>>
      /\ lmChannel' = content
  BY DEF LmWrite, lmNotice, lmLife
<1>2. content \in Written
  BY LiveMetaAssumption DEF Contents, Written, NoContent
<1> QED BY <1>1, <1>2 DEF LmInv, LmNumbers, LmDelivered

LEMMA LmAlways == LmSpec => []LmInv
<1>1. LmInit => LmInv
  BY DEF LmInit, LmInv, LmNumbers, LmShape, OnlyHolder, LmDelivered, LmDelivers, Written, NoContent, Unset
<1>2. LmInv /\ [LmNext]_lmVars => LmInv'
  <2> SUFFICES ASSUME LmInv, [LmNext]_lmVars PROVE LmInv'
    OBVIOUS
  <2>1. CASE UNCHANGED lmVars
    BY <2>1 DEF LmInv, LmNumbers, LmShape, OnlyHolder, LmDelivered, LmDelivers, Bears, PairHeld, lmVars
  <2>2. CASE LmNext
    BY <2>2, BatchKeeps, SummarizeKeeps, InjectKeeps, ClearedKeeps, RestartKeeps, AnyMoltKeeps,
       WriteKeeps
    DEF LmNext
  <2> QED BY <2>1, <2>2
<1> QED BY <1>1, <1>2, PTL DEF LmSpec

\* A channel state that counts as delivered can be read in the context, but for one
\* the next batch attaches and one whose signature a pair left behind.
THEOREM PayloadStays == LmSpec => []PayloadKept
<1>1. LmInv => PayloadKept
  BY DEF LmInv, LmShape, OnlyHolder, LmDelivered, LmDelivers, Bears, PairHeld, PayloadKept, CanBeRead,
         PairHolds, Carriers
<1> QED BY <1>1, LmAlways, PTL

\* The results of a context are in the order they came, and the snapshots name results.
LmOrdered(context, n) ==
  /\ context \in Seq(LmResults)
  /\ \A i \in DOMAIN context : context[i].id \in 1..n /\ context[i].snap \subseteq 0..n
  /\ \A i, j \in DOMAIN context : i < j => context[i].id < context[j].id

\* Another context of the same results, where a snapshot is what it was or also names results.
LmRedone(context, other, n) ==
  /\ DOMAIN other = DOMAIN context
  /\ \A i \in DOMAIN context :
       /\ other[i].id = context[i].id
       /\ other[i].snap = context[i].snap \/ other[i].snap \subseteq 0..n

LEMMA RedoneOrdered ==
  ASSUME NEW n \in Nat, NEW context, LmOrdered(context, n), NEW other \in Seq(LmResults),
         LmRedone(context, other, n)
  PROVE  LmOrdered(other, n)
<1>1. \A i \in DOMAIN other : other[i].id \in 1..n /\ other[i].snap \subseteq 0..n
  BY DEF LmOrdered, LmRedone
<1>2. \A i, j \in DOMAIN other : i < j => other[i].id < other[j].id
  BY DEF LmOrdered, LmRedone
<1> QED BY <1>1, <1>2 DEF LmOrdered

\* A context whose notes change is redone; so is one where a snapshot goes or comes.
LEMMA NoteRedone ==
  ASSUME NEW n \in Nat, NEW context, LmOrdered(context, n), NEW id, NEW note \in Nat, NEW other,
         other = [i \in DOMAIN context |-> IF context[i].id = id THEN [context[i] EXCEPT !.note = note]
                                           ELSE context[i]]
  PROVE  LmOrdered(other, n)
<1>1. context \in Seq(LmResults) /\ \A i \in DOMAIN context : context[i] \in LmResults
  BY DEF LmOrdered
<1>2. other \in Seq(LmResults)
  <2>1. Noted(context, id, note, other)
    BY <1>1, NoteIs, Zenon
  <2> QED BY <2>1 DEF Noted
<1>3. \A r \in LmResults : [r EXCEPT !.note = note].id = r.id /\ [r EXCEPT !.note = note].snap = r.snap
  BY DEF LmResults
<1>4. ASSUME NEW i \in DOMAIN context PROVE other[i].id = context[i].id /\ other[i].snap = context[i].snap
  <2>1. other[i] = context[i] \/ other[i] = [context[i] EXCEPT !.note = note]
    OBVIOUS
  <2> QED BY <1>1, <1>3, <2>1
<1>5. DOMAIN other = DOMAIN context
  OBVIOUS
<1> QED BY <1>2, <1>4, <1>5, RedoneOrdered DEF LmRedone

LEMMA SnapRedone ==
  ASSUME NEW n \in Nat, NEW context, LmOrdered(context, n), NEW id, NEW snap \in SUBSET (0..n), NEW other,
         other = [i \in DOMAIN context |-> IF context[i].id = id THEN [context[i] EXCEPT !.snap = snap]
                                           ELSE context[i]]
  PROVE  LmOrdered(other, n)
<1>1. context \in Seq(LmResults) /\ \A i \in DOMAIN context : context[i] \in LmResults
  BY DEF LmOrdered
<1>2. other \in Seq(LmResults)
  <2>1. snap \in SUBSET Nat
    OBVIOUS
  <2>2. Alike(context, other)
    BY <1>1, <2>1, SnapIs, Zenon
  <2> QED BY <2>2 DEF Alike
<1>3. \A r \in LmResults : [r EXCEPT !.snap = snap].id = r.id /\ [r EXCEPT !.snap = snap].snap = snap
  BY DEF LmResults
<1>4. ASSUME NEW i \in DOMAIN context
      PROVE  other[i].id = context[i].id /\ (other[i].snap = context[i].snap \/ other[i].snap \subseteq 0..n)
  <2>1. other[i] = context[i] \/ other[i] = [context[i] EXCEPT !.snap = snap]
    OBVIOUS
  <2> QED BY <1>1, <1>3, <2>1
<1>5. DOMAIN other = DOMAIN context
  OBVIOUS
<1> QED BY <1>2, <1>4, <1>5, RedoneOrdered DEF LmRedone

LEMMA OrderedSkeleton ==
  ASSUME NEW n \in Nat, NEW context, LmOrdered(context, n), NEW id
  PROVE  LmOrdered(Skeleton(context, id), n)
<1>1. PICK other : other = Skeleton(context, id)
  OBVIOUS
<1>2. other = [i \in DOMAIN context |-> IF context[i].id = id THEN [context[i] EXCEPT !.note = 0]
                                        ELSE context[i]]
  BY <1>1 DEF Skeleton, WithOf
<1>3. 0 \in Nat
  OBVIOUS
<1>4. LmOrdered(other, n)
  BY <1>2, <1>3, NoteRedone, Zenon
<1> QED BY <1>1, <1>4

LEMMA OrderedSummary ==
  ASSUME NEW n \in Nat, NEW context, LmOrdered(context, n), NEW since \in Nat,
         LmShape(context, n, since), NEW k \in DOMAIN context, ~context[k].done
  PROVE  LmOrdered(Summary(context, context[k].id), n)
<1>1. PICK other : other = Summary(context, context[k].id)
  OBVIOUS
<1>2. LmShape(other, n, since) /\ DOMAIN other = DOMAIN context
  BY <1>1, SummaryIs
<1>3. \A i \in DOMAIN context :
        other[i] = IF context[i].id = context[k].id
                   THEN [context[i] EXCEPT !.large = FALSE, !.note = 0, !.snap = {0},
                                           !.done = TRUE, !.lost = context[i].note]
                   ELSE context[i]
  BY <1>1 DEF Summary, WithOf, Unset
<1>4. \A r \in LmResults :
        LET s == [r EXCEPT !.large = FALSE, !.note = 0, !.snap = {0}, !.done = TRUE, !.lost = r.note]
        IN s.id = r.id /\ s.snap = {0}
  BY DEF LmResults
<1>5. {0} \subseteq 0..n /\ other \in Seq(LmResults)
  BY <1>2 DEF LmShape
<1>6. ASSUME NEW i \in DOMAIN context
      PROVE  other[i].id = context[i].id /\ (other[i].snap = context[i].snap \/ other[i].snap \subseteq 0..n)
  <2>1. context[i] \in LmResults
    BY DEF LmOrdered
  <2>2. CASE context[i].id = context[k].id
    <3>1. other[i].id = context[i].id /\ other[i].snap = {0}
      BY <1>3, <1>4, <2>1, <2>2
    <3> QED BY <1>5, <3>1
  <2>3. CASE context[i].id # context[k].id
    BY <1>3, <2>3
  <2> QED BY <2>2, <2>3
<1>7. LmRedone(context, other, n)
  BY <1>2, <1>6 DEF LmRedone
<1> QED BY <1>1, <1>5, <1>7, RedoneOrdered

\* The result that comes next is ordered after the others.
LEMMA OrderedAppend ==
  ASSUME NEW n \in Nat, NEW context, LmOrdered(context, n), NEW r \in LmResults, r.id = n + 1,
         r.snap \subseteq 0..n
  PROVE  LmOrdered(Append(context, r), n + 1)
<1>1. PICK c : c = Append(context, r)
  OBVIOUS
<1>2. context \in Seq(LmResults) /\ Len(context) \in Nat /\ DOMAIN context = 1..Len(context)
  BY DEF LmOrdered
<1>3. /\ c \in Seq(LmResults) /\ Len(c) = Len(context) + 1 /\ c[Len(context) + 1] = r
      /\ \A i \in 1..Len(context) : c[i] = context[i]
  BY <1>1, <1>2, AppendIs
<1>4. DOMAIN c = 1..(Len(context) + 1)
  BY <1>3
<1>5. 0..n \subseteq 0..(n + 1) /\ 1..n \subseteq 1..(n + 1)
  OBVIOUS
<1>6. \A i \in DOMAIN c : c[i].id \in 1..(n + 1) /\ c[i].snap \subseteq 0..(n + 1)
  <2> SUFFICES ASSUME NEW i \in DOMAIN c PROVE c[i].id \in 1..(n + 1) /\ c[i].snap \subseteq 0..(n + 1)
    OBVIOUS
  <2>1. CASE i \in 1..Len(context)
    <3>1. context[i].id \in 1..n /\ context[i].snap \subseteq 0..n
      BY <1>2, <2>1 DEF LmOrdered
    <3> QED BY <1>3, <1>5, <2>1, <3>1
  <2>2. CASE i = Len(context) + 1
    BY <1>3, <1>5, <2>2
  <2> QED BY <1>2, <1>4, <2>1, <2>2
<1>7. \A i, j \in DOMAIN c : i < j => c[i].id < c[j].id
  <2> SUFFICES ASSUME NEW i \in DOMAIN c, NEW j \in DOMAIN c, i < j PROVE c[i].id < c[j].id
    OBVIOUS
  <2>1. i \in 1..Len(context)
    BY <1>2, <1>4
  <2>2. context[i].id \in 1..n
    BY <1>2, <2>1 DEF LmOrdered
  <2>3. CASE j \in 1..Len(context)
    BY <1>2, <1>3, <2>1, <2>3 DEF LmOrdered
  <2>4. CASE j = Len(context) + 1
    BY <1>3, <2>1, <2>2, <2>4
  <2> QED BY <1>2, <1>4, <2>3, <2>4
<1> QED BY <1>1, <1>3, <1>6, <1>7 DEF LmOrdered

\* A stamped batch: the holders are results, and what is delivered was written.
LEMMA OrderedSnapped ==
  ASSUME NEW n \in Nat, NEW context, LmOrdered(context, n), context # <<>>, NEW shape,
         Snapped(context, shape), lmRuntime \in 0..n, lmSnapshot \subseteq 0..n
  PROVE  LmOrdered(lmContext', n) /\ lmRuntime' \in 0..n /\ lmSnapshot' \subseteq 0..n
<1>1. context \in Seq(LmResults) /\ Len(context) \in DOMAIN context
  BY DEF LmOrdered
<1>2. Material(context) \in SUBSET (0..n) /\ Newest(context) \in 0..n
  BY <1>1 DEF Material, ResultChars, LmOrdered, Newest
<1>3. CASE shape = "text" \/ Material(context) = lmSnapshot
  BY <1>3 DEF Snapped
<1>4. CASE ~(shape = "text" \/ Material(context) = lmSnapshot)
  <2>1. PICK bare : bare = Bare(context, lmRuntime)
    OBVIOUS
  <2>2. bare = [i \in DOMAIN context |-> IF context[i].id = lmRuntime THEN [context[i] EXCEPT !.snap = {0}]
                                         ELSE context[i]]
    BY <2>1 DEF Bare, WithOf, Unset
  <2>3. {0} \in SUBSET (0..n)
    OBVIOUS
  <2>4. LmOrdered(bare, n)
    BY <2>2, <2>3, SnapRedone, Zenon
  <2>5. PICK id, snap : id = Newest(context) /\ snap = Material(context)
    OBVIOUS
  <2>6. lmContext' = [i \in DOMAIN bare |-> IF bare[i].id = id THEN [bare[i] EXCEPT !.snap = snap]
                                             ELSE bare[i]]
    BY <1>4, <2>1, <2>5 DEF Snapped, WithOf
  <2>7. LmOrdered(lmContext', n)
    BY <1>2, <2>4, <2>5, <2>6, SnapRedone, ZenonT(60)
  <2>8. lmRuntime' = Newest(context) /\ lmSnapshot' = Material(context)
    BY <1>4 DEF Snapped
  <2> QED BY <1>2, <2>7, <2>8
<1> QED BY <1>3, <1>4

\* What a notice may be.
NoticeTyped(context, holder, sig, fp, n) ==
  LmOrdered(context, n) /\ context # <<>> /\ holder \in 0..n /\ sig \in 0..LmPayloads /\ fp \in Contents

LEMMA OrderedNotified ==
  ASSUME NEW n \in Nat, NEW c, LmOrdered(c, n), c # <<>>, LmTypeOK, lmHolder \in 0..n, NEW shape,
         NEW notice, notice = Notified(c, shape)
  PROVE  NoticeTyped(notice.context, notice.holder, notice.sig, notice.fp, n)
<1>1. /\ lmChannel \in Contents /\ lmChannel.payload \in 0..LmPayloads
      /\ lmSignature \in 0..LmPayloads /\ lmFp \in Contents /\ LmPayloads \in Nat
  BY LiveMetaAssumption DEF LmTypeOK, Contents, NoContent
<1>2. PICK bare : bare = Skeleton(c, lmHolder)
  OBVIOUS
<1>3. LmOrdered(bare, n) /\ bare # <<>>
  <2>1. LmOrdered(bare, n)
    BY <1>2, OrderedSkeleton
  <2>2. DOMAIN bare = DOMAIN c /\ DOMAIN c # {}
    BY <1>2 DEF Skeleton, WithOf, LmOrdered
  <2> QED BY <2>1, <2>2
<1>4. PICK moved : moved = Moved(c)
  OBVIOUS
<1>5. LmOrdered(moved, n) /\ moved # <<>>
  <2>1. PICK id, note : id = Newest(c) /\ note = Collected
    OBVIOUS
  <2>2. moved = [i \in DOMAIN bare |-> IF bare[i].id = id THEN [bare[i] EXCEPT !.note = note] ELSE bare[i]]
    BY <1>2, <1>4, <2>1 DEF Moved, WithOf
  <2>3. note \in Nat
    BY <1>1, <2>1 DEF Collected
  <2>4. LmOrdered(moved, n)
    BY <1>3, <2>2, <2>3, NoteRedone, Zenon
  <2>5. DOMAIN moved = DOMAIN bare /\ DOMAIN bare # {}
    BY <1>3, <2>2 DEF LmOrdered
  <2> QED BY <2>4, <2>5
<1>6. Newest(c) \in 0..n
  BY DEF Newest, LmOrdered
<1>7. Signed \in 0..LmPayloads /\ 0 \in 0..n /\ 0 \in 0..LmPayloads
  BY <1>1 DEF Signed, Collected
<1>8. \/ notice = [context |-> bare, holder |-> 0, sig |-> 0, fp |-> lmFp]
      \/ notice = [context |-> c, holder |-> lmHolder, sig |-> lmSignature, fp |-> lmFp]
      \/ notice = [context |-> c, holder |-> lmHolder, sig |-> lmSignature, fp |-> lmChannel]
      \/ notice = [context |-> moved, holder |-> Newest(c), sig |-> Signed, fp |-> lmChannel]
  BY <1>2, <1>4 DEF Notified
<1> QED BY <1>1, <1>3, <1>5, <1>6, <1>7, <1>8 DEF NoticeTyped

LEMMA OrderedStamped ==
  ASSUME LmTypeOK, lmCount \in Nat, NEW c, LmOrdered(c, lmCount + 1), c # <<>>, NEW shape, Stamped(c, shape),
         lmCount' = lmCount + 1, UNCHANGED <<lmChannel, lmLife>>
  PROVE  LmTypeOK' /\ LmOrdered(lmContext', lmCount')
<1>1. PICK n : n = lmCount + 1
  OBVIOUS
<1>2. n \in Nat /\ \A m : m \in 0..lmCount => m \in 0..n
  BY <1>1
<1>3. lmHolder \in 0..n /\ lmRuntime \in 0..n /\ lmSnapshot \subseteq 0..n
  BY <1>2 DEF LmTypeOK
<1>4. PICK notice : notice = Notified(c, shape)
  OBVIOUS
<1>5. LmOrdered(c, n)
  BY <1>1
<1>6. NoticeTyped(notice.context, notice.holder, notice.sig, notice.fp, n)
  BY <1>2, <1>3, <1>4, <1>5, OrderedNotified, Zenon
<1>7. /\ lmHolder' = notice.holder /\ lmSignature' = notice.sig /\ lmFp' = notice.fp
      /\ Snapped(notice.context, shape)
  BY <1>4 DEF Stamped
<1>8. LmOrdered(notice.context, n) /\ notice.context # <<>>
  BY <1>6 DEF NoticeTyped
<1>9. LmOrdered(lmContext', n) /\ lmRuntime' \in 0..n /\ lmSnapshot' \subseteq 0..n
  BY <1>2, <1>3, <1>7, <1>8, OrderedSnapped, Zenon
<1>10. lmHolder' \in 0..n /\ lmSignature' \in 0..LmPayloads /\ lmFp' \in Contents
  BY <1>6, <1>7 DEF NoticeTyped
<1>11. lmSince' \in 0..n /\ lmTurnovers' \in 0..LmTurnovers
       /\ lmChannel' \in Contents
  BY <1>2 DEF LmTypeOK, lmLife
<1>12. lmCount' = n
  BY <1>1
<1> QED BY <1>9, <1>10, <1>11, <1>12 DEF LmTypeOK, LmOrdered

LmTyped == LmInv /\ LmTypeOK

LEMMA TypedOrdered ==
  ASSUME LmTyped
  PROVE  /\ LmOrdered(lmContext, lmCount) /\ lmContext \in Seq(LmResults) /\ lmCount \in Nat
         /\ LmNumbers /\ LmShape(lmContext, lmCount, lmSince) /\ lmSince \in Nat /\ lmTurnovers \in Nat
  <1>1. lmContext \in Seq(LmResults) /\ lmCount \in Nat /\ LmNumbers /\ LmShape(lmContext, lmCount, lmSince)
        /\ lmSince \in Nat
    BY DEF LmTyped, LmInv, LmNumbers, LmShape
  <1>2. LmOrdered(lmContext, lmCount)
    BY <1>1 DEF LmTyped, LmTypeOK, LmOrdered
  <1>3. lmTurnovers \in Nat
    BY LiveMetaAssumption DEF LmTyped, LmTypeOK
  <1> QED BY <1>1, <1>2, <1>3

\* A new result after those of an ordered context.
LEMMA FreshOrdered ==
  ASSUME LmTyped, NEW large \in BOOLEAN, NEW context, LmOrdered(context, lmCount)
  PROVE  LmOrdered(Append(context, FreshPayload(large)), lmCount + 1) /\ Append(context, FreshPayload(large)) # <<>>
<1>1. LmNumbers /\ lmCount \in Nat
  BY TypedOrdered
<1>2. PICK fresh : fresh = FreshPayload(large)
  OBVIOUS
<1>3. fresh \in LmResults /\ fresh.id = lmCount + 1
  BY <1>1, <1>2, FreshIs
<1>4. fresh.snap \subseteq 0..lmCount
  BY <1>1, <1>2 DEF FreshPayload, Unset
<1>5. LmOrdered(Append(context, fresh), lmCount + 1)
  BY <1>1, <1>3, <1>4, OrderedAppend
<1>6. \A s \in Seq(LmResults) : Append(s, fresh) # <<>>
  OBVIOUS
<1> QED BY <1>2, <1>5, <1>6 DEF LmOrdered

\* The context at its places is in its order.
LEMMA KeptOnOrdered ==
  ASSUME LmTyped, NEW ids
  PROVE  LmOrdered(KeptOn(ids), lmCount)
<1> DEFINE places == {i \in DOMAIN lmContext : lmContext[i].id \in ids}
<1>1. LmOrdered(lmContext, lmCount) /\ lmContext \in Seq(LmResults) /\ Len(lmContext) \in Nat
      /\ DOMAIN lmContext = 1..Len(lmContext)
  BY TypedOrdered DEF LmOrdered
<1>2. places \in SUBSET (1..Len(lmContext)) /\ KeptOn(ids) = AtPlaces(lmContext, places)
  BY <1>1 DEF KeptOn
<1> HIDE DEF places
<1>3. PICK s : s = KeptOn(ids)
  OBVIOUS
<1>4. s \in Seq(LmResults) /\ \A i \in DOMAIN s : \E j \in DOMAIN lmContext : s[i] = lmContext[j]
  BY <1>1, <1>3, KeptOnIs
<1>5. s = [n \in 1..Cardinality(places) |-> lmContext[Place(places, n)]]
  BY <1>2, <1>3 DEF AtPlaces
<1>6. DOMAIN s = 1..Cardinality(places) /\ Cardinality(places) \in Nat
  <2>1. IsFiniteSet(1..Len(lmContext))
    BY <1>1, FS_Interval
  <2>2. IsFiniteSet(places)
    BY <1>2, <2>1, FS_Subset
  <2> QED BY <1>5, <2>2, FS_CardinalityType
<1>7. ASSUME NEW i \in DOMAIN s, NEW j \in DOMAIN s, i < j PROVE s[i].id < s[j].id
  <2>1. PICK a, b : a = Place(places, i) /\ b = Place(places, j)
    OBVIOUS
  <2>2. a \in places /\ Cardinality({k \in places : k <= a}) = i
    BY <1>1, <1>2, <1>6, <2>1, PlaceIs
  <2>3. b \in places /\ Cardinality({k \in places : k <= b}) = j
    BY <1>1, <1>2, <1>6, <2>1, PlaceIs
  <2>4. a < b
    <3> SUFFICES ASSUME ~(a < b) PROVE FALSE
      OBVIOUS
    <3>1. a \in Nat /\ b \in Nat /\ b <= a /\ i \in Nat /\ j \in Nat
      BY <1>2, <1>6, <2>2, <2>3
    <3>2. \A k \in places : k \in Nat
      BY <1>2
    <3>3. {k \in places : k <= b} \in SUBSET {k \in places : k <= a}
      BY <3>1, <3>2
    <3>4. IsFiniteSet({k \in places : k <= a})
      <4>1. IsFiniteSet(1..Len(lmContext))
        BY <1>1, FS_Interval
      <4>2. {k \in places : k <= a} \in SUBSET (1..Len(lmContext))
        BY <1>2
      <4> QED BY <4>1, <4>2, FS_Subset
    <3>5. Cardinality({k \in places : k <= b}) <= Cardinality({k \in places : k <= a})
      BY <3>3, <3>4, FS_Subset
    <3> QED BY <1>7, <2>2, <2>3, <3>1, <3>5
  <2>5. a \in DOMAIN lmContext /\ b \in DOMAIN lmContext
    BY <1>1, <1>2, <2>2, <2>3
  <2>6. s[i] = lmContext[a] /\ s[j] = lmContext[b]
    BY <1>5, <1>6, <2>1
  <2> QED BY <1>1, <2>4, <2>5, <2>6 DEF LmOrdered
<1>8. \A i \in DOMAIN s : s[i].id \in 1..lmCount /\ s[i].snap \subseteq 0..lmCount
  BY <1>1, <1>4 DEF LmOrdered
<1>9. LmOrdered(s, lmCount)
  BY <1>4, <1>7, <1>8 DEF LmOrdered
<1> QED BY <1>3, <1>9

LEMMA BatchTyped == ASSUME LmTyped, NEW shape, NEW large \in BOOLEAN, LmBatch(shape, large) PROVE LmTypeOK'
<1>1. PICK c : c = Append(lmContext, FreshPayload(large))
  OBVIOUS
<1>2. LmOrdered(c, lmCount + 1) /\ c # <<>> /\ lmCount \in Nat /\ LmTypeOK
  BY <1>1, TypedOrdered, FreshOrdered DEF LmTyped
<1>3. Stamped(c, shape) /\ lmCount' = lmCount + 1 /\ UNCHANGED <<lmChannel, lmLife>>
  BY <1>1 DEF LmBatch
<1> QED BY <1>2, <1>3, OrderedStamped

LEMMA SummarizeTyped == ASSUME LmTyped, NEW k \in DOMAIN lmContext, LmSummarize(k) PROVE LmTypeOK'
<1>1. PICK s : s = Summary(lmContext, lmContext[k].id)
  OBVIOUS
<1>2. PICK c : c = Append(s, FreshPayload(FALSE))
  OBVIOUS
<1>3. Stamped(c, "dict") /\ lmCount' = lmCount + 1 /\ ~lmContext[k].done /\ UNCHANGED <<lmChannel, lmLife>>
  BY <1>1, <1>2 DEF LmSummarize
<1>4. LmOrdered(s, lmCount) /\ lmCount \in Nat /\ LmTypeOK
  <2>1. LmOrdered(lmContext, lmCount) /\ lmCount \in Nat /\ lmSince \in Nat
        /\ LmShape(lmContext, lmCount, lmSince) /\ LmTypeOK
    BY TypedOrdered DEF LmTyped
  <2>2. LmOrdered(Summary(lmContext, lmContext[k].id), lmCount)
    BY <1>3, <2>1, OrderedSummary
  <2> QED BY <1>1, <2>1, <2>2
<1>5. LmOrdered(c, lmCount + 1) /\ c # <<>>
  <2>1. FALSE \in BOOLEAN
    OBVIOUS
  <2> QED BY <1>2, <1>4, <2>1, FreshOrdered
<1> QED BY <1>3, <1>4, <1>5, OrderedStamped

\* What is true of a type when the context is ordered.
LEMMA LmTypedBy ==
  ASSUME lmCount' \in Nat, LmOrdered(lmContext', lmCount'), lmHolder' \in 0..lmCount', lmRuntime' \in 0..lmCount',
         lmSignature' \in 0..LmPayloads, lmFp' \in Contents, lmSnapshot' \subseteq 0..lmCount',
         lmSince' \in 0..lmCount', lmTurnovers' \in 0..LmTurnovers,
         lmChannel' \in Contents
  PROVE  LmTypeOK'
BY DEF LmTypeOK, LmOrdered

LEMMA InjectTyped == ASSUME LmTyped, LmInject PROVE LmTypeOK'
<1>1. PICK pair : pair = [FreshPayload(FALSE) EXCEPT !.note = Collected, !.pair = TRUE]
  OBVIOUS
<1>2. PICK s : s = Skeleton(lmContext, lmHolder)
  OBVIOUS
<1>3. /\ lmContext' = Append(s, pair) /\ lmHolder' = pair.id /\ lmCount' = lmCount + 1
      /\ lmFp' = lmChannel /\ UNCHANGED <<lmChannel, lmSignature, lmRuntime, lmSnapshot, lmSince, lmTurnovers>>
  BY <1>1, <1>2 DEF LmInject, lmLife
<1>4. LmNumbers /\ lmCount \in Nat /\ LmOrdered(lmContext, lmCount) /\ LmTypeOK
  BY TypedOrdered DEF LmTyped
<1>5. pair \in LmResults /\ pair.id = lmCount + 1 /\ pair.snap \subseteq 0..lmCount
  <2>1. pair = [id |-> lmCount + 1, large |-> FALSE, note |-> lmChannel.payload, snap |-> {0},
                done |-> FALSE, lost |-> 0, pair |-> TRUE]
    BY <1>1 DEF FreshPayload, Unset, Collected
  <2>2. lmChannel.payload \in Nat /\ lmCount + 1 \in Nat /\ {0} \in SUBSET Nat /\ {0} \subseteq 0..lmCount
    BY <1>4 DEF LmNumbers, Written
  <2> QED BY <2>1, <2>2 DEF LmResults
<1>6. LmOrdered(s, lmCount)
  BY <1>2, <1>4, OrderedSkeleton
<1>7. LmOrdered(Append(s, pair), lmCount + 1)
  BY <1>4, <1>5, <1>6, OrderedAppend
<1>8. \A m : m \in 0..lmCount => m \in 0..(lmCount + 1)
  BY <1>4
<1>9. /\ lmHolder' \in 0..(lmCount + 1) /\ lmRuntime' \in 0..(lmCount + 1) /\ lmSince' \in 0..(lmCount + 1)
      /\ lmSnapshot' \subseteq 0..(lmCount + 1) /\ lmTurnovers' \in 0..LmTurnovers
      /\ lmSignature' \in 0..LmPayloads /\ lmFp' \in Contents
      /\ lmChannel' \in Contents
  <2>1. pair.id \in 0..(lmCount + 1)
    BY <1>4, <1>5
  <2> QED BY <1>3, <1>4, <1>8, <2>1 DEF LmTypeOK
<1> QED BY <1>3, <1>4, <1>7, <1>9, LmTypedBy

LEMMA ClearedTyped == ASSUME LmTyped, LmCleared PROVE LmTypeOK'
<1>1. /\ lmContext' = Skeleton(lmContext, lmHolder) /\ lmHolder' = 0 /\ lmFp' = NoContent
      /\ UNCHANGED <<lmChannel, lmSignature, lmRuntime, lmSnapshot, lmCount, lmSince, lmTurnovers>>
  BY DEF LmCleared, lmLife
<1>2. lmCount \in Nat /\ LmOrdered(lmContext, lmCount) /\ LmTypeOK /\ LmPayloads \in Nat
  BY TypedOrdered, LiveMetaAssumption DEF LmTyped
<1>3. LmOrdered(Skeleton(lmContext, lmHolder), lmCount)
  BY <1>2, OrderedSkeleton
<1>4. 0 \in 0..lmCount /\ NoContent \in Contents
  BY <1>2 DEF Contents
<1> QED BY <1>1, <1>2, <1>3, <1>4, LmTypedBy DEF LmTypeOK

LEMMA TurnoverTyped ==
  ASSUME LmTyped, Turnover, UNCHANGED lmChannel, lmSignature' \in {lmSignature, 0},
         lmCount' \in Nat, lmCount <= lmCount', LmOrdered(lmContext', lmCount'), lmRuntime' \in 0..lmCount',
         lmSnapshot' \subseteq 0..lmCount'
  PROVE  LmTypeOK'
<1>1. /\ lmTurnovers < LmTurnovers /\ lmTurnovers' = lmTurnovers + 1 /\ lmSince' = lmCount
      /\ lmHolder' = 0 /\ lmFp' = NoContent
  BY DEF Turnover
<1>2. lmCount \in Nat /\ LmTypeOK /\ LmPayloads \in Nat /\ LmTurnovers \in Nat /\ lmTurnovers \in Nat
  BY TypedOrdered, LiveMetaAssumption DEF LmTyped
<1>3. lmSince' \in 0..lmCount' /\ lmHolder' \in 0..lmCount' /\ lmFp' \in Contents
      /\ lmTurnovers' \in 0..LmTurnovers
  BY <1>1, <1>2 DEF Contents
<1>4. lmSignature' \in 0..LmPayloads
      /\ lmChannel' \in Contents
  BY <1>2 DEF LmTypeOK
<1> QED BY <1>3, <1>4, LmTypedBy

LEMMA AnyMoltTyped == ASSUME LmTyped, NEW ids, LmMolt(ids) \/ LmForcedMolt(ids) PROVE LmTypeOK'
<1>1. PICK c : c = Append(KeptOn(ids), FreshPayload(FALSE))
  OBVIOUS
<1>2. lmCount \in Nat /\ LmTypeOK
  BY TypedOrdered DEF LmTyped
<1>3. LmOrdered(c, lmCount + 1) /\ c # <<>>
  <2>1. FALSE \in BOOLEAN
    OBVIOUS
  <2> QED BY <1>1, <2>1, KeptOnOrdered, FreshOrdered
<1>4. /\ Turnover /\ UNCHANGED <<lmChannel, lmSignature>> /\ lmCount' = lmCount + 1
      /\ Snapped(c, "dict") \/ (lmContext' = c /\ UNCHANGED <<lmRuntime, lmSnapshot>>)
  BY <1>1 DEF LmMolt, LmForcedMolt
<1>5. PICK n : n = lmCount + 1
  OBVIOUS
<1>6. n \in Nat /\ lmCount <= n /\ \A m : m \in 0..lmCount => m \in 0..n
  BY <1>2, <1>5
<1>7. lmRuntime \in 0..n /\ lmSnapshot \subseteq 0..n
  BY <1>2, <1>6 DEF LmTypeOK
<1>8. LmOrdered(lmContext', n) /\ lmRuntime' \in 0..n /\ lmSnapshot' \subseteq 0..n
  <2>1. CASE Snapped(c, "dict")
    BY <1>3, <1>5, <1>6, <1>7, <2>1, OrderedSnapped
  <2>2. CASE lmContext' = c /\ UNCHANGED <<lmRuntime, lmSnapshot>>
    BY <1>3, <1>5, <1>7, <2>2
  <2> QED BY <1>4, <2>1, <2>2
<1>9. lmCount' = n /\ lmSignature' \in {lmSignature, 0}
  BY <1>4, <1>5
<1> QED BY <1>4, <1>6, <1>8, <1>9, TurnoverTyped

LEMMA RestartTyped == ASSUME LmTyped, LmRestart PROVE LmTypeOK'
<1>1. /\ Turnover /\ lmSignature' = 0 /\ lmRuntime' = 0 /\ lmSnapshot' = {0}
      /\ UNCHANGED <<lmChannel, lmContext, lmCount>>
  BY DEF LmRestart, Unset
<1>2. lmCount \in Nat /\ LmOrdered(lmContext, lmCount)
  BY TypedOrdered
<1>3. 0 \in 0..lmCount /\ {0} \subseteq 0..lmCount /\ lmCount <= lmCount
  BY <1>2
<1> QED BY <1>1, <1>2, <1>3, TurnoverTyped

LEMMA WriteTyped == ASSUME LmTyped, NEW content \in Contents, LmWrite(content) PROVE LmTypeOK'
  BY DEF LmTyped, LmTypeOK, LmWrite, lmNotice, lmLife

LEMMA LmTypes == LmSpec => []LmTypeOK
<1>1. LmInit => LmTypeOK
  BY LiveMetaAssumption DEF LmInit, LmTypeOK, Contents, Unset
<1>2. LmTyped /\ [LmNext]_lmVars => LmTypeOK'
  <2> SUFFICES ASSUME LmTyped, [LmNext]_lmVars PROVE LmTypeOK'
    OBVIOUS
  <2>1. CASE UNCHANGED lmVars
    BY <2>1 DEF LmTyped, LmTypeOK, lmVars
  <2>2. CASE LmNext
    BY <2>2, BatchTyped, SummarizeTyped, InjectTyped, ClearedTyped, RestartTyped, AnyMoltTyped, WriteTyped
    DEF LmNext
  <2> QED BY <2>1, <2>2
<1> QED BY <1>1, <1>2, LmAlways, PTL DEF LmSpec, LmTyped

-----------------------------------------------------------------------------
(* Pressure: the event                                                     *)

\* Every request is answered once at most, so that the totals, the streak and
\* the rounds stay within the requests; a rebuild that waits was not told.
PsCounts ==
  /\ psRequests \in 0..PsRounds /\ psRebuilds \in Nat
  /\ psCalls \in 0..psRequests /\ psStreak \in 0..psRequests
  /\ psPhase = "wait" => psCalls < psRequests /\ psStreak < psRequests
  /\ psMissed <= psCalls
PsInv == PsTypeOK /\ PsCounts /\ ToldOnce

LEMMA PsStart == PsInit => PsInv
<1> SUFFICES ASSUME PsInit PROVE PsInv
  OBVIOUS
<1>1. DOMAIN psReported = {} /\ psPending.id = 0 /\ psStamp.event.id = 0
      /\ psStamp.missed = 0 /\ psStamp.calls = 0
  BY DEF PsInit, NoEvent, NoStamp
<1>4. PsTypeOK
  <2>1. psPending.id \in 0..psRebuilds /\ DOMAIN psReported \subseteq 1..psRebuilds
    BY <1>1 DEF PsInit
  <2>2. /\ psMeasured \in 0..psRequests /\ psCalls \in 0..psRequests /\ psMissed \in 0..PsBudget
        /\ psStreak \in 0..PsRounds /\ psLastRound \in 0..PsRounds /\ psLogged \in 0..PsRounds
        /\ psDue \in 0..PsBatch /\ psTurnovers \in 0..PsMolts
    BY PressureAssumption DEF PsInit
  <2> QED BY <2>1, <2>2 DEF PsInit, PsTypeOK
<1>2. PsCounts
  BY PressureAssumption DEF PsInit, PsCounts
<1>3. ToldOnce
  BY <1>1 DEF ToldOnce
<1> QED BY <1>4, <1>2, <1>3 DEF PsInv

\* A new event has a number no result told of.
EventIsNew ==
  /\ psRebuilds' \in Nat /\ psDelayed' \in BOOLEAN /\ psPending'.id \in 0..psRebuilds'
  /\ DOMAIN psReported \subseteq 1..psRebuilds'
  /\ psPending'.id # 0 => psPending'.id \notin DOMAIN psReported

LEMMA RebuiltKeeps == ASSUME PsInv, NEW kind, Rebuilt(kind) PROVE EventIsNew
<1>1. psRebuilds' = psRebuilds + 1 /\ psDelayed' = FALSE /\ psPending'.id = psRebuilds + 1
  BY DEF Rebuilt
<1>2. psRebuilds \in Nat /\ DOMAIN psReported \subseteq 1..psRebuilds
  BY DEF PsInv, PsTypeOK, PsCounts
<1>3. psRebuilds + 1 \in Nat /\ psRebuilds + 1 \in 0..(psRebuilds + 1)
      /\ psRebuilds + 1 \notin 1..psRebuilds /\ 1..psRebuilds \subseteq 1..(psRebuilds + 1)
  BY <1>2
<1>4. DOMAIN psReported \subseteq 1..psRebuilds'
  BY <1>1, <1>2, <1>3
<1> QED BY <1>1, <1>2, <1>3, <1>4 DEF EventIsNew

LEMMA SendKeeps == PsInv /\ PsSend => PsInv'
<1> SUFFICES ASSUME PsInv, PsSend PROVE PsInv'
  OBVIOUS
<1>1. /\ psRequests' = psRequests + 1 /\ psRequests < PsRounds /\ psPhase' = "wait"
      /\ psStamp' = NoStamp
      /\ UNCHANGED <<psUsage, psMeasured, psCalls, psMissed, psServed, psStreak, psLastRound,
                     psLogged, psDue, psReported, psTurnovers>>
      /\ Rebuilt("automatic") \/ UNCHANGED <<psRebuilds, psPending, psDelayed>>
  BY DEF PsSend, psMeter, psReminder
<1>2. EventIsNew
  <2>1. CASE Rebuilt("automatic")
    BY <2>1, RebuiltKeeps
  <2>2. CASE UNCHANGED <<psRebuilds, psPending, psDelayed>>
    BY <2>2 DEF PsInv, PsTypeOK, PsCounts, ToldOnce, EventIsNew
  <2> QED BY <1>1, <2>1, <2>2
<1>3. PsTypeOK'
  BY <1>1, <1>2, PressureAssumption DEF EventIsNew, PsInv, PsTypeOK, PsCounts
<1>4. PsCounts'
  BY <1>1, <1>2, PressureAssumption DEF EventIsNew, PsInv, PsTypeOK, PsCounts
<1>5. ToldOnce'
  BY <1>1, <1>2 DEF EventIsNew, PsInv, ToldOnce, NoStamp, NoEvent
<1> QED BY <1>3, <1>4, <1>5 DEF PsInv

LEMMA AnswerKeeps ==
  ASSUME PsInv, NEW band \in Bands, NEW missed \in BOOLEAN, NEW n \in 0..PsBatch,
         PsAnswer(band, missed, n) \/ PsAnswerBlind(n)
  PROVE  PsInv'
<1>1. /\ psPhase = "wait" /\ psPhase' = "tools" /\ psDue' = n /\ psCalls' = psCalls + 1
      /\ (psMissed' = psMissed) \/ (psMissed < PsBudget /\ psMissed' = psMissed + 1)
      /\ {psUsage', psServed'} \subseteq Bands \cup {"none"} \cup {psUsage}
      /\ psMeasured' \in {psMeasured, psRequests}
      /\ psStreak' \in {psStreak, psStreak + 1, 0} /\ psLastRound' \in {psLastRound, psCalls + 1}
      /\ UNCHANGED <<psDelayed, psPending, psRebuilds, psLogged, psStamp, psReported, psRequests,
                     psTurnovers>>
  BY DEF PsAnswer, PsAnswerBlind, RoundNoted, psReminder, psTold
<1>2. PsTypeOK'
  BY <1>1, PressureAssumption DEF PsInv, PsTypeOK, PsCounts
<1>3. PsCounts'
  BY <1>1, PressureAssumption DEF PsInv, PsTypeOK, PsCounts
<1>4. ToldOnce'
  BY <1>1 DEF PsInv, ToldOnce
<1> QED BY <1>2, <1>3, <1>4 DEF PsInv

LEMMA RebuildKeeps == PsInv /\ (PsSummarize \/ PsRebuild) => PsInv'
<1> SUFFICES ASSUME PsInv, PsSummarize \/ PsRebuild PROVE PsInv'
  OBVIOUS
<1>1. /\ UNCHANGED <<psPhase, psUsage, psMeasured, psCalls, psMissed, psServed, psStreak,
                     psLastRound, psLogged, psDue, psStamp, psReported, psRequests, psTurnovers>>
      /\ \/ \E kind \in {"automatic", "manual"} : Rebuilt(kind)
         \/ psDelayed' = TRUE /\ UNCHANGED <<psRebuilds, psPending>>
  BY DEF PsSummarize, PsRebuild, psMeter, psReminder, psTold
<1>2. EventIsNew
  <2>1. ASSUME NEW kind, Rebuilt(kind) PROVE EventIsNew
    BY <2>1, RebuiltKeeps 
  <2>2. CASE psDelayed' = TRUE /\ UNCHANGED <<psRebuilds, psPending>>
    BY <2>2 DEF PsInv, PsTypeOK, PsCounts, ToldOnce, EventIsNew
  <2> QED BY <1>1, <2>1, <2>2
<1>3. PsTypeOK'
  BY <1>1, <1>2 DEF EventIsNew, PsInv, PsTypeOK
<1>4. PsCounts'
  BY <1>1, <1>2 DEF EventIsNew, PsInv, PsCounts
<1>5. ToldOnce'
  BY <1>1, <1>2 DEF EventIsNew, PsInv, ToldOnce
<1> QED BY <1>3, <1>4, <1>5 DEF PsInv

\* A stamp takes the event that waits, and tells of it for the first time.
LEMMA StampKeeps == PsInv /\ PsStamp => PsInv'
<1> SUFFICES ASSUME PsInv, PsStamp PROVE PsInv'
  OBVIOUS
<1>1. /\ psPhase = "tools" /\ psDue > 0 /\ psDue' = psDue - 1 /\ psPending' = NoEvent
      /\ psLogged' \in {psLogged, psLastRound}
      /\ psReported' = IF psPending.id = 0 THEN psReported
                       ELSE [r \in DOMAIN psReported \cup {psPending.id} |->
                              (IF r \in DOMAIN psReported THEN psReported[r] ELSE 0)
                              + (IF r = psPending.id THEN 1 ELSE 0)]
      /\ UNCHANGED <<psPhase, psUsage, psMeasured, psCalls, psMissed, psServed, psStreak,
                     psLastRound, psDelayed, psRebuilds, psRequests, psTurnovers>>
  BY DEF PsStamp, Working, Taken, Emitted, psMeter, psReminder
<1>2. psStamp'.event = psPending /\ psStamp'.calls = psCalls /\ psStamp'.missed = psMissed
  BY DEF PsStamp, Stamp, Told, Economy, NoStamp
<1>3. /\ DOMAIN psReported \subseteq 1..psRebuilds /\ psPending.id \in 0..psRebuilds
      /\ psRebuilds \in Nat /\ \A r \in DOMAIN psReported : psReported[r] = 1
      /\ psPending.id # 0 => psPending.id \notin DOMAIN psReported
  BY DEF PsInv, PsTypeOK, PsCounts, ToldOnce
<1>4. /\ DOMAIN psReported' \subseteq 1..psRebuilds /\ \A r \in DOMAIN psReported' : psReported'[r] = 1
      /\ psPending.id # 0 => psPending.id \in DOMAIN psReported'
  <2>1. CASE psPending.id = 0
    BY <1>1, <1>3, <2>1
  <2>2. CASE psPending.id # 0
    BY <1>1, <1>3, <2>2
  <2> QED BY <2>1, <2>2
<1>5. PsTypeOK'
  BY <1>1, <1>4, PressureAssumption DEF PsInv, PsTypeOK, PsCounts, NoEvent
<1>6. PsCounts'
  BY <1>1 DEF PsInv, PsCounts
<1>7. ToldOnce'
  BY <1>1, <1>2, <1>4 DEF PsInv, PsCounts, ToldOnce, NoEvent
<1> QED BY <1>5, <1>6, <1>7 DEF PsInv

\* What the rest of the actions change: a total or a streak goes back to zero, an event goes.
Subdued ==
  /\ psRequests' = psRequests /\ psRebuilds' = psRebuilds
  /\ psStamp' = psStamp /\ psReported' = psReported
  /\ psPhase' \in {"send", "tools"}
  /\ psUsage' \in Bands \cup {"none"} /\ psServed' \in Bands \cup {"none"}
  /\ psMeasured' \in 0..psRequests
  /\ psDelayed' \in BOOLEAN /\ psDue' \in 0..PsBatch
  /\ psPending' \in {psPending, NoEvent} /\ psTurnovers' \in 0..PsMolts
  /\ \/ psCalls' = psCalls /\ psMissed' = psMissed
     \/ psCalls' = 0 /\ psMissed' = 0
  /\ psStreak' \in {psStreak, 0} /\ psLastRound' \in {psLastRound, 0}
  /\ psLogged' \in {psLogged, 0}

LEMMA SubduedKeeps == PsInv /\ Subdued => PsInv'
<1> SUFFICES ASSUME PsInv, Subdued PROVE PsInv'
  OBVIOUS
<1>1. NoEvent.id = 0
  BY DEF NoEvent
<1>2. PsTypeOK'
  BY <1>1, PressureAssumption DEF PsInv, PsTypeOK, PsCounts, Subdued
<1>3. PsCounts'
  BY PressureAssumption DEF PsInv, PsTypeOK, PsCounts, Subdued
<1>4. ToldOnce'
  BY <1>1 DEF PsInv, ToldOnce, Subdued
<1> QED BY <1>2, <1>3, <1>4 DEF PsInv

LEMMA OthersKeep ==
  ASSUME PsInv,
         \/ PsFail \/ PsPlain \/ PsRestart
         \/ \E band \in {"low", "mid"} : PsMolt(band)
         \/ \E over \in BOOLEAN : PsBatchEnds(over)
  PROVE  PsInv'
<1>1. PsFail => Subdued
  BY PressureAssumption DEF PsInv, PsTypeOK, PsCounts, PsFail, Subdued, psMeter, psReminder, psAdapter, psTold
<1>2. PsPlain => Subdued
  BY PressureAssumption
  DEF PsInv, PsTypeOK, PsCounts, PsPlain, Subdued, psMeter, psReminder, psAdapter, psTold, Working
<1>3. PsRestart => Subdued
  <2> SUFFICES ASSUME PsRestart PROVE Subdued
    OBVIOUS
  <2>1. 0 \in 0..psRequests /\ 0 \in 0..PsBatch /\ psTurnovers' \in 0..PsMolts
    BY PressureAssumption DEF PsInv, PsTypeOK, PsCounts, PsRestart
  <2> QED BY <2>1 DEF PsRestart, Subdued, psTold
<1>4. ASSUME NEW band \in {"low", "mid"}, PsMolt(band) PROVE Subdued
  <2>1. psRequests \in 0..psRequests /\ psTurnovers' \in 0..PsMolts
    BY <1>4, PressureAssumption DEF PsInv, PsTypeOK, PsCounts, PsMolt
  <2>2. psDue \in 0..PsBatch
    BY DEF PsInv, PsTypeOK
  <2> QED BY <1>4, <2>1, <2>2 DEF PsMolt, Subdued, psReminder, psTold, Working, Bands
<1>5. ASSUME NEW over \in BOOLEAN, PsBatchEnds(over) PROVE Subdued
  BY <1>5 DEF PsInv, PsTypeOK, PsCounts, PsBatchEnds, Subdued, psMeter, psReminder, psAdapter, psTold
<1> QED BY <1>1, <1>2, <1>3, <1>4, <1>5, SubduedKeeps

LEMMA PsAlways == PsSpec => []PsInv
<1>1. PsInit => PsInv
  BY PsStart
<1>2. PsInv /\ [PsNext]_psVars => PsInv'
  <2> SUFFICES ASSUME PsInv, [PsNext]_psVars PROVE PsInv'
    OBVIOUS
  <2>1. CASE UNCHANGED psVars
    BY <2>1 DEF PsInv, PsTypeOK, PsCounts, ToldOnce, psVars
  <2>2. CASE PsNext
    <3>1. CASE PsSend \/ PsSummarize \/ PsRebuild \/ PsStamp
      BY <3>1, SendKeeps, RebuildKeeps, StampKeeps
    <3>2. ASSUME NEW band \in Bands, NEW missed \in BOOLEAN, NEW n \in 0..PsBatch,
                 PsAnswer(band, missed, n)
          PROVE  PsInv'
      BY <3>2, AnswerKeeps
    <3>3. ASSUME NEW n \in 0..PsBatch, PsAnswerBlind(n) PROVE PsInv'
      BY <3>3, AnswerKeeps DEF Bands
    <3> QED BY <2>2, <3>1, <3>2, <3>3, OthersKeep DEF PsNext
  <2> QED BY <2>1, <2>2
<1> QED BY <1>1, <1>2, PTL DEF PsSpec

-----------------------------------------------------------------------------
(* SoulFlow: the voices                                                    *)

Firing == {"gather", "publish", "clear", "release", "unsaid"}
SoulPlaces == {"none", "armed", "waits", "whisper", "gate", "lock", "over", "mute"} \cup Firing
SfRecords == [fire : Nat \ {0}, outcome : {"ok", "empty", "error"}]
Late == {"publish", "clear"}

SfCore ==
  /\ sfAt \in [Fires -> SoulPlaces] /\ sfId \in [Fires -> Nat]
  /\ sfLock \in {0} \cup Fires /\ sfChannel \in Nat
  /\ sfRecord \in Seq(SfRecords)

\* The lock is held by the one fire past it, ids are given in turn, and by it alone.
SfHeld ==
  /\ \A i \in Fires : sfAt[i] \in Firing <=> sfLock = i
  /\ \A i \in Fires : sfAt[i] \notin Firing \cup {"over", "mute"} => sfId[i] = 0
  /\ \A i \in Fires : sfLock = i => sfId[i] # 0
  /\ \A i, j \in Fires : i # j /\ sfId[i] # 0 => sfId[i] # sfId[j]
  /\ \A i, j \in Fires : sfLock = i => sfId[j] <= sfId[i]
  /\ \E b \in Nat : \A i \in Fires : sfId[i] <= b

\* Records and the channel bear the ids of fires.
Taker(n) == \E i \in Fires : sfId[i] = n
SfNamed ==
  /\ \A r \in Range(sfRecord) : Taker(r.fire)
  /\ sfChannel # 0 => Taker(sfChannel)

\* A record newer than the channel is of the fire at hand, unless showing it failed
\* or its thread was killed, or could not say that showing it failed.
Excused(r) ==
  \/ Recorded(r.fire, "error") \in Range(sfRecord)
  \/ \E i \in Fires : sfId[i] = r.fire /\ sfAt[i] \in {"unsaid", "mute"}
AtHand(r) == \E i \in Fires : sfAt[i] \in Late /\ sfId[i] = r.fire
SfNewest ==
  /\ \A r \in Range(sfRecord) : sfChannel # 0 /\ r.fire > sfChannel => Excused(r) \/ AtHand(r)
  /\ \A r \in Range(sfRecord), i \in Fires : sfAt[i] = "gather" => sfId[i] # r.fire

SfInv == SfCore /\ SfHeld /\ SfNamed /\ SfNewest

\* The least unused fire is unused, and the last id is the greatest.
LEMMA UnusedIs == ASSUME SoulAssumption, SfCore, NEW i \in Unused PROVE i \in Fires /\ sfAt[i] = "none"
<1> DEFINE T == {j \in Fires : sfAt[j] = "none"}
<1>1. T # {} /\ T \in SUBSET Nat
  BY SoulAssumption DEF Unused, Fires
<1>2. PICK k \in T : \A j \in T : k <= j
  BY <1>1, Least
<1>3. k \in Fires /\ sfAt[k] = "none" /\ \A j \in 1..(k - 1) : sfAt[j] # "none"
  BY <1>2, SoulAssumption DEF Fires
<1>4. i = CHOOSE k1 \in Fires : sfAt[k1] = "none" /\ \A j \in 1..(k1 - 1) : sfAt[j] # "none"
  BY DEF Unused
<1> QED BY <1>3, <1>4

LEMMA LastIdIs ==
  ASSUME SfCore, SfHeld
  PROVE  /\ LastId \in Nat /\ \A i \in Fires : sfId[i] <= LastId
         /\ LastId = 0 \/ \E i \in Fires : LastId = sfId[i]
<1> DEFINE m == {sfId[i] : i \in Fires} \cup {0}
           T == {n \in Nat : \A y \in m : y <= n}
<1>1. PICK b \in Nat : \A i \in Fires : sfId[i] <= b
  BY DEF SfHeld
<1>2. m \in SUBSET Nat /\ b \in T
  BY <1>1 DEF SfCore
<1>3. PICK x \in T : \A y \in T : x <= y
  BY <1>2, Least
<1>4. x \in m
  <2> SUFFICES ASSUME x \notin m PROVE FALSE
    OBVIOUS
  <2>1. x \in Nat /\ \A y \in m : y <= x
    BY <1>3
  <2>2. x # 0 /\ \A y \in m : y \in Nat /\ y # x
    BY <1>2
  <2> HIDE DEF m
  <2>3. x - 1 \in Nat /\ \A y \in m : y <= x - 1
    BY <2>1, <2>2
  <2>4. x - 1 \in T
    BY <2>3
  <2> QED BY <1>3, <2>1, <2>4
<1>5. \E y \in m : \A z \in m : z <= y
  BY <1>3, <1>4
<1>6. LastId = CHOOSE y \in m : \A z \in m : z <= y
  BY DEF LastId
<1> HIDE DEF m
<1>7. LastId \in m /\ \A z \in m : z <= LastId
  BY <1>5, <1>6
<1> QED BY <1>2, <1>7 DEF m

LEMMA RangeAppend ==
  ASSUME NEW S, NEW s \in Seq(S), NEW e \in S
  PROVE  Append(s, e) \in Seq(S) /\ Range(Append(s, e)) = Range(s) \cup {e}
<1>1. /\ Append(s, e) \in Seq(S) /\ DOMAIN s = 1..Len(s) /\ Len(s) \in Nat
      /\ DOMAIN Append(s, e) = 1..(Len(s) + 1)
      /\ \A i \in 1..Len(s) : Append(s, e)[i] = s[i]
      /\ Append(s, e)[Len(s) + 1] = e
  OBVIOUS
<1>2. 1..(Len(s) + 1) = 1..Len(s) \cup {Len(s) + 1}
  BY <1>1
<1> QED BY <1>1, <1>2 DEF Range

LEMMA SfStart == SfInit => SfInv
<1> SUFFICES ASSUME SfInit PROVE SfInv
  OBVIOUS
<1>1. SfCore
  BY SoulAssumption DEF SfInit, SfCore, SoulPlaces, Fires
<1>2. Range(sfRecord) = {}
  BY DEF SfInit, Range
<1>3. SfHeld
  <2>1. \E b \in Nat : \A i \in Fires : sfId[i] <= b
    BY DEF SfInit
  <2> QED BY <2>1, SoulAssumption DEF SfInit, SfHeld, Firing, Fires
<1>4. SfNamed
  BY <1>2 DEF SfInit, SfNamed
<1>5. SfNewest
  BY <1>2 DEF SfInit, SfNewest
<1> QED BY <1>1, <1>3, <1>4, <1>5 DEF SfInv

\* What happens on the way to the lock and after it, to a question, and to the channel
\* when the agent dismisses it.
Quiet ==
  /\ UNCHANGED <<sfLock, sfId, sfRecord>> /\ sfChannel' \in {sfChannel, 0}
  /\ sfAt' \in [Fires -> SoulPlaces]
  /\ \A i \in Fires : \/ sfAt'[i] = sfAt[i]
                      \/ /\ sfAt[i] \notin Firing \cup {"over", "mute"}
                         /\ sfAt'[i] \notin Firing \cup {"mute"}

LEMMA QuietKeeps == SfInv /\ Quiet => SfInv'
<1> SUFFICES ASSUME SfInv, Quiet PROVE SfInv'
  OBVIOUS
<1>1. SfCore'
  BY DEF SfInv, SfCore, Quiet
<1>2. \A i \in Fires : /\ sfAt'[i] \in Firing <=> sfAt[i] \in Firing
                       /\ sfAt[i] = "mute" => sfAt'[i] = "mute"
                       /\ sfAt[i] \in Firing => sfAt'[i] = sfAt[i]
                       /\ sfAt'[i] \notin Firing \cup {"over", "mute"} =>
                            sfAt[i] \notin Firing \cup {"over", "mute"}
  BY DEF Quiet, Firing
<1>3. SfHeld'
  BY <1>2 DEF SfInv, SfHeld, Quiet
<1>4. SfNamed'
  BY DEF SfInv, SfNamed, Taker, Quiet
<1>5. \A r : (Excused(r) => Excused(r)') /\ (AtHand(r) => AtHand(r)')
  BY <1>2 DEF Excused, AtHand, Quiet, Late, Firing
<1>6. SfNewest'
  BY <1>2, <1>5 DEF SfInv, SfNewest, Quiet, Firing
<1> QED BY <1>1, <1>3, <1>4, <1>6 DEF SfInv

LEMMA QuietAgent ==
  ASSUME SfInv,
         SfRests \/ SfConfigures \/ SfFlowCall \/ SfDismisses \/ \E to \in {"active", "asleep"} : SfLeaves(to)
  PROVE  Quiet
<1>1. sfAt \in [Fires -> SoulPlaces] /\ "armed" \in SoulPlaces /\ "waits" \in SoulPlaces
  BY DEF SfInv, SfCore, SoulPlaces
<1>2. \A i \in Unused : i \in Fires /\ sfAt[i] = "none"
  BY UnusedIs, SoulAssumption DEF SfInv
<1>3. ASSUME NEW i \in Unused, Arms(i) \/ Moves(i, "waits")
      PROVE  /\ sfAt' \in [Fires -> SoulPlaces]
             /\ \A j \in Fires : \/ sfAt'[j] = sfAt[j]
                                 \/ /\ sfAt[j] \notin Firing \cup {"over", "mute"}
                                    /\ sfAt'[j] \notin Firing \cup {"mute"}
  <2>1. CASE Arms(i)
    BY <1>1, <1>2, <2>1 DEF Arms, Cancelled, Firing, SoulPlaces
  <2>2. CASE Moves(i, "waits")
    BY <1>1, <1>2, <2>2 DEF Moves, Firing, SoulPlaces
  <2> QED BY <1>3, <2>1, <2>2
<1>4. CASE SfRests \/ SfConfigures \/ SfFlowCall
  BY <1>3, <1>4 DEF SfRests, SfConfigures, SfFlowCall, Quiet, sfAsk
<1>5. CASE SfDismisses
  BY <1>1, <1>5 DEF SfDismisses, Quiet
<1>6. ASSUME NEW to, SfLeaves(to) PROVE Quiet
  <2>1. /\ UNCHANGED <<sfLock, sfId, sfRecord, sfChannel>>
        /\ (sfAt' = Cancelled(sfAt)) \/ (sfAt' = sfAt)
    BY <1>6 DEF SfLeaves
  <2>2. \A j \in Fires : sfAt'[j] = sfAt[j] \/ (sfAt[j] = "armed" /\ sfAt'[j] = "over")
    <3>1. CASE sfAt' = Cancelled(sfAt)
      BY <1>1, <3>1 DEF Cancelled
    <3> QED BY <2>1, <3>1
  <2>3. sfAt' \in [Fires -> SoulPlaces]
    <3>1. CASE sfAt' = Cancelled(sfAt)
      BY <1>1, <3>1 DEF Cancelled, SoulPlaces
    <3> QED BY <1>1, <2>1, <3>1
  <2> QED BY <2>1, <2>2, <2>3 DEF Quiet, Firing
<1> QED BY <1>4, <1>5, <1>6

LEMMA QuietFire ==
  ASSUME SfInv, NEW i \in Fires,
         \/ SfRings(i) \/ SfWhispers(i) \/ SfWaited(i) \/ SfGate(i)
         \/ SfLocks(i) /\ ~FireFree
  PROVE  Quiet
<1>1. sfAt \in [Fires -> SoulPlaces]
  BY DEF SfInv, SfCore
<1>2. /\ UNCHANGED <<sfLock, sfId, sfRecord, sfChannel>>
      /\ sfAt[i] \in {"armed", "whisper", "waits", "gate", "lock"}
      /\ \E at \in {"whisper", "gate", "over", "lock"} : Moves(i, at)
  BY DEF SfRings, SfWhispers, SfWaited, SfGate, SfLocks
<1> QED BY <1>1, <1>2 DEF Quiet, Moves, Firing, SoulPlaces

LEMMA QuietQuestion ==
  ASSUME SfInv,
         \/ SfAsks \/ SfTakes \/ SfStarts \/ SfAnswers \/ SfUntakes \/ SfNotes \/ UNCHANGED sfVars
  PROVE  Quiet
BY DEF SfAsks, SfTakes, SfStarts, SfAnswers, SfUntakes, SfNotes, sfVars, sfFlow, Quiet, SfInv, SfCore

\* A fire that takes the lock has the next id, which no record bears.
LEMMA LockKeeps == ASSUME SfInv, NEW i \in Fires, SfLocks(i), FireFree PROVE SfInv'
<1> DEFINE n == LastId + 1
<1>1. n \in Nat /\ n # 0 /\ \A j \in Fires : sfId[j] \in Nat /\ sfId[j] < n
  BY LastIdIs DEF SfInv, SfCore
<1>2. /\ sfAt[i] = "lock" /\ sfLock = 0 /\ sfLock' = i /\ sfId' = [sfId EXCEPT ![i] = n]
      /\ sfAt' = [sfAt EXCEPT ![i] = "gather"] /\ UNCHANGED <<sfRecord, sfChannel>>
  BY DEF SfLocks, FireFree, Moves
<1> HIDE DEF n
<1>3. SfCore'
  BY <1>1, <1>2 DEF SfInv, SfCore, SoulPlaces, Firing
<1>4. 0 \notin Fires /\ sfId[i] = 0
  BY <1>2 DEF SfInv, SfHeld, Firing, Fires
<1>5. /\ sfId'[i] = n /\ sfAt'[i] = "gather"
      /\ \A j \in Fires \ {i} : sfId'[j] = sfId[j] /\ sfAt'[j] = sfAt[j] /\ sfAt[j] \notin Firing
  BY <1>2, <1>4 DEF SfInv, SfHeld, SfCore
<1>6. SfHeld'
  <2>1. \A j \in Fires : sfId'[j] <= n
    BY <1>1, <1>5
  <2>2. \A j \in Fires : sfAt'[j] \in Firing <=> sfLock' = j
    BY <1>2, <1>5 DEF Firing
  <2>3. \A j \in Fires : sfAt'[j] \notin Firing \cup {"over", "mute"} => sfId'[j] = 0
    BY <1>5 DEF SfInv, SfHeld, Firing
  <2>4. \A j, k \in Fires : j # k /\ sfId'[j] # 0 => sfId'[j] # sfId'[k]
    BY <1>1, <1>5 DEF SfInv, SfHeld
  <2> QED BY <1>1, <1>2, <1>5, <2>1, <2>2, <2>3, <2>4 DEF SfHeld
<1>7. \A m \in Nat \ {0} : Taker(m) => Taker(m)' /\ m < n
  BY <1>1, <1>4, <1>5 DEF Taker
<1>8. /\ sfRecord' = sfRecord /\ sfChannel' = sfChannel /\ sfChannel \in Nat
      /\ \A r \in Range(sfRecord) : r.fire \in Nat \ {0} /\ Taker(r.fire)
  <2>1. \A r \in Range(sfRecord) : r \in SfRecords
    BY DEF SfInv, SfCore, Range
  <2> QED BY <1>2, <2>1 DEF SfInv, SfCore, SfNamed, SfRecords
<1>9. SfNamed'
  BY <1>7, <1>8 DEF SfInv, SfNamed
<1>10. \A r : (Excused(r) => Excused(r)') /\ (AtHand(r) => AtHand(r)')
  BY <1>2, <1>5, <1>8 DEF Excused, AtHand, Late
<1>11. SfNewest'
  <2>1. ASSUME NEW r \in Range(sfRecord'), NEW j \in Fires, sfAt'[j] = "gather"
        PROVE  sfId'[j] # r.fire
    <3>1. j = i
      BY <1>5, <2>1 DEF Firing
    <3>2. r.fire \in Nat /\ r.fire < n
      BY <1>7, <1>8
    <3> QED BY <1>1, <1>5, <3>1, <3>2
  <2> QED BY <1>8, <1>10, <2>1 DEF SfInv, SfNewest
<1> QED BY <1>3, <1>6, <1>9, <1>11 DEF SfInv

\* The holder of the lock goes on: nothing changes but where it is.
LEMMA HeldKeeps ==
  ASSUME SfInv, NEW i \in Fires, sfAt[i] \in Firing, UNCHANGED <<sfLock, sfId>>,
         NEW at \in Firing, Moves(i, at)
  PROVE  /\ SfHeld' /\ sfLock = i /\ sfAt' \in [Fires -> SoulPlaces] /\ sfAt'[i] = at
         /\ \A j \in Fires \ {i} : sfAt'[j] = sfAt[j] /\ sfAt[j] \notin Firing
         /\ sfId[i] \in Nat \ {0} /\ \A j \in Fires : sfId[j] \in Nat /\ sfId[j] <= sfId[i]
<1>1. /\ sfAt' \in [Fires -> SoulPlaces] /\ sfAt'[i] = at
      /\ \A j \in Fires \ {i} : sfAt'[j] = sfAt[j]
  BY DEF SfInv, SfCore, Moves, SoulPlaces
<1>2. /\ sfLock = i /\ \A j \in Fires \ {i} : sfAt[j] \notin Firing
      /\ sfId[i] \in Nat \ {0} /\ \A j \in Fires : sfId[j] \in Nat /\ sfId[j] <= sfId[i]
  BY DEF SfInv, SfCore, SfHeld
<1>3. SfHeld'
  BY <1>1, <1>2 DEF SfInv, SfHeld
<1> QED BY <1>1, <1>2, <1>3

LEMMA GatherKeeps == ASSUME SfInv, NEW i \in Fires, SfGathers(i) PROVE SfInv'
<1>1. PICK outcome \in {"ok", "empty"} :
        /\ Moves(i, IF outcome = "ok" THEN "publish" ELSE "clear")
        /\ \/ sfRecord' = Append(sfRecord, Recorded(sfId[i], outcome))
           \/ UNCHANGED sfRecord
  BY DEF SfGathers
<1>2. sfAt[i] = "gather" /\ UNCHANGED <<sfLock, sfId, sfChannel>>
  BY DEF SfGathers
<1> DEFINE at == IF outcome = "ok" THEN "publish" ELSE "clear"
<1>3. at \in Late /\ at \in Firing /\ Moves(i, at)
  BY <1>1 DEF Late, Firing
<1> HIDE DEF at
<1>4. /\ SfHeld' /\ sfLock = i /\ sfAt' \in [Fires -> SoulPlaces] /\ sfAt'[i] = at
      /\ \A j \in Fires \ {i} : sfAt'[j] = sfAt[j] /\ sfAt[j] \notin Firing
      /\ sfId[i] \in Nat \ {0} /\ \A j \in Fires : sfId[j] \in Nat /\ sfId[j] <= sfId[i]
  BY <1>2, <1>3, HeldKeeps DEF Firing
<1>5. /\ sfRecord' \in Seq(SfRecords)
      /\ Range(sfRecord) \subseteq Range(sfRecord')
      /\ Range(sfRecord') \subseteq Range(sfRecord) \cup {Recorded(sfId[i], outcome)}
  <2>1. Recorded(sfId[i], outcome) \in SfRecords
    BY <1>4 DEF Recorded, SfRecords
  <2>2. CASE UNCHANGED sfRecord
    BY <2>2 DEF SfInv, SfCore
  <2> HIDE DEF Recorded
  <2>3. CASE sfRecord' = Append(sfRecord, Recorded(sfId[i], outcome))
    BY <2>1, <2>3, RangeAppend DEF SfInv, SfCore
  <2> QED BY <1>1, <2>2, <2>3
<1>6. SfCore'
  BY <1>2, <1>4, <1>5 DEF SfInv, SfCore
<1>7. SfNamed'
  BY <1>2, <1>5 DEF SfInv, SfNamed, Taker, Recorded
<1>8. SfNewest'
  <2>1. \A r : Excused(r) => Excused(r)'
    BY <1>2, <1>4, <1>5 DEF Excused, Firing
  <2>2. \A r : AtHand(r) => AtHand(r)'
    BY <1>2, <1>3, <1>4 DEF AtHand
  <2>3. AtHand(Recorded(sfId[i], outcome))'
    BY <1>2, <1>3, <1>4 DEF AtHand, Recorded
  <2>4. \A j \in Fires : sfAt'[j] # "gather"
    BY <1>3, <1>4 DEF Late, Firing
  <2> QED BY <1>2, <1>5, <2>1, <2>2, <2>3, <2>4 DEF SfInv, SfNewest
<1> QED BY <1>4, <1>6, <1>7, <1>8 DEF SfInv

\* What is shown is the newest there is.
LEMMA ShowKeeps == ASSUME SfInv, NEW i \in Fires, SfShows(i) PROVE SfInv'
<1>1. /\ sfAt[i] \in {"publish", "clear"} /\ Moves(i, "release")
      /\ UNCHANGED <<sfLock, sfId, sfRecord>> /\ sfChannel' \in {0, sfId[i]}
  BY DEF SfShows
<1>2. /\ SfHeld' /\ sfLock = i /\ sfAt' \in [Fires -> SoulPlaces] /\ sfAt'[i] = "release"
      /\ \A j \in Fires \ {i} : sfAt'[j] = sfAt[j] /\ sfAt[j] \notin Firing
      /\ sfId[i] \in Nat \ {0} /\ \A j \in Fires : sfId[j] \in Nat /\ sfId[j] <= sfId[i]
  BY <1>1, HeldKeeps DEF Firing
<1>3. SfCore'
  BY <1>1, <1>2 DEF SfInv, SfCore
<1>4. SfNamed'
  BY <1>1 DEF SfInv, SfNamed, Taker
<1>5. SfNewest'
  <2>1. \A r \in Range(sfRecord) : r.fire \in Nat /\ r.fire <= sfId[i]
    BY <1>2 DEF SfInv, SfNamed, Taker
  <2>2. \A j \in Fires : sfAt'[j] # "gather"
    BY <1>2 DEF Firing
  <2>3. \A r \in Range(sfRecord) : ~(r.fire > sfId[i])
    BY <1>2, <2>1
  <2> QED BY <1>1, <2>2, <2>3 DEF SfNewest
<1> QED BY <1>2, <1>3, <1>4, <1>5 DEF SfInv

LEMMA ShowFailKeeps == ASSUME SfInv, NEW i \in Fires, SfShowFails(i) PROVE SfInv'
<1> DEFINE e == Recorded(sfId[i], "error")
<1>1. /\ sfAt[i] \in {"publish", "clear"} /\ UNCHANGED <<sfLock, sfId, sfChannel>>
      /\ \E at \in {"release", "unsaid"} : Moves(i, at)
      /\ \/ Moves(i, "release") /\ sfRecord' = Append(sfRecord, e)
         \/ Moves(i, "unsaid") /\ UNCHANGED sfRecord
  BY DEF SfShowFails
<1>2. /\ SfHeld' /\ sfLock = i /\ sfAt' \in [Fires -> SoulPlaces] /\ sfAt'[i] \in {"release", "unsaid"}
      /\ \A j \in Fires \ {i} : sfAt'[j] = sfAt[j] /\ sfAt[j] \notin Firing
      /\ sfId[i] \in Nat \ {0} /\ \A j \in Fires : sfId[j] \in Nat /\ sfId[j] <= sfId[i]
  BY <1>1, HeldKeeps DEF Firing
<1>3. e \in SfRecords /\ e.fire = sfId[i]
      /\ e = Recorded(e.fire, "error")
  BY <1>2 DEF Recorded, SfRecords
<1> HIDE DEF e
<1>4. /\ sfRecord' \in Seq(SfRecords)
      /\ Range(sfRecord) \subseteq Range(sfRecord') /\ Range(sfRecord') \subseteq Range(sfRecord) \cup {e}
      /\ e \in Range(sfRecord') \/ sfAt'[i] = "unsaid"
  <2>1. CASE sfRecord' = Append(sfRecord, e)
    BY <2>1, <1>3, RangeAppend DEF SfInv, SfCore
  <2>2. CASE Moves(i, "unsaid") /\ UNCHANGED sfRecord
    BY <2>2 DEF SfInv, SfCore, Moves
  <2> QED BY <1>1, <2>1, <2>2
<1>5. SfCore'
  BY <1>1, <1>2, <1>4 DEF SfInv, SfCore
<1>6. SfNamed'
  BY <1>1, <1>3, <1>4 DEF SfInv, SfNamed, Taker
<1>7. SfNewest'
  <2>1. \A r : Excused(r) => Excused(r)'
    BY <1>1, <1>2, <1>4 DEF Excused, Firing
  <2>2. \A r : r.fire = sfId[i] => Excused(r)'
    BY <1>1, <1>3, <1>4 DEF Excused
  <2>3. \A r : AtHand(r) => r.fire = sfId[i]
    BY <1>2 DEF AtHand, Late, Firing
  <2>4. \A j \in Fires : sfAt'[j] # "gather"
    BY <1>2 DEF Firing
  <2> QED BY <1>1, <1>3, <1>4, <2>1, <2>2, <2>3, <2>4 DEF SfInv, SfNewest
<1> QED BY <1>2, <1>5, <1>6, <1>7 DEF SfInv

LEMMA ReleaseKeeps == ASSUME SfInv, NEW i \in Fires, SfReleases(i) PROVE SfInv'
<1>1. /\ sfAt[i] \in {"release", "unsaid"} /\ sfLock' = 0
      /\ Moves(i, IF sfAt[i] = "release" THEN "over" ELSE "mute")
      /\ UNCHANGED <<sfId, sfRecord, sfChannel>>
  BY DEF SfReleases
<1>2. /\ sfAt' \in [Fires -> SoulPlaces] /\ 0 \notin Fires
      /\ sfAt'[i] = IF sfAt[i] = "release" THEN "over" ELSE "mute"
      /\ \A j \in Fires \ {i} : sfAt'[j] = sfAt[j]
  BY <1>1 DEF SfInv, SfCore, Moves, SoulPlaces, Fires
<1>3. \A j \in Fires \ {i} : sfAt[j] \notin Firing
  BY <1>1 DEF SfInv, SfHeld, Firing
<1>4. SfCore'
  BY <1>1, <1>2 DEF SfInv, SfCore
<1>5. SfHeld'
  BY <1>1, <1>2, <1>3 DEF SfInv, SfHeld, Firing
<1>6. SfNamed'
  BY <1>1 DEF SfInv, SfNamed, Taker
<1>7. \A r : (Excused(r) => Excused(r)') /\ (AtHand(r) => AtHand(r)')
  BY <1>1, <1>2 DEF Excused, AtHand, Late
<1>8. SfNewest'
  BY <1>1, <1>2, <1>7 DEF SfInv, SfNewest
<1> QED BY <1>4, <1>5, <1>6, <1>8 DEF SfInv

\* A crash kills whoever had the lock.
LEMMA SoulCrashKeeps == ASSUME SoulAssumption, SfInv, SfCrash PROVE SfInv'
<1>1. PICK i \in Unused :
        sfAt' = [j \in Fires |-> IF j = i THEN "armed"
                                 ELSE IF sfAt[j] \in {"none", "over"} THEN sfAt[j]
                                 ELSE "mute"]
  BY DEF SfCrash
<1>2. i \in Fires /\ sfAt[i] = "none" /\ 0 \notin Fires
  BY UnusedIs DEF SfInv, Fires
<1>3. sfLock' = 0 /\ UNCHANGED <<sfId, sfRecord, sfChannel>>
  BY DEF SfCrash
<1>4. /\ sfAt' \in [Fires -> SoulPlaces]
      /\ \A j \in Fires : /\ sfAt'[j] \in {"none", "armed", "over", "mute"}
                          /\ sfAt[j] \in Firing \cup {"mute"} => sfAt'[j] = "mute"
                          /\ sfAt'[j] \notin Firing \cup {"over", "mute"} =>
                               sfAt[j] \notin Firing \cup {"over", "mute"}
  BY <1>1, <1>2 DEF SfInv, SfCore, Firing, SoulPlaces
<1>5. SfCore'
  BY <1>3, <1>4 DEF SfInv, SfCore
<1>6. SfHeld'
  BY <1>2, <1>3, <1>4 DEF SfInv, SfHeld, Firing
<1>7. SfNamed'
  BY <1>3 DEF SfInv, SfNamed, Taker
<1>8. \A r : Excused(r) \/ AtHand(r) => Excused(r)'
  BY <1>3, <1>4 DEF Excused, AtHand, Late, Firing
<1>9. SfNewest'
  BY <1>3, <1>4, <1>8 DEF SfInv, SfNewest
<1> QED BY <1>5, <1>6, <1>7, <1>9 DEF SfInv

LEMMA SfAlways == SfSpec => []SfInv
<1>1. SfInit => SfInv
  BY SfStart
<1>2. SfInv /\ [SfNext]_sfVars => SfInv'
  <2> SUFFICES ASSUME SfInv, [SfNext]_sfVars PROVE SfInv'
    OBVIOUS
  <2>1. ASSUME NEW i \in Fires, SfRings(i) \/ SfWhispers(i) \/ SfWaited(i) \/ SfGate(i) \/ SfLocks(i)
        PROVE  SfInv'
    BY <2>1, QuietKeeps, QuietFire, LockKeeps
  <2>2. ASSUME NEW i \in Fires, SfGathers(i) \/ SfShows(i) \/ SfShowFails(i) \/ SfReleases(i)
        PROVE  SfInv'
    BY <2>2, GatherKeeps, ShowKeeps, ShowFailKeeps, ReleaseKeeps
  <2>3. CASE \/ SfRests \/ SfConfigures \/ SfFlowCall \/ SfDismisses
             \/ \E to \in {"active", "asleep"} : SfLeaves(to)
    BY <2>3, QuietKeeps, QuietAgent
  <2>4. CASE \/ SfAsks \/ SfTakes \/ SfStarts \/ SfAnswers \/ SfUntakes \/ SfNotes
             \/ UNCHANGED sfVars
    BY <2>4, QuietKeeps, QuietQuestion
  <2>5. CASE SfCrash
    BY <2>5, SoulCrashKeeps, SoulAssumption
  <2> QED BY <2>1, <2>2, <2>3, <2>4, <2>5 DEF SfNext
<1> QED BY <1>1, <1>2, PTL DEF SfSpec

\* The channel shows the voices of the last fire that was recorded, whatever crosses it,
\* fails or is killed.
THEOREM VoicesLast == SfSpec => []VoicesAreLast
<1>1. SfInv => VoicesAreLast
  <2> SUFFICES ASSUME SfInv, sfLock = 0, sfChannel # 0, NEW r \in Range(sfRecord),
                      r.fire > sfChannel
               PROVE  \/ Recorded(r.fire, "error") \in Range(sfRecord)
                      \/ \E i \in Fires : sfId[i] = r.fire /\ sfAt[i] = "mute"
    BY DEF VoicesAreLast
  <2>1. ~AtHand(r) /\ \A i \in Fires : sfAt[i] # "unsaid"
    BY DEF SfInv, SfHeld, AtHand, Late, Firing, Fires
  <2> QED BY <2>1 DEF SfInv, SfNewest, Excused
<1> QED BY <1>1, SfAlways, PTL

\* A fire's id is not above the number of ids given.
IdsGiven(ids) == {j \in Fires : ids[j] # 0}
SfCounted == \A i \in Fires : sfId[i] <= Cardinality(IdsGiven(sfId))

SfBounded ==
  /\ sfState \in {"active", "idle", "asleep"} /\ sfTimer \in {0} \cup Fires /\ sfFaults \in 0..SfFaults
  /\ sfRecord \in Seq([fire : 1..SfFires, outcome : {"ok", "empty", "error"}])
  /\ sfChannel \in 0..SfFires
SfAskBounded ==
  /\ {sfInquiry, sfTaken, sfBtw, sfAsked} \subseteq 0..SfQuestions
  /\ sfMirror \in {"nothing", "heartbeat", "mirror", "answered", "dead"}

LEMMA GivenIs ==
  ASSUME SfInv, SfCounted
  PROVE  /\ IsFiniteSet(IdsGiven(sfId)) /\ Cardinality(IdsGiven(sfId)) \in 0..SfFires
         /\ \A i \in Fires : sfId[i] \in 0..SfFires
<1>1. IsFiniteSet(Fires) /\ Cardinality(Fires) = SfFires
  BY SoulAssumption, FS_Interval DEF Fires
<1>2. IdsGiven(sfId) \in SUBSET Fires
  BY DEF IdsGiven
<1>3. IsFiniteSet(IdsGiven(sfId)) /\ Cardinality(IdsGiven(sfId)) <= SfFires
  BY <1>1, <1>2, FS_Subset
<1>4. Cardinality(IdsGiven(sfId)) \in Nat
  BY <1>3, FS_CardinalityType
<1>5. \A i \in Fires : sfId[i] \in Nat
  BY DEF SfInv, SfCore
<1> QED BY <1>3, <1>4, <1>5, SoulAssumption DEF SfCounted

LEMMA CountedKeeps == ASSUME SfInv, SfCounted, [SfNext]_sfVars PROVE SfCounted'
<1>1. CASE UNCHANGED sfId
  BY <1>1 DEF SfCounted, IdsGiven
<1>2. ASSUME NEW i \in Fires, SfLocks(i), FireFree PROVE SfCounted'
  <2>1. PICK n : n = LastId + 1
    OBVIOUS
  <2>2. sfId' = [sfId EXCEPT ![i] = n] /\ sfAt[i] = "lock"
    BY <1>2, <2>1 DEF SfLocks
  <2>3. sfId \in [Fires -> Nat] /\ sfId[i] = 0 /\ LastId \in Nat
    BY <2>2, LastIdIs DEF SfInv, SfCore, SfHeld, Firing
  <2>4. sfId'[i] = n /\ \A j \in Fires \ {i} : sfId'[j] = sfId[j]
    BY <2>2, <2>3
  <2>5. IdsGiven(sfId') = IdsGiven(sfId) \cup {i} /\ i \notin IdsGiven(sfId)
    BY <2>1, <2>3, <2>4 DEF IdsGiven
  <2>6. PICK c : c = Cardinality(IdsGiven(sfId))
    OBVIOUS
  <2>7. Cardinality(IdsGiven(sfId')) = c + 1 /\ c \in Nat
    <3>1. IsFiniteSet(IdsGiven(sfId)) /\ c \in Nat
      BY <2>6, GivenIs, SoulAssumption
    <3>2. PICK given : given = IdsGiven(sfId)
      OBVIOUS
    <3>3. Cardinality(given \cup {i}) = Cardinality(given) + 1
      BY <2>5, <3>1, <3>2, FS_AddElement
    <3> QED BY <2>5, <2>6, <3>1, <3>2, <3>3
  <2>8. LastId <= c
    <3>1. LastId = 0 \/ \E j \in Fires : LastId = sfId[j]
      BY LastIdIs DEF SfInv
    <3> QED BY <2>6, <2>7, <3>1 DEF SfCounted
  <2>9. \A j \in Fires : sfId'[j] <= c + 1
    <3>1. \A j \in Fires : sfId[j] <= c /\ sfId[j] \in Nat
      BY <2>3, <2>6 DEF SfCounted
    <3> QED BY <2>1, <2>3, <2>4, <2>7, <2>8, <3>1
  <2> QED BY <2>7, <2>9 DEF SfCounted
<1>3. UNCHANGED sfId \/ \E i \in Fires : SfLocks(i) /\ FireFree
  BY DEF SfNext, sfVars, sfFlow, SfRests, SfLeaves, SfConfigures, SfFlowCall, SfDismisses, SfRings, SfWhispers,
     SfWaited, SfGate, SfLocks, SfGathers, SfShows, SfShowFails, SfReleases, SfAsks, SfTakes, SfStarts,
     SfAnswers, SfUntakes, SfNotes, SfCrash
<1> QED BY <1>1, <1>2, <1>3

\* A fire that has the lock has an id, and records it.
LEMMA RecordBounded ==
  ASSUME SfInv, SfCounted, NEW i \in Fires, sfAt[i] \in Firing, NEW outcome \in {"ok", "empty", "error"},
         NEW records \in Seq([fire : 1..SfFires, outcome : {"ok", "empty", "error"}])
  PROVE  /\ sfId[i] \in 1..SfFires
         /\ Append(records, Recorded(sfId[i], outcome)) \in
              Seq([fire : 1..SfFires, outcome : {"ok", "empty", "error"}])
<1>1. sfId[i] \in 0..SfFires
  BY GivenIs
<1>2. sfId[i] # 0
  BY DEF SfInv, SfHeld
<1>3. sfId[i] \in 1..SfFires
  BY <1>1, <1>2, SoulAssumption
<1>4. Recorded(sfId[i], outcome) \in [fire : 1..SfFires, outcome : {"ok", "empty", "error"}]
  BY <1>3 DEF Recorded
<1> QED BY <1>3, <1>4

LEMMA BoundedKeeps == ASSUME SfInv, SfCounted, SfBounded, [SfNext]_sfVars PROVE SfBounded'
<1> USE SoulAssumption
<1>0. \A n \in 0..SfFaults : n < SfFaults => n + 1 \in 0..SfFaults
  OBVIOUS
<1>1. CASE SfRests \/ SfConfigures \/ SfFlowCall
  <2>1. \A i \in Unused : i \in Fires
    BY UnusedIs DEF SfInv
  <2> QED BY <1>1, <2>1 DEF SfBounded, SfRests, SfConfigures, SfFlowCall, Arms
<1>2. ASSUME NEW to \in {"active", "asleep"}, SfLeaves(to) PROVE SfBounded'
  BY <1>2 DEF SfBounded, SfLeaves
<1>3. CASE SfDismisses
  BY <1>3 DEF SfBounded, SfDismisses
<1>4. ASSUME NEW i \in Fires, SfRings(i) \/ SfWhispers(i) \/ SfWaited(i) \/ SfGate(i) \/ SfLocks(i) \/ SfReleases(i)
      PROVE  SfBounded'
  <2>1. UNCHANGED <<sfState, sfRecord, sfChannel, sfFaults>> /\ sfTimer' \in {sfTimer, 0}
    BY <1>4 DEF SfRings, SfWhispers, SfWaited, SfGate, SfLocks, SfReleases
  <2> QED BY <2>1 DEF SfBounded
<1>5. ASSUME NEW i \in Fires, SfGathers(i) PROVE SfBounded'
  <2>1. sfAt[i] \in Firing /\ UNCHANGED <<sfState, sfTimer, sfChannel>>
    BY <1>5 DEF SfGathers, Firing
  <2>2. \/ \E outcome \in {"ok", "empty"} : sfRecord' = Append(sfRecord, Recorded(sfId[i], outcome)) /\ UNCHANGED sfFaults
        \/ sfFaults < SfFaults /\ sfFaults' = sfFaults + 1 /\ UNCHANGED sfRecord
    BY <1>5 DEF SfGathers, SoulFault
  <2>3. sfRecord' \in Seq([fire : 1..SfFires, outcome : {"ok", "empty", "error"}])
    BY <2>1, <2>2, RecordBounded DEF SfBounded
  <2>4. sfFaults' \in 0..SfFaults
    BY <1>0, <2>2 DEF SfBounded
  <2> QED BY <2>1, <2>3, <2>4 DEF SfBounded
<1>6. ASSUME NEW i \in Fires, SfShows(i) PROVE SfBounded'
  <2>1. sfChannel' \in {sfId[i], 0} /\ UNCHANGED <<sfState, sfTimer, sfRecord, sfFaults>>
    BY <1>6 DEF SfShows
  <2>2. sfId[i] \in 0..SfFires
    BY GivenIs
  <2> QED BY <2>1, <2>2 DEF SfBounded
<1>7. ASSUME NEW i \in Fires, SfShowFails(i) PROVE SfBounded'
  <2>1. /\ sfAt[i] \in Firing /\ UNCHANGED <<sfState, sfTimer, sfChannel>>
        /\ sfRecord' = Append(sfRecord, Recorded(sfId[i], "error")) \/ UNCHANGED sfRecord
        /\ sfFaults < SfFaults /\ sfFaults' = sfFaults + 1
    BY <1>7 DEF SfShowFails, Firing, SoulFault
  <2>2. sfRecord' \in Seq([fire : 1..SfFires, outcome : {"ok", "empty", "error"}])
    BY <2>1, RecordBounded DEF SfBounded
  <2> QED BY <1>0, <2>1, <2>2 DEF SfBounded
<1>8. CASE SfCrash
  <2>1. \A i \in Unused : i \in Fires
    BY UnusedIs DEF SfInv
  <2> QED BY <1>0, <1>8, <2>1 DEF SfBounded, SfCrash, SoulFault
<1>9. CASE UNCHANGED <<sfFlow, sfFaults>>
  BY <1>9 DEF SfBounded, sfFlow
<1>10. \/ SfRests \/ (\E to \in {"active", "asleep"} : SfLeaves(to)) \/ SfConfigures \/ SfFlowCall \/ SfDismisses
       \/ \E i \in Fires : \/ SfRings(i) \/ SfWhispers(i) \/ SfWaited(i) \/ SfGate(i) \/ SfLocks(i)
                           \/ SfGathers(i) \/ SfShows(i) \/ SfShowFails(i) \/ SfReleases(i)
       \/ SfCrash \/ UNCHANGED <<sfFlow, sfFaults>>
  BY DEF SfNext, sfVars, SfAsks, SfTakes, SfStarts, SfAnswers, SfUntakes, SfNotes
<1> QED BY <1>1, <1>2, <1>3, <1>4, <1>5, <1>6, <1>7, <1>8, <1>9, <1>10

LEMMA AskBoundedKeeps == ASSUME SfAskBounded, [SfNext]_sfVars PROVE SfAskBounded'
<1>1. CASE UNCHANGED sfAsk
  BY <1>1 DEF SfAskBounded, sfAsk
<1>2. CASE SfAsks
  <2>1. sfAsked \in 0..SfQuestions /\ sfAsked < SfQuestions
    BY <1>2 DEF SfAskBounded, SfAsks
  <2>2. sfAsked + 1 \in 0..SfQuestions
    BY <2>1, SoulAssumption
  <2> QED BY <1>2, <2>2 DEF SfAskBounded, SfAsks
<1>3. CASE SfTakes \/ SfStarts \/ SfAnswers \/ SfUntakes \/ SfNotes
  <2>1. 0 \in 0..SfQuestions
    BY SoulAssumption
  <2> QED BY <1>3, <2>1 DEF SfAskBounded, SfTakes, SfStarts, SfAnswers, SfUntakes, SfNotes, Voices
<1>4. CASE SfCrash
  BY <1>4 DEF SfAskBounded, SfCrash
<1>5. UNCHANGED sfAsk \/ SfAsks \/ SfTakes \/ SfStarts \/ SfAnswers \/ SfUntakes \/ SfNotes \/ SfCrash
  BY DEF SfNext, sfVars, SfRests, SfLeaves, SfConfigures, SfFlowCall, SfDismisses, SfRings, SfWhispers,
     SfWaited, SfGate, SfLocks, SfGathers, SfShows, SfShowFails, SfReleases
<1> QED BY <1>1, <1>2, <1>3, <1>4, <1>5

LEMMA SfTypes == SfSpec => []SfTypeOK
<1>1. SfInit => SfCounted /\ SfBounded /\ SfAskBounded
  <2> SUFFICES ASSUME SfInit PROVE SfCounted /\ SfBounded /\ SfAskBounded
    OBVIOUS
  <2>1. \A i \in Fires : sfId[i] = 0
    BY DEF SfInit
  <2>2. IdsGiven(sfId) = {}
    BY <2>1 DEF IdsGiven
  <2>3. SfCounted
    BY <2>1, <2>2, FS_EmptySet DEF SfCounted
  <2>4. SfBounded /\ SfAskBounded
    BY SoulAssumption DEF SfInit, SfBounded, SfAskBounded, Fires
  <2> QED BY <2>3, <2>4
<1>2. SfInv /\ SfCounted /\ SfBounded /\ SfAskBounded /\ [SfNext]_sfVars => (SfCounted /\ SfBounded /\ SfAskBounded)'
  BY CountedKeeps, BoundedKeeps, AskBoundedKeeps
<1>3. SfInv /\ SfCounted /\ SfBounded /\ SfAskBounded => SfTypeOK
  <2> SUFFICES ASSUME SfInv, SfCounted, SfBounded, SfAskBounded PROVE SfTypeOK
    OBVIOUS
  <2>1. sfId \in [Fires -> 0..SfFires]
    BY GivenIs DEF SfInv, SfCore
  <2>2. sfAt \in [Fires -> {"none", "armed", "waits", "whisper", "gate", "lock", "gather",
                            "publish", "clear", "release", "unsaid", "over", "mute"}]
    BY DEF SfInv, SfCore, SoulPlaces, Firing
  <2> QED BY <2>1, <2>2 DEF SfInv, SfCore, SfBounded, SfAskBounded, SfTypeOK
<1> QED BY <1>1, <1>2, <1>3, SfAlways, PTL DEF SfSpec

-----------------------------------------------------------------------------
(* ChatDesk: repeats and marks                                             *)

DkEntries == [id : Nat, chat : Chats, mine : BOOLEAN, told : BOOLEAN, renewed : BOOLEAN]
DkCalls == [op : {"none", "read", "reply", "send"}, chat : Chats \cup {0}, ids : SUBSET Nat,
            at : {"idle", "mark", "inspect", "clear", "answer", "api", "record"}]

DkCore ==
  /\ dkIds \in Nat /\ dkLog \in Seq(DkEntries) /\ \A i \in DOMAIN dkLog : dkLog[i].id \in 1..dkIds
  /\ dkRead \subseteq 1..dkIds /\ dkCall \in DkCalls /\ dkCall.ids \subseteq 1..dkIds
  /\ dkCall.at # "idle" => dkCall.chat \in Chats

\* A send that counts and is at the platform was let through below the limit, and no
\* other is made meanwhile.
DkRepeats ==
  /\ dkCount \in Nat /\ dkAcked \in Nat /\ dkAcked <= dkCount /\ dkCount <= FreePasses
  /\ dkCall.at = "api" /\ Counts(dkCall.op) => dkCount < FreePasses

\* A message that is marked read was told, came again, or is of a call that may have
\* marked it: not of one that has not come to its mark, and not lost with one unnamed.
Accounted(e, read, may) == e.id \in read /\ ~e.told => e.renewed \/ e.id \in may
MayHaveMarked == IF dkCall.at \in {"idle", "api", "record"} THEN {} ELSE dkCall.ids
DkMarks == \A i \in DOMAIN dkLog : Accounted(dkLog[i], dkRead, MayHaveMarked \cup dkUnsure)

DkInv == DkCore /\ DkRepeats /\ DkMarks

\* A sequence with one more: what was there, and that one.
LEMMA OneMore ==
  ASSUME NEW S, NEW s \in Seq(S), NEW e \in S
  PROVE  /\ Append(s, e) \in Seq(S)
         /\ \A i \in DOMAIN Append(s, e) :
              (i \in DOMAIN s /\ Append(s, e)[i] = s[i]) \/ Append(s, e)[i] = e
<1>1. Append(s, e) \in Seq(S) /\ DOMAIN Append(s, e) = 1..(Len(s) + 1) /\ DOMAIN s = 1..Len(s)
      /\ Len(s) \in Nat
  OBVIOUS
<1>2. ASSUME NEW i \in 1..(Len(s) + 1)
      PROVE  (i \in 1..Len(s) /\ Append(s, e)[i] = s[i]) \/ Append(s, e)[i] = e
  OBVIOUS
<1> QED BY <1>1, <1>2

\* What an entry becomes when it is told,
LEMMA EntryTold ==
  ASSUME NEW e \in DkEntries, NEW d, d = [e EXCEPT !.told = TRUE]
  PROVE  d \in DkEntries /\ d.id = e.id /\ d.told
<1>1. d = [id |-> e.id, chat |-> e.chat, mine |-> e.mine, told |-> TRUE, renewed |-> e.renewed]
  BY DEF DkEntries
<1>2. e.id \in Nat /\ e.chat \in Chats /\ e.mine \in BOOLEAN /\ e.renewed \in BOOLEAN
  BY DEF DkEntries
<1> QED BY <1>1, <1>2 DEF DkEntries

\* when its message is edited,
LEMMA EntryEdited ==
  ASSUME NEW e \in DkEntries, NEW d, d = [e EXCEPT !.told = FALSE, !.renewed = TRUE]
  PROVE  d \in DkEntries /\ d.id = e.id /\ d.renewed
<1>1. d = [id |-> e.id, chat |-> e.chat, mine |-> e.mine, told |-> FALSE, renewed |-> TRUE]
  BY DEF DkEntries
<1>2. e.id \in Nat /\ e.chat \in Chats /\ e.mine \in BOOLEAN
  BY DEF DkEntries
<1> QED BY <1>1, <1>2 DEF DkEntries

\* and when a button under it is pressed.
LEMMA EntryPressed ==
  ASSUME NEW e \in DkEntries,
         NEW d, d = [e EXCEPT !.mine = FALSE, !.told = FALSE, !.renewed = TRUE]
  PROVE  d \in DkEntries /\ d.id = e.id /\ d.renewed
<1>1. d = [id |-> e.id, chat |-> e.chat, mine |-> FALSE, told |-> FALSE, renewed |-> TRUE]
  BY DEF DkEntries
<1>2. e.id \in Nat /\ e.chat \in Chats
  BY DEF DkEntries
<1> QED BY <1>1, <1>2 DEF DkEntries

LEMMA EntryIsThere ==
  ASSUME DkInv, NEW id \in LogIds
  PROVE  EntryOf(id) \in DkEntries /\ EntryOf(id).id = id /\ id \in 1..dkIds
<1>1. PICK i \in DOMAIN dkLog : dkLog[i].id = id
  BY DEF LogIds
<1>2. \E e \in {dkLog[j] : j \in DOMAIN dkLog} : e.id = id
  BY <1>1
<1>3. EntryOf(id) \in {dkLog[j] : j \in DOMAIN dkLog} /\ EntryOf(id).id = id
  BY <1>2 DEF EntryOf
<1>4. \A j \in DOMAIN dkLog : dkLog[j] \in DkEntries /\ dkLog[j].id \in 1..dkIds
  BY DEF DkInv, DkCore
<1> QED BY <1>1, <1>3, <1>4

\* The log with one entry more, after some that were there.
LEMMA LogGrows ==
  ASSUME DkInv, NEW old \in Seq(DkEntries), NEW e \in DkEntries, dkLog' = Append(old, e),
         \A i \in DOMAIN old : \E j \in DOMAIN dkLog : old[i] = dkLog[j],
         dkIds' \in Nat, dkIds <= dkIds', e.id \in 1..dkIds', dkRead' = dkRead,
         MayHaveMarked \cup dkUnsure \subseteq (MayHaveMarked \cup dkUnsure)',
         e.id \in dkRead => e.told \/ e.renewed
  PROVE  /\ dkLog' \in Seq(DkEntries) /\ (\A i \in DOMAIN dkLog' : dkLog'[i].id \in 1..dkIds')
         /\ DkMarks'
<1>1. /\ dkLog' \in Seq(DkEntries)
      /\ \A i \in DOMAIN dkLog' : (i \in DOMAIN old /\ dkLog'[i] = old[i]) \/ dkLog'[i] = e
  BY OneMore
<1>2. \A i \in DOMAIN dkLog' : (\E j \in DOMAIN dkLog : dkLog'[i] = dkLog[j]) \/ dkLog'[i] = e
  BY <1>1
<1>3. \A j \in DOMAIN dkLog : dkLog[j].id \in 1..dkIds'
  <2>1. \A j \in DOMAIN dkLog : dkLog[j].id \in 1..dkIds
    BY DEF DkInv, DkCore
  <2>2. dkIds \in Nat
    BY DEF DkInv, DkCore
  <2> QED BY <2>1, <2>2
<1>4. \A j \in DOMAIN dkLog : Accounted(dkLog[j], dkRead', (MayHaveMarked \cup dkUnsure)')
  BY DEF DkInv, DkMarks, Accounted
<1>5. Accounted(e, dkRead', (MayHaveMarked \cup dkUnsure)')
  BY DEF Accounted
<1>6. \A i \in DOMAIN dkLog' : Accounted(dkLog'[i], dkRead', (MayHaveMarked \cup dkUnsure)')
  BY <1>2, <1>4, <1>5
<1>7. DkMarks'
  BY <1>6 DEF DkMarks
<1> QED BY <1>1, <1>2, <1>3, <1>7

\* An action that leaves the count keeps it, unless it takes a send to the platform.
LEMMA CountStands ==
  ASSUME DkInv, dkCount' = dkCount, dkAcked' = dkAcked, dkKind' = dkKind,
         dkCall' = dkCall \/ dkCall'.at # "api"
  PROVE  DkRepeats'
BY DEF DkInv, DkRepeats, Counts, GuardsTelegram, GuardsFeishu, GuardsImap

\* The same for the marks: the log and what is read stand, and no call forgets one.
LEMMA MarksStand ==
  ASSUME DkInv, dkLog' = dkLog, dkRead' = dkRead,
         MayHaveMarked \cup dkUnsure \subseteq (MayHaveMarked \cup dkUnsure)'
  PROVE  DkMarks'
BY DEF DkInv, DkMarks, Accounted

LEMMA NoCallIs ==
  /\ NoCall \in DkCalls /\ NoCall.at = "idle" /\ NoCall.ids = {} /\ NoCall.op = "none"
  /\ ~Counts(NoCall.op) \/ dkKind = "telegram"
BY DEF NoCall, DkCalls, Chats, Counts, GuardsTelegram, GuardsFeishu, GuardsImap

\* A call that comes to another place.
LEMMA CallAt ==
  ASSUME NEW c \in DkCalls,
         NEW at \in {"idle", "mark", "inspect", "clear", "answer", "api", "record"},
         NEW d, d = [c EXCEPT !.at = at]
  PROVE  /\ d \in DkCalls /\ d.at = at /\ d.op = c.op /\ d.ids = c.ids /\ d.chat = c.chat
<1>1. d = [op |-> c.op, chat |-> c.chat, ids |-> c.ids, at |-> at]
  BY DEF DkCalls
<1>2. /\ c.op \in {"none", "read", "reply", "send"} /\ c.chat \in Chats \cup {0}
      /\ c.ids \in SUBSET Nat
  BY DEF DkCalls
<1> QED BY <1>1, <1>2 DEF DkCalls

LEMMA DkFacts ==
  ASSUME DkInv
  PROVE  /\ dkIds \in Nat /\ dkLog \in Seq(DkEntries) /\ dkRead \subseteq 1..dkIds
         /\ (\A i \in DOMAIN dkLog : dkLog[i] \in DkEntries /\ dkLog[i].id \in 1..dkIds)
         /\ dkCall \in DkCalls /\ dkCall.ids \subseteq 1..dkIds
         /\ dkCall.at # "idle" => dkCall.chat \in Chats
BY DEF DkInv, DkCore

LEMMA MessageKeeps ==
  ASSUME DkInv, NEW peer \in Chats, DkMessage(peer)
  PROVE  DkInv'
<1>1. /\ dkIds' = dkIds + 1 /\ dkLog' = Append(dkLog, Entry(peer, FALSE)) /\ dkKind' = dkKind
      /\ dkRead' = dkRead /\ dkCall' = dkCall /\ dkCount' = dkCount /\ dkAcked' = dkAcked
      /\ dkUnsure' = dkUnsure
  BY DEF DkMessage, Arrived
<1>2. /\ dkIds \in Nat /\ dkLog \in Seq(DkEntries) /\ dkRead \subseteq 1..dkIds
  BY DkFacts
<1>3. /\ Entry(peer, FALSE) \in DkEntries /\ Entry(peer, FALSE).id = dkIds + 1
  BY <1>2 DEF Entry, DkEntries
<1>4. PICK e : e = Entry(peer, FALSE)
  OBVIOUS
<1>5. e \in DkEntries /\ e.id \in 1..dkIds' /\ e.id \notin dkRead /\ dkIds' \in Nat /\ dkIds <= dkIds'
  <2>1. /\ dkIds' \in Nat /\ dkIds <= dkIds' /\ dkIds + 1 \in 1..dkIds'
        /\ dkIds + 1 \notin 1..dkIds
    BY <1>1, <1>2
  <2>2. e \in DkEntries /\ e.id = dkIds + 1
    BY <1>3, <1>4
  <2> QED BY <1>2, <2>1, <2>2
<1>6. MayHaveMarked' = MayHaveMarked
  BY <1>1 DEF MayHaveMarked
<1>7. /\ dkLog' \in Seq(DkEntries) /\ (\A i \in DOMAIN dkLog' : dkLog'[i].id \in 1..dkIds')
      /\ DkMarks'
  BY <1>1, <1>2, <1>4, <1>5, <1>6, LogGrows
<1>8. dkRead' \subseteq 1..dkIds' /\ dkCall'.ids \subseteq 1..dkIds'
  BY <1>1, <1>2, DkFacts
<1>9. DkCore'
  BY <1>1, <1>5, <1>7, <1>8, DkFacts DEF DkCore
<1> QED BY <1>1, <1>7, <1>9, CountStands DEF DkInv

LEMMA RecordKeeps ==
  ASSUME DkInv, DkRecord
  PROVE  DkInv'
<1>1. /\ dkIds' = dkIds + 1 /\ dkLog' = Append(dkLog, Entry(dkCall.chat, TRUE)) /\ dkKind' = dkKind
      /\ dkRead' = dkRead /\ dkCount' = dkCount /\ dkAcked' = dkAcked
      /\ dkUnsure' = dkUnsure /\ dkCall.at = "record"
      /\ dkCall' = NoCall \/ dkCall' = [dkCall EXCEPT !.at = "mark"]
  BY DEF DkRecord, dkNote
<1>2. /\ dkIds \in Nat /\ dkLog \in Seq(DkEntries) /\ dkRead \subseteq 1..dkIds
      /\ dkCall.chat \in Chats /\ dkCall \in DkCalls /\ dkCall.ids \subseteq 1..dkIds
  BY <1>1, DkFacts
<1>3. /\ Entry(dkCall.chat, TRUE) \in DkEntries /\ Entry(dkCall.chat, TRUE).id = dkIds + 1
      /\ Entry(dkCall.chat, TRUE).told = TRUE
  BY <1>2 DEF Entry, DkEntries
<1>4. PICK e : e = Entry(dkCall.chat, TRUE)
  OBVIOUS
<1>5. /\ e \in DkEntries /\ e.id \in 1..dkIds' /\ e.told /\ dkIds' \in Nat /\ dkIds <= dkIds'
  <2>1. /\ dkIds' \in Nat /\ dkIds <= dkIds' /\ dkIds + 1 \in 1..dkIds'
    BY <1>1, <1>2
  <2>2. e \in DkEntries /\ e.id = dkIds + 1 /\ e.told
    BY <1>3, <1>4
  <2> QED BY <2>1, <2>2
<1>6. MayHaveMarked = {}
  BY <1>1 DEF MayHaveMarked
<1>7. /\ dkLog' \in Seq(DkEntries) /\ (\A i \in DOMAIN dkLog' : dkLog'[i].id \in 1..dkIds')
      /\ DkMarks'
  BY <1>1, <1>2, <1>4, <1>5, <1>6, LogGrows
<1>8. /\ dkCall' \in DkCalls /\ dkCall'.at # "api" /\ dkCall'.ids \subseteq dkCall.ids
      /\ dkCall'.at # "idle" => dkCall'.chat \in Chats
  <2>1. CASE dkCall' = NoCall
    BY <2>1, NoCallIs
  <2>2. CASE dkCall' = [dkCall EXCEPT !.at = "mark"]
    <3>1. /\ dkCall' \in DkCalls /\ dkCall'.at = "mark" /\ dkCall'.ids = dkCall.ids
          /\ dkCall'.chat = dkCall.chat
      BY <1>2, <2>2, CallAt
    <3> QED BY <1>2, <3>1
  <2> QED BY <1>1, <2>1, <2>2
<1>9. dkRead' \subseteq 1..dkIds' /\ dkCall'.ids \subseteq 1..dkIds'
  BY <1>1, <1>2, <1>8
<1>10. DkCore'
  BY <1>5, <1>7, <1>8, <1>9 DEF DkCore
<1> QED BY <1>1, <1>7, <1>8, <1>10, CountStands DEF DkInv

LEMMA PressedKeeps ==
  ASSUME DkInv, NEW id \in LogIds, DkCallback(id)
  PROVE  DkInv'
<1>1. PICK e : e = [EntryOf(id) EXCEPT !.mine = FALSE, !.told = FALSE, !.renewed = TRUE]
  OBVIOUS
<1>2. /\ dkIds' = dkIds /\ dkLog' = Append(dkLog, e) /\ dkKind' = dkKind
      /\ dkRead' = dkRead /\ dkCall' = dkCall /\ dkCount' = dkCount /\ dkAcked' = dkAcked
      /\ dkUnsure' = dkUnsure
  BY <1>1 DEF DkCallback, Arrived
<1>3. PICK was \in DkEntries : was = EntryOf(id) /\ was.id = id /\ id \in 1..dkIds
  BY EntryIsThere
<1>4. e = [was EXCEPT !.mine = FALSE, !.told = FALSE, !.renewed = TRUE]
  BY <1>1, <1>3
<1>5. e \in DkEntries /\ e.id = id /\ e.renewed
  BY <1>3, <1>4, EntryPressed
<1>6. MayHaveMarked' = MayHaveMarked
  BY <1>2 DEF MayHaveMarked
<1>7. dkIds \in Nat /\ dkLog \in Seq(DkEntries) /\ e.id \in 1..dkIds' /\ dkIds <= dkIds'
  BY <1>2, <1>3, <1>5, DkFacts
<1>8. /\ dkLog' \in Seq(DkEntries) /\ (\A i \in DOMAIN dkLog' : dkLog'[i].id \in 1..dkIds')
      /\ DkMarks'
  BY <1>2, <1>5, <1>6, <1>7, LogGrows
<1>9. DkCore'
  BY <1>2, <1>8, DkFacts DEF DkCore
<1> QED BY <1>2, <1>8, <1>9, CountStands DEF DkInv

LEMMA EditedKeeps ==
  ASSUME DkInv, NEW id \in LogIds, DkEdited(id)
  PROVE  DkInv'
<1>1. PICK e : e = [EntryOf(id) EXCEPT !.told = FALSE, !.renewed = TRUE]
  OBVIOUS
<1>2. PICK old : old = TakenOut(id)
  OBVIOUS
<1>3. /\ dkIds' = dkIds /\ dkLog' = Append(old, e) /\ dkKind' = dkKind
      /\ dkRead' = dkRead /\ dkCall' = dkCall /\ dkCount' = dkCount /\ dkAcked' = dkAcked
      /\ dkUnsure' = dkUnsure
  BY <1>1, <1>2 DEF DkEdited, dkOut
<1>4. PICK was \in DkEntries : was = EntryOf(id) /\ was.id = id /\ id \in 1..dkIds
  BY EntryIsThere
<1>5. e = [was EXCEPT !.told = FALSE, !.renewed = TRUE]
  BY <1>1, <1>4
<1>6. e \in DkEntries /\ e.id = id /\ e.renewed
  BY <1>4, <1>5, EntryEdited
<1>7. MayHaveMarked' = MayHaveMarked
  BY <1>3 DEF MayHaveMarked
<1>8. dkIds \in Nat /\ e.id \in 1..dkIds' /\ dkIds <= dkIds' /\ dkLog \in Seq(DkEntries)
  BY <1>3, <1>4, <1>6, DkFacts
<1>9. /\ old \in Seq(DkEntries)
      /\ \A i \in DOMAIN old : \E j \in DOMAIN dkLog : old[i] = dkLog[j]
  <2>1. PICK places : places = {i \in DOMAIN dkLog : dkLog[i].id # id}
    OBVIOUS
  <2>2. places \in SUBSET (DOMAIN dkLog) /\ old = AtPlaces(dkLog, places)
    BY <1>2, <2>1 DEF TakenOut
  <2> QED BY <1>8, <2>2, AtPlacesIs
<1>10. /\ dkLog' \in Seq(DkEntries) /\ (\A i \in DOMAIN dkLog' : dkLog'[i].id \in 1..dkIds')
       /\ DkMarks'
  BY <1>3, <1>6, <1>7, <1>8, <1>9, LogGrows
<1>11. DkCore'
  BY <1>3, <1>10, DkFacts DEF DkCore
<1> QED BY <1>3, <1>10, <1>11, CountStands DEF DkInv

\* A call that begins: it has marked nothing, and a send that counts is below the limit.
LEMMA CallsKeep ==
  ASSUME DkInv, NEW op \in {"read", "reply", "send"}, NEW at \in {"mark", "api"}, NEW peer \in Chats,
         NEW ids, ids \subseteq 1..dkIds,
         dkCall' = [NoCall EXCEPT !.op = op, !.at = at, !.chat = peer, !.ids = ids], DeskIdle,
         at = "api" => ~Blocked(op),
         UNCHANGED <<dkKind, dkStore, dkNote, dkOut, dkUnsure, dkFaults>>
  PROVE  DkInv'
<1>1. /\ dkIds' = dkIds /\ dkLog' = dkLog /\ dkKind' = dkKind /\ dkRead' = dkRead
      /\ dkCount' = dkCount /\ dkAcked' = dkAcked /\ dkUnsure' = dkUnsure
  BY DEF dkStore, dkOut
<1>2. dkIds \in Nat /\ ids \in SUBSET Nat
  BY DkFacts
<1>3. /\ dkCall' \in DkCalls /\ dkCall'.at = at /\ dkCall'.op = op /\ dkCall'.ids = ids
      /\ dkCall'.chat = peer
  <2>1. dkCall' = [op |-> op, chat |-> peer, ids |-> ids, at |-> at]
    BY DEF NoCall
  <2>2. /\ dkCall'.at = at /\ dkCall'.op = op /\ dkCall'.ids = ids /\ dkCall'.chat = peer
    BY <2>1
  <2>3. [op |-> op, chat |-> peer, ids |-> ids, at |-> at] \in DkCalls
    BY <1>2 DEF DkCalls
  <2> QED BY <2>1, <2>2, <2>3
<1>4. DkCore'
  BY <1>1, <1>3, DkFacts DEF DkCore
<1>5. DkMarks'
  <2>1. MayHaveMarked = {}
    BY NoCallIs DEF MayHaveMarked, DeskIdle
  <2> QED BY <1>1, <2>1, MarksStand
<1>6. DkRepeats'
  BY <1>1, <1>3 DEF DkInv, DkRepeats, Blocked, Counts, GuardsTelegram, GuardsFeishu, GuardsImap,
     FreePasses
<1> QED BY <1>4, <1>5, <1>6 DEF DkInv

LEMMA ReadCallKeeps ==
  ASSUME DkInv, NEW peer \in Chats, DkReadCall(peer)
  PROVE  DkInv'
<1>1. PICK ids : ids = Recent(peer)
  OBVIOUS
<1>2. ids \subseteq 1..dkIds
  BY <1>1, DkFacts DEF Recent
<1>3. /\ dkCall' = [NoCall EXCEPT !.op = "read", !.at = "mark", !.chat = peer, !.ids = ids]
      /\ DeskIdle /\ UNCHANGED <<dkKind, dkStore, dkNote, dkOut, dkUnsure, dkFaults>>
  BY <1>1 DEF DkReadCall
<1>4. "read" \in {"read", "reply", "send"} /\ "mark" \in {"mark", "api"} /\ "mark" # "api"
  OBVIOUS
<1> QED BY <1>2, <1>3, <1>4, CallsKeep

LEMMA SendCallKeeps ==
  ASSUME DkInv, NEW op \in {"reply", "send"}, NEW ids, ids \subseteq 1..dkIds, DkSendCall(op, ids)
  PROVE  DkInv'
<1>1. /\ dkCall' = [NoCall EXCEPT !.op = op, !.at = "api", !.chat = 1, !.ids = ids]
      /\ DeskIdle /\ UNCHANGED <<dkKind, dkStore, dkNote, dkOut, dkUnsure, dkFaults>> /\ ~Blocked(op)
  BY DEF DkSendCall
<1>2. op \in {"read", "reply", "send"} /\ "api" \in {"mark", "api"} /\ 1 \in Chats
  BY DEF Chats
<1> QED BY <1>1, <1>2, CallsKeep

\* A call that goes on, or is over.
LEMMA GoesOnKeeps ==
  ASSUME DkInv, NEW at \in {"idle", "inspect", "clear", "answer", "record"},
         dkCall' = [dkCall EXCEPT !.at = at] \/ (at = "idle" /\ dkCall' = NoCall),
         dkCall.at # "idle"
  PROVE  /\ dkCall' \in DkCalls /\ dkCall'.at = at /\ (at # "idle" => dkCall'.ids = dkCall.ids)
         /\ dkCall'.ids \subseteq 1..dkIds /\ (dkCall'.at # "idle" => dkCall'.chat \in Chats)
<1>1. CASE at = "idle" /\ dkCall' = NoCall
  BY <1>1, NoCallIs
<1>2. CASE dkCall' = [dkCall EXCEPT !.at = at]
  <2>1. dkCall \in DkCalls /\ dkCall.ids \subseteq 1..dkIds /\ dkCall.chat \in Chats
    BY DkFacts
  <2>2. at \in {"idle", "mark", "inspect", "clear", "answer", "api", "record"}
    OBVIOUS
  <2>3. /\ dkCall' \in DkCalls /\ dkCall'.at = at /\ dkCall'.ids = dkCall.ids
        /\ dkCall'.chat = dkCall.chat
    BY <1>2, <2>1, <2>2, CallAt
  <2> QED BY <2>1, <2>3
<1> QED BY <1>1, <1>2

LEMMA MarkReadKeeps ==
  ASSUME DkInv, DkMark
  PROVE  DkInv'
<1>1. PICK at \in {"idle", "inspect", "clear", "answer", "record"} :
        dkCall' = [dkCall EXCEPT !.at = at] /\ at \in {"inspect", "answer"}
  BY DEF DkMark
<1>2. /\ dkIds' = dkIds /\ dkLog' = dkLog /\ dkKind' = dkKind /\ dkRead' = dkRead \cup dkCall.ids
      /\ dkCount' = dkCount /\ dkAcked' = dkAcked /\ dkUnsure' = dkUnsure /\ dkCall.at = "mark"
  BY DEF DkMark, dkOut, Marked
<1>3. /\ dkCall' \in DkCalls /\ dkCall'.at = at /\ dkCall'.ids = dkCall.ids
      /\ dkCall'.ids \subseteq 1..dkIds /\ dkCall'.chat \in Chats
  BY <1>1, <1>2, GoesOnKeeps
<1>4. DkCore'
  BY <1>2, <1>3, DkFacts DEF DkCore
<1>5. MayHaveMarked = dkCall.ids /\ MayHaveMarked' = dkCall.ids
  BY <1>1, <1>2, <1>3 DEF MayHaveMarked
<1>6. DkMarks'
  BY <1>2, <1>5 DEF DkInv, DkMarks, Accounted
<1>7. DkRepeats'
  BY <1>1, <1>2, <1>3, CountStands
<1> QED BY <1>4, <1>6, <1>7 DEF DkInv

LEMMA LooksKeep ==
  ASSUME DkInv, DkInspect \/ DkClear
  PROVE  DkInv'
<1>1. PICK at \in {"idle", "inspect", "clear", "answer", "record"} :
        dkCall' = [dkCall EXCEPT !.at = at] /\ at \in {"clear", "answer"}
  BY DEF DkInspect, DkClear
<1>2. /\ dkIds' = dkIds /\ dkLog' = dkLog /\ dkKind' = dkKind /\ dkRead' = dkRead
      /\ dkCount' = dkCount /\ dkAcked' = dkAcked /\ dkUnsure' = dkUnsure
      /\ dkCall.at \in {"inspect", "clear"}
  BY DEF DkInspect, DkClear, dkOut, dkStore
<1>3. /\ dkCall' \in DkCalls /\ dkCall'.at = at /\ dkCall'.ids = dkCall.ids
      /\ dkCall'.ids \subseteq 1..dkIds /\ dkCall'.chat \in Chats
  BY <1>1, <1>2, GoesOnKeeps
<1>4. DkCore'
  BY <1>2, <1>3, DkFacts DEF DkCore
<1>5. MayHaveMarked' = MayHaveMarked
  BY <1>1, <1>2, <1>3 DEF MayHaveMarked
<1>6. DkMarks'
  BY <1>2, <1>5, MarksStand
<1>7. DkRepeats'
  BY <1>1, <1>2, <1>3, CountStands
<1> QED BY <1>4, <1>6, <1>7 DEF DkInv

LEMMA AnswerTells ==
  ASSUME DkInv, DkAnswer
  PROVE  DkInv'
<1>1. /\ dkIds' = dkIds /\ dkLog' = Given(dkCall.ids) /\ dkKind' = dkKind /\ dkRead' = dkRead
      /\ dkCount' = dkCount /\ dkAcked' = dkAcked /\ dkUnsure' = dkUnsure
      /\ dkCall.at = "answer" /\ dkCall' = NoCall
  BY DEF DkAnswer, dkOut
<1>2. MayHaveMarked = dkCall.ids
  BY <1>1 DEF MayHaveMarked
<1>3. dkLog \in Seq(DkEntries) /\ Len(dkLog) \in Nat /\ DOMAIN dkLog = 1..Len(dkLog)
  BY DkFacts
<1>4. /\ DOMAIN dkLog' = DOMAIN dkLog
      /\ \A i \in DOMAIN dkLog : dkLog'[i] = IF dkLog[i].id \in dkCall.ids
                                           THEN [dkLog[i] EXCEPT !.told = TRUE] ELSE dkLog[i]
      /\ dkLog' = [i \in 1..Len(dkLog) |-> dkLog'[i]]
  BY <1>1, <1>3 DEF Given
<1>5. ASSUME NEW i \in DOMAIN dkLog
      PROVE  /\ dkLog'[i] \in DkEntries /\ dkLog'[i].id = dkLog[i].id
             /\ dkLog[i].id \in dkCall.ids => dkLog'[i].told
             /\ dkLog[i].id \notin dkCall.ids => dkLog'[i] = dkLog[i]
  <2>1. dkLog[i] \in DkEntries
    BY DkFacts
  <2>2. CASE dkLog[i].id \in dkCall.ids
    <3>1. dkLog'[i] = [dkLog[i] EXCEPT !.told = TRUE]
      BY <1>4, <2>2
    <3> QED BY <2>1, <2>2, <3>1, EntryTold
  <2>3. CASE dkLog[i].id \notin dkCall.ids
    BY <1>4, <2>1, <2>3
  <2> QED BY <2>2, <2>3
<1>6. dkLog' \in Seq(DkEntries)
  BY <1>3, <1>4, <1>5
<1>7. DkCore'
  BY <1>1, <1>4, <1>5, <1>6, DkFacts, NoCallIs DEF DkCore
<1>8. DkMarks'
  <2>1. ASSUME NEW i \in DOMAIN dkLog
        PROVE  Accounted(dkLog'[i], dkRead, dkUnsure)
    BY <1>2, <1>5 DEF DkInv, DkMarks, Accounted
  <2>2. \A i \in DOMAIN dkLog' : Accounted(dkLog'[i], dkRead', (MayHaveMarked \cup dkUnsure)')
    BY <1>1, <1>4, <2>1 DEF Accounted
  <2> QED BY <2>2 DEF DkMarks
<1>9. DkRepeats'
  BY <1>1, NoCallIs, CountStands
<1> QED BY <1>7, <1>8, <1>9 DEF DkInv

LEMMA PlatformKeeps ==
  ASSUME DkInv, DkDelivered \/ DkRefused \/ DkRecordFails
  PROVE  DkInv'
<1>1. PICK at \in {"idle", "inspect", "clear", "answer", "record"} :
        /\ dkCall' = [dkCall EXCEPT !.at = at] \/ (at = "idle" /\ dkCall' = NoCall)
        /\ at \in {"idle", "record"}
  BY DEF DkDelivered, DkRefused, DkRecordFails
<1>2. /\ dkIds' = dkIds /\ dkLog' = dkLog /\ dkKind' = dkKind /\ dkRead' = dkRead
      /\ dkUnsure' = dkUnsure /\ dkCall.at \in {"api", "record"}
  BY DEF DkDelivered, DkRefused, DkRecordFails, dkStore
<1>3. /\ dkCall' \in DkCalls /\ dkCall'.at = at
      /\ dkCall'.ids \subseteq 1..dkIds /\ (dkCall'.at # "idle" => dkCall'.chat \in Chats)
  BY <1>1, <1>2, GoesOnKeeps
<1>4. DkCore'
  BY <1>2, <1>3, DkFacts DEF DkCore
<1>5. MayHaveMarked' = MayHaveMarked
  BY <1>1, <1>2, <1>3 DEF MayHaveMarked
<1>6. DkMarks'
  BY <1>2, <1>5, MarksStand
<1>7. DkRepeats'
  <2>1. dkCall'.at # "api"
    BY <1>1, <1>3
  <2>2. /\ dkCount \in Nat /\ dkAcked \in Nat /\ dkAcked <= dkCount /\ dkCount <= FreePasses
        /\ dkCall.at = "api" /\ Counts(dkCall.op) => dkCount < FreePasses
    BY DEF DkInv, DkRepeats
  <2>3. /\ dkCount' \in Nat /\ dkAcked' \in Nat /\ dkAcked' <= dkCount' /\ dkCount' <= FreePasses
    <3>1. CASE DkDelivered
      BY <2>2, <3>1 DEF DkDelivered, FreePasses
    <3>2. CASE DkRefused
      BY <2>2, <3>2 DEF DkRefused, FreePasses
    <3>3. CASE DkRecordFails
      BY <2>2, <3>3 DEF DkRecordFails
    <3> QED BY <3>1, <3>2, <3>3
  <2> QED BY <2>1, <2>3 DEF DkRepeats
<1> QED BY <1>4, <1>6, <1>7 DEF DkInv

LEMMA CrashKeeps ==
  ASSUME DkInv, DkCrash
  PROVE  DkInv'
<1>1. /\ dkIds' = dkIds /\ dkLog' = dkLog /\ dkKind' = dkKind /\ dkRead' = dkRead
      /\ dkCall' = NoCall /\ dkCount' = 0 /\ dkAcked' = 0 /\ dkUnsure' = dkUnsure \cup dkCall.ids
  BY DEF DkCrash, dkStore
<1>2. DkCore'
  BY <1>1, DkFacts, NoCallIs DEF DkCore
<1>3. MayHaveMarked \subseteq dkCall.ids
  BY DEF MayHaveMarked
<1>4. DkMarks'
  BY <1>1, <1>3, MarksStand
<1>5. DkRepeats'
  BY <1>1, NoCallIs DEF DkRepeats, FreePasses
<1> QED BY <1>2, <1>4, <1>5 DEF DkInv

LEMMA DeskStarts == DkInit => DkInv
<1> SUFFICES ASSUME DkInit PROVE DkInv
  OBVIOUS
<1>1. DkCore
  BY NoCallIs DEF DkInit, DkCore
<1>2. DkRepeats
  BY NoCallIs DEF DkInit, DkRepeats, FreePasses
<1>3. DkMarks
  BY DEF DkInit, DkMarks
<1> QED BY <1>1, <1>2, <1>3 DEF DkInv

LEMMA DeskSteps ==
  ASSUME DkInv, [DkNext]_dkVars
  PROVE  DkInv'
<1>1. ASSUME dkIds' = dkIds, dkLog' = dkLog, dkKind' = dkKind, dkRead' = dkRead, dkCall' = dkCall,
             dkCount' = dkCount, dkAcked' = dkAcked, dkUnsure' = dkUnsure
      PROVE  DkInv'
  BY <1>1 DEF DkInv, DkCore, DkRepeats, DkMarks, Accounted, MayHaveMarked, Counts, GuardsTelegram,
     GuardsFeishu, GuardsImap
<1>2. CASE DkHandle
  <2>1. ASSUME NEW peer \in Chats, DkReadCall(peer) PROVE DkInv'
    BY <2>1, ReadCallKeeps
  <2>2. ASSUME NEW id \in LogIds, DkSendCall("reply", {id}) PROVE DkInv'
    <3>1. {id} \subseteq 1..dkIds
      BY EntryIsThere
    <3> QED BY <2>2, <3>1, SendCallKeeps
  <2>3. CASE DkSendCall("send", {})
    BY <2>3, SendCallKeeps
  <2> QED BY <1>2, <2>1, <2>2, <2>3 DEF DkHandle
<1>3. CASE \E peer \in Chats : DkMessage(peer)
  BY <1>3, MessageKeeps
<1>4. CASE \E id \in LogIds : DkEdited(id) \/ DkCallback(id)
  BY <1>4, EditedKeeps, PressedKeeps
<1>5. CASE DkSweep
  BY <1>1, <1>5 DEF DkSweep, dkStore, dkOut
<1>6. CASE DkMark \/ DkInspect \/ DkClear \/ DkAnswer
  BY <1>6, MarkReadKeeps, LooksKeep, AnswerTells
<1>7. CASE DkDelivered \/ DkRefused \/ DkRecord \/ DkRecordFails \/ DkCrash
  BY <1>7, PlatformKeeps, RecordKeeps, CrashKeeps
<1>8. CASE UNCHANGED dkVars
  BY <1>1, <1>8 DEF dkVars, dkStore, dkOut
<1> QED BY <1>2, <1>3, <1>4, <1>5, <1>6, <1>7, <1>8 DEF DkNext

LEMMA DeskInvKept == DkInv => RepeatsBounded /\ MarkedWasTold
<1> SUFFICES ASSUME DkInv PROVE RepeatsBounded /\ MarkedWasTold
  OBVIOUS
<1>1. RepeatsBounded
  BY DEF DkInv, DkRepeats, RepeatsBounded, FreePasses
<1>2. MayHaveMarked \subseteq dkCall.ids
  BY DEF MayHaveMarked
<1>3. MarkedWasTold
  BY <1>2 DEF DkInv, DkMarks, Accounted, MarkedWasTold
<1> QED BY <1>1, <1>3

LEMMA DkAlways == DkSpec => []DkInv
<1>1. DkInv /\ [DkNext]_dkVars => DkInv'
  BY DeskSteps
<1> QED BY <1>1, DeskStarts, PTL DEF DkSpec

\* A process gets one text through to one recipient no oftener than the guard lets pass, and a
\* message is marked read only when the agent was told it, or a crash took the answer that told it.
THEOREM DeskStays == DkSpec => [](RepeatsBounded /\ MarkedWasTold)
BY DkAlways, DeskInvKept, PTL

\* An event names a message the desk has stored: of the type its action gives it.
DkEvents ==
  /\ \A e \in dkFiles \cup dkMirror : e.id \in LogIds /\ e.type \in {"message", "edit", "callback"}
  /\ dkKind \in DkKinds /\ dkTyping \in BOOLEAN /\ dkFaults \in 0..DkFaults

\* No message that was stored goes: an edit puts the record at the end.
LEMMA AppendedIds ==
  ASSUME NEW s \in Seq(DkEntries), NEW e \in DkEntries, dkLog' = Append(s, e)
  PROVE  /\ e.id \in LogIds' /\ \A i \in DOMAIN s : s[i].id \in LogIds'
<1>1. /\ Len(s) \in Nat /\ DOMAIN s = 1..Len(s) /\ DOMAIN dkLog' = 1..(Len(s) + 1)
      /\ dkLog'[Len(s) + 1] = e /\ \A j \in 1..Len(s) : dkLog'[j] = s[j]
  <2>1. /\ Append(s, e) \in Seq(DkEntries) /\ Len(Append(s, e)) = Len(s) + 1
        /\ Append(s, e)[Len(s) + 1] = e /\ \A j \in 1..Len(s) : Append(s, e)[j] = s[j]
    BY AppendIs
  <2>2. \A t \in Seq(DkEntries) : DOMAIN t = 1..Len(t) /\ Len(t) \in Nat
    OBVIOUS
  <2> QED BY <2>1, <2>2
<1>2. Len(s) + 1 \in DOMAIN dkLog' /\ \A i \in DOMAIN s : i \in DOMAIN dkLog'
  BY <1>1
<1> QED BY <1>1, <1>2 DEF LogIds

LEMMA IdsStay ==
  ASSUME DkInv, [DkNext]_dkVars
  PROVE  \A id \in LogIds : id \in LogIds'
<1>1. dkLog \in Seq(DkEntries) /\ dkIds \in Nat /\ dkCall \in DkCalls
  BY DkFacts
<1>2. ASSUME NEW talk \in Chats, NEW mine \in BOOLEAN, dkLog' = Append(dkLog, Entry(talk, mine))
      PROVE  \A id \in LogIds : id \in LogIds'
  <2>1. Entry(talk, mine) \in DkEntries
    BY <1>1 DEF Entry, DkEntries
  <2>2. \A i \in DOMAIN dkLog : dkLog[i].id \in LogIds'
    BY <1>1, <1>2, <2>1, AppendedIds
  <2> QED BY <2>2 DEF LogIds
<1>3. CASE UNCHANGED dkLog
  BY <1>3 DEF LogIds
<1>4. ASSUME NEW talk \in Chats, DkMessage(talk) PROVE \A id \in LogIds : id \in LogIds'
  BY <1>2, <1>4 DEF DkMessage
<1>5. ASSUME NEW old \in LogIds, DkEdited(old) PROVE \A id \in LogIds : id \in LogIds'
  <2>1. PICK places : places = {i \in DOMAIN dkLog : dkLog[i].id # old}
    OBVIOUS
  <2>2. PICK s : s = TakenOut(old)
    OBVIOUS
  <2>3. s = AtPlaces(dkLog, places) /\ places \in SUBSET (DOMAIN dkLog)
    BY <2>1, <2>2 DEF TakenOut
  <2>4. s \in Seq(DkEntries) /\ \A i \in places : \E n \in DOMAIN s : s[n] = dkLog[i]
    BY <1>1, <2>3, AtPlacesIs
  <2>5. PICK e : e = [EntryOf(old) EXCEPT !.told = FALSE, !.renewed = TRUE]
    OBVIOUS
  <2>6. EntryOf(old) \in DkEntries /\ EntryOf(old).id = old
    BY EntryIsThere
  <2>7. e \in DkEntries /\ e.id = old
    BY <2>5, <2>6, EntryEdited
  <2>8. dkLog' = Append(s, e)
    BY <1>5, <2>2, <2>5 DEF DkEdited
  <2>9. old \in LogIds' /\ \A n \in DOMAIN s : s[n].id \in LogIds'
    BY <2>4, <2>7, <2>8, AppendedIds
  <2>10. ASSUME NEW i \in DOMAIN dkLog PROVE dkLog[i].id \in LogIds'
    BY <2>1, <2>4, <2>9
  <2> QED BY <2>10 DEF LogIds
<1>6. ASSUME NEW old \in LogIds, DkCallback(old) PROVE \A id \in LogIds : id \in LogIds'
  <2>1. PICK e : e = [EntryOf(old) EXCEPT !.mine = FALSE, !.told = FALSE, !.renewed = TRUE]
    OBVIOUS
  <2>2. EntryOf(old) \in DkEntries
    BY EntryIsThere
  <2>3. e \in DkEntries
    BY <2>1, <2>2, EntryPressed
  <2>4. dkLog' = Append(dkLog, e)
    BY <1>6, <2>1 DEF DkCallback
  <2>5. \A i \in DOMAIN dkLog : dkLog[i].id \in LogIds'
    BY <1>1, <2>3, <2>4, AppendedIds
  <2> QED BY <2>5 DEF LogIds
<1>7. CASE DkAnswer
  <2>1. dkLog' = [i \in DOMAIN dkLog |-> IF dkLog[i].id \in dkCall.ids THEN [dkLog[i] EXCEPT !.told = TRUE]
                                         ELSE dkLog[i]]
    BY <1>7 DEF DkAnswer, Given
  <2>2. \A e \in DkEntries : [e EXCEPT !.told = TRUE].id = e.id
    BY DEF DkEntries
  <2>3. \A i \in DOMAIN dkLog : i \in DOMAIN dkLog' /\ dkLog'[i].id = dkLog[i].id
    BY <1>1, <2>1, <2>2
  <2> QED BY <2>3 DEF LogIds
<1>8. CASE DkRecord
  <2>1. dkCall.chat \in Chats /\ dkLog' = Append(dkLog, Entry(dkCall.chat, TRUE))
    BY <1>8, DkFacts DEF DkRecord
  <2> QED BY <1>2, <2>1
<1>9. \/ UNCHANGED dkLog \/ (\E talk \in Chats : DkMessage(talk)) \/ DkAnswer \/ DkRecord
      \/ \E id \in LogIds : DkEdited(id) \/ DkCallback(id)
  BY DEF DkNext, DkHandle, dkVars, dkStore, DkReadCall, DkSendCall, DkSweep, DkMark, DkInspect, DkClear,
     DkDelivered, DkRefused, DkRecordFails, DkCrash
<1> QED BY <1>3, <1>4, <1>5, <1>6, <1>7, <1>8, <1>9

\* A new event is of a message of the log.
LEMMA NewEvents ==
  ASSUME DkInv, [DkNext]_dkVars
  PROVE  \A e \in (dkFiles \cup dkMirror)' : \/ e \in dkFiles \cup dkMirror
                                             \/ e.id \in LogIds' /\ e.type \in {"message", "edit", "callback"}
<1>1. dkLog \in Seq(DkEntries) /\ dkIds \in Nat
  BY DkFacts
<1>2. CASE UNCHANGED <<dkFiles, dkMirror>> \/ DkSweep \/ DkClear
  BY <1>2 DEF DkSweep, DkClear
<1>3. ASSUME NEW talk \in Chats, DkMessage(talk)
      PROVE  dkFiles' = dkFiles \cup {Ref(dkIds + 1, "message")} /\ dkMirror' = dkMirror /\ dkIds + 1 \in LogIds'
  <2>1. PICK e : e = Entry(talk, FALSE)
    OBVIOUS
  <2>2. e \in DkEntries /\ e.id = dkIds + 1
    BY <1>1, <2>1 DEF Entry, DkEntries
  <2>3. dkLog' = Append(dkLog, e)
    BY <1>3, <2>1 DEF DkMessage
  <2>4. e.id \in LogIds'
    BY <1>1, <2>2, <2>3, AppendedIds
  <2> QED BY <1>3, <2>2, <2>4 DEF DkMessage, Arrived
<1>4. ASSUME NEW id \in LogIds, DkEdited(id) \/ DkCallback(id)
      PROVE  /\ \E type \in {"edit", "callback"} : dkFiles' = dkFiles \cup {Ref(id, type)}
             /\ dkMirror' = dkMirror /\ id \in LogIds'
  BY <1>4, IdsStay DEF DkEdited, DkCallback, Arrived
<1>5. \A id, type : Ref(id, type).id = id /\ Ref(id, type).type = type
  BY DEF Ref
<1>6. \/ UNCHANGED <<dkFiles, dkMirror>> \/ DkSweep \/ DkClear
      \/ (\E talk \in Chats : DkMessage(talk)) \/ \E id \in LogIds : DkEdited(id) \/ DkCallback(id)
  BY DEF DkNext, DkHandle, dkVars, dkNote, DkReadCall, DkSendCall, DkMark, DkInspect, DkAnswer,
     DkDelivered, DkRefused, DkRecord, DkRecordFails, DkCrash
<1>7. ASSUME NEW id, NEW type \in {"message", "edit", "callback"}, id \in LogIds',
             dkFiles' = dkFiles \cup {Ref(id, type)}, dkMirror' = dkMirror
      PROVE  \A e \in (dkFiles \cup dkMirror)' : \/ e \in dkFiles \cup dkMirror
                                                 \/ e.id \in LogIds' /\ e.type \in {"message", "edit", "callback"}
  BY <1>5, <1>7
<1> QED BY <1>2, <1>3, <1>4, <1>6, <1>7

LEMMA EventsKeep == ASSUME DkInv, DkEvents, [DkNext]_dkVars PROVE DkEvents'
<1>1. \A e \in (dkFiles \cup dkMirror)' : e.id \in LogIds' /\ e.type \in {"message", "edit", "callback"}
  BY IdsStay, NewEvents DEF DkEvents
<1>2. dkKind' = dkKind /\ (dkFaults' = dkFaults \/ (dkFaults < DkFaults /\ dkFaults' = dkFaults + 1))
  BY DEF DkNext, DkHandle, dkVars, DkReadCall, DkSendCall, DkMark, DkInspect, DkAnswer, DkSweep, DkClear,
     DkDelivered, DkRefused, DkRecord, DkRecordFails, DkCrash, DkMessage, DkEdited, DkCallback, Arrived, Fault
<1>3. dkTyping' = dkTyping \/ dkTyping' \in BOOLEAN
  BY DEF DkNext, DkHandle, dkVars, dkOut, DkReadCall, DkSendCall, DkMark, DkInspect, DkAnswer, DkSweep, DkClear,
     DkDelivered, DkRefused, DkRecord, DkRecordFails, DkCrash, DkMessage, DkEdited, DkCallback, StartsTyping
<1>4. dkFaults' \in 0..DkFaults
  BY <1>2, DeskAssumption DEF DkEvents
<1> QED BY <1>1, <1>2, <1>3, <1>4 DEF DkEvents

LEMMA DkTypes == DkSpec => []DkTypeOK
<1>1. DkInit => DkEvents
  <2> SUFFICES ASSUME DkInit PROVE DkEvents
    OBVIOUS
  <2>1. dkFiles \cup dkMirror = {} /\ dkKind \in DkKinds /\ dkTyping = FALSE /\ dkFaults = 0
    BY DEF DkInit
  <2>2. 0 \in 0..DkFaults
    BY DeskAssumption
  <2> QED BY <2>1, <2>2 DEF DkEvents
<1>2. DkInv /\ DkEvents => DkTypeOK
  BY DEF DkInv, DkCore, DkRepeats, DkEvents, DkCalls, DkTypeOK, LogIds
<1> QED BY <1>1, <1>2, EventsKeep, DkAlways, PTL DEF DkSpec

-----------------------------------------------------------------------------
(* Mailbox: the messages                                                   *)

Copies == [msg : Nat, uid : Nat, folder : Folders, gone : BOOLEAN]
MoveSteps == {<<"move">>, <<"copy", "flag", "expunge">>, <<"flag", "expunge">>, <<"expunge">>}
DeleteSteps == {<<"flag", "expunge">>, <<"expunge">>}
MailCalls == [op : {"none", "move", "delete"}, msg : Nat, uid : Nat, from : Folders, to : Folders,
              todo : MoveSteps \cup {<<>>}, tries : 0..2]

\* A uid names one copy, and the copy a call names is where the call found it.
MbCore ==
  /\ mbBox \subseteq Copies /\ mbUid \in Nat
  /\ \A c \in mbBox : c.uid < mbUid
  /\ \A c, d \in mbBox : c.uid = d.uid => c = d
CallStands ==
  /\ mbCall \in MailCalls
  /\ mbCall.op = "move" => mbCall.todo \in MoveSteps
  /\ mbCall.op = "delete" => mbCall.todo \in DeleteSteps /\ mbCall.msg \in mbDoomed
  /\ mbCall.op # "none" =>
       /\ mbCall.uid < mbUid
       /\ \A c \in mbBox : c.uid = mbCall.uid => c.msg = mbCall.msg /\ c.folder = mbCall.from

LiveCopy(m) == \E c \in mbBox : c.msg = m /\ ~c.gone
NamedThere(call) == \E c \in mbBox : c.uid = call.uid
MovedCopy(call) == \E c \in mbBox : /\ c.msg = call.msg /\ c.folder = call.to /\ c.uid # call.uid
                                    /\ ~c.gone

\* A message nobody marked to go has a copy that stays, also when the one a move
\* names goes: that is where it is to go before its source is marked.
Covered ==
  /\ \A m \in (1..MbMessages) \ mbDoomed : LiveCopy(m)
  /\ mbCall.op = "move" /\ mbCall.msg \notin mbDoomed =>
       /\ NamedThere(mbCall) \/ MovedCopy(mbCall)
       /\ mbCall.todo \in DeleteSteps => MovedCopy(mbCall)
  /\ mbCall.op # "none" /\ mbCall.todo = <<"expunge">> =>
       \A c \in mbBox : c.uid = mbCall.uid => c.gone
ToldMoved ==
  mbTold.ok /\ mbCall.op = "none" /\ mbTold.op = "move" /\ mbTold.msg \notin mbDoomed =>
       /\ \E c \in mbBox : c.msg = mbTold.msg /\ c.folder = mbTold.to
       /\ \A c \in mbBox : c.uid # mbTold.uid

MbInv == MbCore /\ CallStands /\ Covered /\ ToldMoved

LEMMA StepsAre ==
  /\ Head(<<"move">>) = "move" /\ Len(<<"move">>) = 1
  /\ Head(<<"copy", "flag", "expunge">>) = "copy" /\ Len(<<"copy", "flag", "expunge">>) = 3
  /\ Tail(<<"copy", "flag", "expunge">>) = <<"flag", "expunge">>
  /\ Head(<<"flag", "expunge">>) = "flag" /\ Len(<<"flag", "expunge">>) = 2
  /\ Tail(<<"flag", "expunge">>) = <<"expunge">>
  /\ Head(<<"expunge">>) = "expunge" /\ Len(<<"expunge">>) = 1
  /\ <<"move">> \notin DeleteSteps /\ <<"copy", "flag", "expunge">> \notin DeleteSteps
  /\ <<"flag", "expunge">> # <<"expunge">> /\ <<"copy", "flag", "expunge">> # <<"expunge">>
  /\ <<"move">> # <<"expunge">>
BY DEF DeleteSteps

LEMMA CopyMarked ==
  ASSUME NEW c \in Copies, NEW d, d = [c EXCEPT !.gone = TRUE]
  PROVE  d = [msg |-> c.msg, uid |-> c.uid, folder |-> c.folder, gone |-> TRUE]
BY DEF Copies

LEMMA CopyMade ==
  ASSUME NEW c \in Copies, NEW uid, NEW to, NEW d, d = [c EXCEPT !.uid = uid, !.folder = to, !.gone = FALSE]
  PROVE  d = [msg |-> c.msg, uid |-> uid, folder |-> to, gone |-> FALSE]
BY DEF Copies

\* A command changes the box, and not what is to go.
MailStep(box, uid) == mbBox' = box /\ mbUid' = uid /\ UNCHANGED mbDoomed

\* The copy a move makes, if its source is there.
NewCopy(call) == [msg |-> call.msg, uid |-> mbUid, folder |-> call.to, gone |-> FALSE]

LEMMA CopiedIs ==
  ASSUME MbInv, NEW call, call = mbCall, call.op = "move"
  PROVE  /\ Copied(call) \subseteq {NewCopy(call)} /\ (NamedThere(call) => NewCopy(call) \in Copied(call))
         /\ NewCopy(call).uid = mbUid /\ NewCopy(call).msg = call.msg /\ NewCopy(call).folder = call.to
         /\ NewCopy(call).gone = FALSE /\ (NamedThere(call) => NewCopy(call) \in Copies)
         /\ (Copied(call) # {} => NewCopy(call) \in Copies)
         /\ mbUid \in Nat /\ call.uid < mbUid /\ call.uid \in Nat
         /\ \A c \in mbBox : c.uid < mbUid /\ c.uid \in Nat
         /\ \A c \in mbBox : c \in Named(call) <=> c.uid = call.uid
<1>1. /\ mbUid \in Nat /\ mbBox \subseteq Copies /\ call.to \in Folders
      /\ call.uid < mbUid /\ call.uid \in Nat
      /\ \A c \in mbBox : c.uid = call.uid => c.msg = call.msg /\ c.folder = call.from
      /\ \A c \in mbBox : c.uid < mbUid
  BY DEF MbInv, MbCore, CallStands, MailCalls
<1>2. \A c \in mbBox : c.uid \in Nat /\ c.msg \in Nat
  BY <1>1 DEF Copies
<1>3. \A c \in mbBox : c \in Named(call) <=> c.uid = call.uid
  BY <1>1 DEF Named
<1>4. \A c \in Named(call) :
        /\ [c EXCEPT !.uid = mbUid, !.folder = call.to, !.gone = FALSE] = NewCopy(call)
        /\ NewCopy(call) \in Copies
  <2> SUFFICES ASSUME NEW c \in Named(call)
               PROVE  /\ [c EXCEPT !.uid = mbUid, !.folder = call.to, !.gone = FALSE] = NewCopy(call)
                      /\ NewCopy(call) \in Copies
    OBVIOUS
  <2>1. c \in mbBox /\ c \in Copies /\ c.msg = call.msg
    BY <1>1 DEF Named
  <2>2. [c EXCEPT !.uid = mbUid, !.folder = call.to, !.gone = FALSE]
          = [msg |-> c.msg, uid |-> mbUid, folder |-> call.to, gone |-> FALSE]
    <3>1. PICK uid, to : uid = mbUid /\ to = call.to
      OBVIOUS
    <3>2. PICK d : d = [c EXCEPT !.uid = uid, !.folder = to, !.gone = FALSE]
      OBVIOUS
    <3>3. d = [msg |-> c.msg, uid |-> uid, folder |-> to, gone |-> FALSE]
      BY <2>1, <3>2, CopyMade
    <3> QED BY <3>1, <3>2, <3>3
  <2>3. call.msg \in Nat
    BY <1>2, <2>1
  <2> QED BY <1>1, <2>1, <2>2, <2>3 DEF NewCopy, Copies
<1>5. Copied(call) \subseteq {NewCopy(call)} /\ (Copied(call) # {} => NewCopy(call) \in Copies)
  BY <1>4 DEF Copied
<1>6. NamedThere(call) => NewCopy(call) \in Copied(call) /\ NewCopy(call) \in Copies
  BY <1>3, <1>4 DEF Copied, NamedThere
<1>7. /\ NewCopy(call).uid = mbUid /\ NewCopy(call).msg = call.msg /\ NewCopy(call).folder = call.to
      /\ NewCopy(call).gone = FALSE
  BY DEF NewCopy
<1> QED BY <1>1, <1>2, <1>3, <1>5, <1>6, <1>7

\* Copying or moving: the new copy is there if the source was.
LEMMA CopyDone ==
  ASSUME MbInv, NEW call, call = mbCall, call.op = "move", NEW left, left \subseteq mbBox,
         \A c \in mbBox : c \in left \/ c.uid = call.uid,
         MailStep(left \cup Copied(call), mbUid + 1)
  PROVE  /\ MbCore' /\ (\A m \in (1..MbMessages) \ mbDoomed : LiveCopy(m)')
         /\ call.msg \notin mbDoomed => MovedCopy(call)'
         /\ \A c \in mbBox' : c.uid = call.uid => c \in left
         /\ call.uid < mbUid'
<1>1. /\ mbBox' = left \cup Copied(call) /\ mbUid' = mbUid + 1 /\ UNCHANGED mbDoomed
  BY DEF MailStep
<1>2. /\ Copied(call) \subseteq {NewCopy(call)} /\ (NamedThere(call) => NewCopy(call) \in Copied(call))
      /\ NewCopy(call).uid = mbUid /\ NewCopy(call).msg = call.msg /\ NewCopy(call).folder = call.to
      /\ NewCopy(call).gone = FALSE /\ (Copied(call) # {} => NewCopy(call) \in Copies)
      /\ mbUid \in Nat /\ call.uid < mbUid /\ call.uid \in Nat
      /\ \A c \in mbBox : c.uid < mbUid /\ c.uid \in Nat
  BY CopiedIs
<1>3. MbCore'
  <2>1. mbBox' \subseteq Copies /\ mbUid' \in Nat
    BY <1>1, <1>2 DEF MbInv, MbCore
  <2>2. \A c \in mbBox' : c \in mbBox \/ c = NewCopy(call)
    BY <1>1, <1>2
  <2>3. \A c \in mbBox' : c.uid < mbUid'
    BY <1>1, <1>2, <2>2
  <2>4. \A c, d \in mbBox' : c.uid = d.uid => c = d
    BY <1>2, <2>2 DEF MbInv, MbCore
  <2> QED BY <2>1, <2>3, <2>4 DEF MbCore
<1>4. \A c \in mbBox' : c.uid = call.uid => c \in left
  BY <1>1, <1>2
<1>5. ASSUME call.msg \notin mbDoomed PROVE MovedCopy(call)'
  <2>1. CASE MovedCopy(call)
    <3>1. PICK c \in mbBox : c.msg = call.msg /\ c.folder = call.to /\ c.uid # call.uid /\ ~c.gone
      BY <2>1 DEF MovedCopy
    <3> QED BY <1>1, <3>1 DEF MovedCopy
  <2>2. CASE NamedThere(call)
    <3>1. NewCopy(call) \in mbBox' /\ NewCopy(call).uid # call.uid
      BY <1>1, <1>2, <2>2
    <3> QED BY <1>1, <1>2, <3>1 DEF MovedCopy
  <2> QED BY <1>5, <2>1, <2>2 DEF MbInv, Covered
<1>6. ASSUME NEW m \in (1..MbMessages) \ mbDoomed PROVE LiveCopy(m)'
  <2>1. PICK c \in mbBox : c.msg = m /\ ~c.gone
    BY DEF MbInv, Covered, LiveCopy
  <2>2. CASE c \in left
    BY <1>1, <2>1, <2>2 DEF LiveCopy
  <2>3. CASE c \notin left
    <3>1. c.uid = call.uid /\ c.msg = call.msg
      BY <2>3 DEF MbInv, CallStands
    <3>2. MovedCopy(call)'
      BY <1>5, <2>1, <3>1
    <3> QED BY <1>1, <2>1, <3>1, <3>2 DEF MovedCopy, LiveCopy
  <2> QED BY <2>2, <2>3
<1>7. call.uid < mbUid'
  BY <1>1, <1>2
<1> QED BY <1>3, <1>4, <1>5, <1>6, <1>7

\* Marking the source: what it holds has another copy, or was to go.
LEMMA FlagDone ==
  ASSUME MbInv, NEW call, call = mbCall, call.op # "none", call.todo = <<"flag", "expunge">>, MailStep(mbBox', mbUid),
         mbBox' = (mbBox \ Named(call)) \cup {[c EXCEPT !.gone = TRUE] : c \in Named(call)}
  PROVE  /\ MbCore' /\ (\A m \in (1..MbMessages) \ mbDoomed : LiveCopy(m)')
         /\ call.op = "move" /\ call.msg \notin mbDoomed => MovedCopy(call)'
         /\ \A c \in mbBox' : c.uid = call.uid =>
              c.msg = call.msg /\ c.folder = call.from /\ c.gone
<1>1. /\ mbUid' = mbUid /\ UNCHANGED mbDoomed /\ mbUid \in Nat /\ mbBox \subseteq Copies
      /\ \A c \in mbBox : c.uid = call.uid => c.msg = call.msg /\ c.folder = call.from
      /\ \A c, d \in mbBox : c.uid = d.uid => c = d
      /\ \A c \in mbBox : c.uid < mbUid
  BY DEF MailStep, MbInv, MbCore, CallStands
<1>2. \A c \in mbBox : c \in Named(call) <=> c.uid = call.uid
  BY <1>1 DEF Named
<1>3. \A d \in mbBox' : \/ d \in mbBox /\ d.uid # call.uid
                        \/ \E c \in mbBox : /\ c.uid = call.uid /\ c \in Copies
                                            /\ d = [msg |-> c.msg, uid |-> c.uid, folder |-> c.folder,
                                                    gone |-> TRUE]
  <2> SUFFICES ASSUME NEW d \in mbBox', d \notin mbBox \ Named(call)
               PROVE  \E c \in mbBox : /\ c.uid = call.uid /\ c \in Copies
                                       /\ d = [msg |-> c.msg, uid |-> c.uid, folder |-> c.folder,
                                               gone |-> TRUE]
    BY <1>2
  <2>1. PICK c \in Named(call) : d = [c EXCEPT !.gone = TRUE]
    OBVIOUS
  <2>2. c \in mbBox /\ c \in Copies /\ c.uid = call.uid
    BY <1>1, <1>2 DEF Named
  <2>3. d = [msg |-> c.msg, uid |-> c.uid, folder |-> c.folder, gone |-> TRUE]
    BY <2>1, <2>2, CopyMarked
  <2> QED BY <2>2, <2>3
<1>4. ASSUME NEW d \in mbBox', d.uid = call.uid
      PROVE  /\ d.msg = call.msg /\ d.folder = call.from /\ d.gone /\ d \in Copies
             /\ d.uid < mbUid
             /\ d = [msg |-> call.msg, uid |-> call.uid, folder |-> call.from, gone |-> TRUE]
  <2>1. PICK c \in mbBox : /\ c.uid = call.uid /\ c \in Copies
                           /\ d = [msg |-> c.msg, uid |-> c.uid, folder |-> c.folder, gone |-> TRUE]
    BY <1>3, <1>4
  <2>2. c.msg = call.msg /\ c.folder = call.from /\ c.uid < mbUid
    BY <1>1, <2>1
  <2>3. c.msg \in Nat /\ c.uid \in Nat /\ c.folder \in Folders
    BY <2>1 DEF Copies
  <2> QED BY <2>1, <2>2, <2>3 DEF Copies
<1>5. ASSUME NEW d \in mbBox', d.uid # call.uid PROVE d \in mbBox
  BY <1>3, <1>5
<1>6. MbCore'
  <2>1. ASSUME NEW c \in mbBox', NEW d \in mbBox', c.uid = d.uid PROVE c = d
    <3>1. CASE c.uid = call.uid
      <4>1. /\ c = [msg |-> call.msg, uid |-> call.uid, folder |-> call.from, gone |-> TRUE]
            /\ d = [msg |-> call.msg, uid |-> call.uid, folder |-> call.from, gone |-> TRUE]
        BY <1>4, <2>1, <3>1
      <4> QED BY <4>1
    <3>2. CASE c.uid # call.uid
      BY <1>1, <1>5, <2>1, <3>2
    <3> QED BY <3>1, <3>2
  <2>2. \A c \in mbBox' : c \in Copies /\ c.uid < mbUid'
    BY <1>1, <1>4, <1>5
  <2> QED BY <1>1, <2>1, <2>2 DEF MbCore
<1>7. \A c \in mbBox : c.uid # call.uid => c \in mbBox'
  BY <1>2
<1>8. ASSUME call.op = "move", call.msg \notin mbDoomed PROVE MovedCopy(call) /\ MovedCopy(call)'
  <2>1. MovedCopy(call)
    BY <1>8 DEF MbInv, Covered, DeleteSteps
  <2>2. PICK c \in mbBox : c.msg = call.msg /\ c.folder = call.to /\ c.uid # call.uid /\ ~c.gone
    BY <2>1 DEF MovedCopy
  <2> QED BY <1>1, <1>7, <2>1, <2>2 DEF MovedCopy
<1>9. ASSUME NEW m \in (1..MbMessages) \ mbDoomed PROVE LiveCopy(m)'
  <2>1. PICK c \in mbBox : c.msg = m /\ ~c.gone
    BY DEF MbInv, Covered, LiveCopy
  <2>2. CASE c.uid # call.uid
    BY <1>7, <2>1, <2>2 DEF LiveCopy
  <2>3. CASE c.uid = call.uid
    <3>1. call.msg = m /\ call.op = "move"
      BY <1>1, <2>1, <2>3 DEF MbInv, CallStands, MailCalls
    <3>2. MovedCopy(call)'
      BY <1>8, <3>1
    <3> QED BY <1>1, <3>1, <3>2 DEF MovedCopy, LiveCopy
  <2> QED BY <2>2, <2>3
<1> QED BY <1>4, <1>6, <1>8, <1>9

\* An expunge takes only what is marked, and the source is.
LEMMA ExpungeDone ==
  ASSUME MbInv, NEW call, call = mbCall, call.op # "none", call.todo = <<"expunge">>, MailStep(mbBox', mbUid),
         mbBox' = mbBox \ Purged(call)
  PROVE  /\ MbCore' /\ (\A m \in (1..MbMessages) \ mbDoomed : LiveCopy(m)')
         /\ call.op = "move" /\ call.msg \notin mbDoomed => MovedCopy(call)'
         /\ \A c \in mbBox' : c.uid # call.uid
<1>1. /\ mbUid' = mbUid /\ UNCHANGED mbDoomed /\ mbBox' \subseteq mbBox
      /\ \A c \in mbBox : ~c.gone => c \in mbBox'
  BY DEF MailStep, Purged
<1>2. MbCore'
  BY <1>1 DEF MbInv, MbCore
<1>3. \A m \in (1..MbMessages) \ mbDoomed : LiveCopy(m)'
  BY <1>1 DEF MbInv, Covered, LiveCopy
<1>4. ASSUME call.op = "move", call.msg \notin mbDoomed PROVE MovedCopy(call)'
  <2>1. MovedCopy(call)
    BY <1>4 DEF MbInv, Covered, DeleteSteps
  <2> QED BY <1>1, <2>1 DEF MovedCopy
<1>5. \A c \in mbBox' : c.uid # call.uid
  BY <1>1 DEF MbInv, CallStands, Covered, Purged
<1> QED BY <1>2, <1>3, <1>4, <1>5

\* What a call is when it is made again.
LEMMA CallIs ==
  ASSUME NEW c \in MailCalls, NEW todo \in MoveSteps,
         NEW d, d = [op |-> c.op, msg |-> c.msg, uid |-> c.uid, from |-> c.from, to |-> c.to,
                     todo |-> todo, tries |-> 2]
  PROVE  /\ d.op = c.op /\ d.msg = c.msg /\ d.uid = c.uid /\ d.from = c.from /\ d.to = c.to
         /\ d.todo = todo /\ d \in MailCalls
<1>1. /\ c.op \in {"none", "move", "delete"} /\ c.msg \in Nat /\ c.uid \in Nat
      /\ c.from \in Folders /\ c.to \in Folders
  BY DEF MailCalls
<1> QED BY <1>1 DEF MailCalls

\* And when another of its commands is due.
LEMMA NextDue ==
  ASSUME NEW c \in MailCalls, NEW todo \in MoveSteps, NEW d, d = [c EXCEPT !.todo = todo]
  PROVE  /\ d.op = c.op /\ d.msg = c.msg /\ d.uid = c.uid /\ d.from = c.from /\ d.to = c.to
         /\ d.todo = todo /\ d \in MailCalls
<1>1. d = [op |-> c.op, msg |-> c.msg, uid |-> c.uid, from |-> c.from, to |-> c.to,
           todo |-> todo, tries |-> c.tries]
  BY DEF MailCalls
<1>2. /\ c.op \in {"none", "move", "delete"} /\ c.msg \in Nat /\ c.uid \in Nat
      /\ c.from \in Folders /\ c.to \in Folders /\ c.tries \in 0..2
  BY DEF MailCalls
<1> QED BY <1>1, <1>2 DEF MailCalls

\* A call that is over leaves nothing to complete; what it is told is true.
LEMMA CallOver ==
  ASSUME MbInv, MbCore', \A m \in (1..MbMessages) \ mbDoomed' : LiveCopy(m)', mbCall' = NoMailCall,
         mbTold'.ok /\ mbTold'.op = "move" /\ mbTold'.msg \notin mbDoomed' =>
           /\ \E c \in mbBox' : c.msg = mbTold'.msg /\ c.folder = mbTold'.to
           /\ \A c \in mbBox' : c.uid # mbTold'.uid
  PROVE  MbInv'
<1>1. NoMailCall \in MailCalls /\ NoMailCall.op = "none"
  BY DEF NoMailCall, MailCalls, Folders
<1>2. CallStands'
  BY <1>1 DEF CallStands
<1>3. Covered'
  BY <1>1 DEF Covered
<1>4. ToldMoved'
  BY DEF ToldMoved
<1> QED BY <1>2, <1>3, <1>4 DEF MbInv

\* A call that goes on: its commands are a rest of the list, its source stands where
\* it stood or is gone, and what it moves is covered.
LEMMA CallGoesOn ==
  ASSUME MbInv, MbCore', NEW call, call = mbCall, call.op # "none", NEW todo \in MoveSteps,
         \A m \in (1..MbMessages) \ mbDoomed' : LiveCopy(m)',
         mbCall' \in MailCalls, mbCall'.op = call.op, mbCall'.msg = call.msg, mbCall'.uid = call.uid,
         mbCall'.from = call.from, mbCall'.to = call.to, mbCall'.todo = todo,
         call.op = "delete" => todo \in DeleteSteps, mbDoomed' = mbDoomed, mbUid <= mbUid', mbUid' \in Nat,
         \A c \in mbBox' : c.uid = call.uid => c.msg = call.msg /\ c.folder = call.from,
         todo = <<"expunge">> => \A c \in mbBox' : c.uid = call.uid => c.gone,
         call.op = "move" /\ call.msg \notin mbDoomed =>
           /\ NamedThere(call)' \/ MovedCopy(call)'
           /\ todo \in DeleteSteps => MovedCopy(call)'
  PROVE  MbInv'
<1>1. call.uid \in Nat /\ call.uid < mbUid /\ mbUid \in Nat /\ (call.op = "delete" => call.msg \in mbDoomed)
  BY DEF MbInv, MbCore, CallStands, MailCalls
<1>2. call.uid < mbUid'
  BY <1>1
<1>3. CallStands'
  BY <1>1, <1>2 DEF CallStands
<1>4. /\ NamedThere(call)' => NamedThere(mbCall)'
      /\ MovedCopy(call)' => MovedCopy(mbCall)'
  BY DEF NamedThere, MovedCopy
<1>5. Covered'
  BY <1>4 DEF Covered
<1>6. ToldMoved'
  BY DEF ToldMoved
<1> QED BY <1>3, <1>5, <1>6 DEF MbInv

\* What holds once a command is done, whether or not the call knows.
CommandDone(call) ==
  /\ MbCore' /\ (\A m \in (1..MbMessages) \ mbDoomed : LiveCopy(m)') /\ mbUid <= mbUid'
  /\ \A c \in mbBox' : c.uid = call.uid => c.msg = call.msg /\ c.folder = call.from
  /\ call.op = "move" /\ call.msg \notin mbDoomed => NamedThere(call)' \/ MovedCopy(call)'
  /\ Len(call.todo) = 1 /\ call.op = "move" /\ call.msg \notin mbDoomed =>
       MovedCopy(call)' /\ \A c \in mbBox' : c.uid # call.uid
  /\ Len(call.todo) # 1 =>
       /\ Tail(call.todo) \in DeleteSteps
       /\ call.op = "move" /\ call.msg \notin mbDoomed => MovedCopy(call)'
       /\ Tail(call.todo) = <<"expunge">> => \A c \in mbBox' : c.uid = call.uid => c.gone

LEMMA CommandsDone ==
  ASSUME MbInv, NEW call, call = mbCall, call.op # "none", Does(Head(call.todo), call),
         UNCHANGED mbDoomed
  PROVE  CommandDone(call)
<1>1. /\ mbUid \in Nat
      /\ \A c \in mbBox : c.uid = call.uid => c.msg = call.msg /\ c.folder = call.from
      /\ call.op = "move" => call.todo \in MoveSteps
      /\ call.op = "delete" => call.todo \in DeleteSteps
      /\ call.op \in {"move", "delete"}
  BY DEF MbInv, MbCore, CallStands, MailCalls
<1>2. CASE call.op = "move" /\ call.todo = <<"move">>
  <2>1. mbBox' = (mbBox \ Named(call)) \cup Copied(call) /\ mbUid' = mbUid + 1
    BY <1>2, StepsAre DEF Does
  <2>2. MailStep((mbBox \ Named(call)) \cup Copied(call), mbUid + 1)
    BY <2>1 DEF MailStep
  <2>3. \A c \in mbBox : c \in Named(call) <=> c.uid = call.uid
    BY <1>1 DEF Named
  <2> DEFINE left == mbBox \ Named(call)
  <2>4. left \subseteq mbBox /\ \A c \in mbBox : c \in left \/ c.uid = call.uid
    BY <2>3
  <2>5. \A c \in left : c.uid # call.uid
    BY <2>3
  <2>6. MailStep(left \cup Copied(call), mbUid + 1)
    BY <2>2
  <2> HIDE DEF left
  <2>7. /\ MbCore' /\ (\A m \in (1..MbMessages) \ mbDoomed : LiveCopy(m)')
        /\ call.msg \notin mbDoomed => MovedCopy(call)'
        /\ \A c \in mbBox' : c.uid = call.uid => c \in left
    BY <1>2, <2>4, <2>6, CopyDone
  <2>8. \A c \in mbBox' : c.uid # call.uid
    BY <2>5, <2>7
  <2>9. Len(call.todo) = 1
    BY <1>2, StepsAre
  <2> QED BY <1>1, <2>1, <2>7, <2>8, <2>9 DEF CommandDone
<1>3. CASE call.op = "move" /\ call.todo = <<"copy", "flag", "expunge">>
  <2>1. mbBox' = mbBox \cup Copied(call) /\ mbUid' = mbUid + 1
    BY <1>3, StepsAre DEF Does
  <2>2. MailStep(mbBox \cup Copied(call), mbUid + 1)
    BY <2>1 DEF MailStep
  <2>3. /\ MbCore' /\ (\A m \in (1..MbMessages) \ mbDoomed : LiveCopy(m)')
        /\ call.msg \notin mbDoomed => MovedCopy(call)'
        /\ \A c \in mbBox' : c.uid = call.uid => c \in mbBox
    BY <1>3, <2>2, CopyDone
  <2>4. /\ Len(call.todo) # 1 /\ Tail(call.todo) = <<"flag", "expunge">>
        /\ Tail(call.todo) \in DeleteSteps /\ Tail(call.todo) # <<"expunge">>
    BY <1>3, StepsAre DEF DeleteSteps
  <2> QED BY <1>1, <1>3, <2>1, <2>3, <2>4 DEF CommandDone
<1>4. CASE call.todo = <<"flag", "expunge">>
  <2>1. /\ mbBox' = (mbBox \ Named(call)) \cup {[c EXCEPT !.gone = TRUE] : c \in Named(call)}
        /\ mbUid' = mbUid
    BY <1>4, StepsAre DEF Does
  <2>2. MailStep(mbBox', mbUid)
    BY <2>1 DEF MailStep
  <2>3. /\ MbCore' /\ (\A m \in (1..MbMessages) \ mbDoomed : LiveCopy(m)')
        /\ call.op = "move" /\ call.msg \notin mbDoomed => MovedCopy(call)'
        /\ \A c \in mbBox' : c.uid = call.uid =>
             c.msg = call.msg /\ c.folder = call.from /\ c.gone
    BY <1>4, <2>1, <2>2, FlagDone
  <2>4. Len(call.todo) # 1 /\ Tail(call.todo) \in DeleteSteps
    BY <1>4, StepsAre DEF DeleteSteps
  <2> QED BY <1>1, <2>1, <2>3, <2>4 DEF CommandDone
<1>5. CASE call.todo = <<"expunge">>
  <2>1. mbBox' = mbBox \ Purged(call) /\ mbUid' = mbUid
    BY <1>5, StepsAre DEF Does
  <2>2. MailStep(mbBox', mbUid)
    BY <2>1 DEF MailStep
  <2>3. /\ MbCore' /\ (\A m \in (1..MbMessages) \ mbDoomed : LiveCopy(m)')
        /\ call.op = "move" /\ call.msg \notin mbDoomed => MovedCopy(call)'
        /\ \A c \in mbBox' : c.uid # call.uid
    BY <1>5, <2>1, <2>2, ExpungeDone
  <2>4. Len(call.todo) = 1
    BY <1>5, StepsAre
  <2> QED BY <1>1, <2>1, <2>3, <2>4 DEF CommandDone
<1> QED BY <1>1, <1>2, <1>3, <1>4, <1>5 DEF MoveSteps, DeleteSteps

\* A call that is told what happened.
LEMMA ToldAndOver ==
  ASSUME MbInv, NEW ok \in BOOLEAN, Tells(ok), MbCore', mbDoomed' = mbDoomed,
         \A m \in (1..MbMessages) \ mbDoomed : LiveCopy(m)',
         ok /\ mbCall.op = "move" /\ mbCall.msg \notin mbDoomed =>
           /\ \E c \in mbBox' : c.msg = mbCall.msg /\ c.folder = mbCall.to
           /\ \A c \in mbBox' : c.uid # mbCall.uid
  PROVE  MbInv'
<1>1. /\ mbTold'.op = mbCall.op /\ mbTold'.msg = mbCall.msg /\ mbTold'.uid = mbCall.uid
      /\ mbTold'.to = mbCall.to /\ mbTold'.ok = ok /\ mbCall' = NoMailCall
  BY DEF Tells
<1> QED BY <1>1, CallOver

LEMMA CommandKeeps ==
  ASSUME MbInv, MbCommand
  PROVE  MbInv'
<1>2. PICK call : call = mbCall
  OBVIOUS
<1>1. call.op # "none" /\ Does(Head(call.todo), call) /\ mbDoomed' = mbDoomed
  BY <1>2 DEF MbCommand
<1>3. CommandDone(call)
  BY <1>1, <1>2, CommandsDone
<1>4. CASE Len(mbCall.todo) = 1
  <2>1. Tells(TRUE)
    BY <1>4 DEF MbCommand
  <2>2. call.op = "move" /\ call.msg \notin mbDoomed =>
          MovedCopy(call)' /\ \A c \in mbBox' : c.uid # call.uid
    BY <1>2, <1>3, <1>4 DEF CommandDone
  <2>3. mbCall.op = "move" /\ mbCall.msg \notin mbDoomed =>
           /\ \E c \in mbBox' : c.msg = mbCall.msg /\ c.folder = mbCall.to
           /\ \A c \in mbBox' : c.uid # mbCall.uid
    BY <1>2, <2>2 DEF MovedCopy
  <2>4. MbCore' /\ \A m \in (1..MbMessages) \ mbDoomed : LiveCopy(m)'
    BY <1>3 DEF CommandDone
  <2> QED BY <1>1, <2>1, <2>3, <2>4, ToldAndOver
<1>5. CASE Len(mbCall.todo) # 1
  <2>1. PICK todo : todo = Tail(call.todo)
    OBVIOUS
  <2>2. mbCall' = [call EXCEPT !.todo = todo]
    BY <1>2, <1>5, <2>1 DEF MbCommand
  <2>3. /\ todo \in DeleteSteps /\ todo \in MoveSteps
        /\ MbCore' /\ (\A m \in (1..MbMessages) \ mbDoomed : LiveCopy(m)') /\ mbUid <= mbUid'
        /\ \A c \in mbBox' : c.uid = call.uid => c.msg = call.msg /\ c.folder = call.from
        /\ call.op = "move" /\ call.msg \notin mbDoomed => MovedCopy(call)'
        /\ todo = <<"expunge">> => \A c \in mbBox' : c.uid = call.uid => c.gone
    <3>1. DeleteSteps \subseteq MoveSteps
      BY DEF DeleteSteps, MoveSteps
    <3> QED BY <1>2, <1>3, <1>5, <2>1, <3>1 DEF CommandDone
  <2>4. call \in MailCalls
    BY <1>2 DEF MbInv, CallStands
  <2>5. /\ mbCall'.op = call.op /\ mbCall'.msg = call.msg /\ mbCall'.uid = call.uid
        /\ mbCall'.from = call.from /\ mbCall'.to = call.to
        /\ mbCall'.todo = todo /\ mbCall' \in MailCalls
    BY <2>2, <2>3, <2>4, NextDue
  <2>6. mbUid' \in Nat
    BY <2>3 DEF MbCore
  <2> QED BY <1>1, <1>2, <2>3, <2>5, <2>6, CallGoesOn
<1> QED BY <1>4, <1>5

\* A command that fails, done or not: the call is made again, or is over.
LEMMA FailureKeeps ==
  ASSUME MbInv, MbFails
  PROVE  MbInv'
<1>1. PICK call : call = mbCall
  OBVIOUS
<1>2. call.op # "none" /\ mbDoomed' = mbDoomed
  BY <1>1 DEF MbFails
<1>3. /\ MbCore' /\ (\A m \in (1..MbMessages) \ mbDoomed : LiveCopy(m)') /\ mbUid <= mbUid'
      /\ \A c \in mbBox' : c.uid = call.uid => c.msg = call.msg /\ c.folder = call.from
      /\ call.op = "move" /\ call.msg \notin mbDoomed => NamedThere(call)' \/ MovedCopy(call)'
  <2>1. CASE UNCHANGED mbServer
    <3>1. mbBox' = mbBox /\ mbUid' = mbUid
      BY <2>1 DEF mbServer
    <3>2. MbCore' /\ (\A m \in (1..MbMessages) \ mbDoomed : LiveCopy(m)') /\ mbUid <= mbUid'
      BY <3>1 DEF MbInv, MbCore, Covered, LiveCopy
    <3>3. call.op = "move" /\ call.msg \notin mbDoomed => NamedThere(call) \/ MovedCopy(call)
      BY <1>1 DEF MbInv, Covered
    <3>4. call.op = "move" /\ call.msg \notin mbDoomed => NamedThere(call)' \/ MovedCopy(call)'
      BY <3>1, <3>3 DEF NamedThere, MovedCopy
    <3> QED BY <1>1, <1>2, <3>1, <3>2, <3>4 DEF MbInv, CallStands
  <2>2. CASE Does(Head(mbCall.todo), mbCall)
    <3>1. CommandDone(call)
      BY <1>1, <1>2, <2>2, CommandsDone
    <3> QED BY <3>1 DEF CommandDone
  <2> QED BY <2>1, <2>2 DEF MbFails
<1>4. CASE mbCall.tries = 1
  <2>1. PICK todo : todo = Commands(call.op)
    OBVIOUS
  <2>2. mbCall' = [call EXCEPT !.todo = todo, !.tries = 2]
    BY <1>1, <1>4, <2>1 DEF MbFails
  <2>3. call \in MailCalls
    BY <1>1 DEF MbInv, CallStands
  <2>4. /\ todo \in MoveSteps /\ todo # <<"expunge">>
        /\ call.op = "move" => todo \notin DeleteSteps
        /\ call.op = "delete" => todo \in DeleteSteps
    <3>1. call.op \in {"move", "delete"}
      BY <1>2, <2>3 DEF MailCalls
    <3> QED BY <2>1, <3>1, StepsAre DEF Commands, MoveSteps, DeleteSteps
  <2>5. /\ mbCall'.op = call.op /\ mbCall'.msg = call.msg /\ mbCall'.uid = call.uid
        /\ mbCall'.from = call.from /\ mbCall'.to = call.to
        /\ mbCall'.todo = todo /\ mbCall' \in MailCalls
    <3>1. mbCall' = [op |-> call.op, msg |-> call.msg, uid |-> call.uid, from |-> call.from,
                     to |-> call.to, todo |-> todo, tries |-> 2]
      BY <2>2, <2>3 DEF MailCalls
    <3>2. todo \in MoveSteps
      BY <2>4
    <3> QED BY <2>3, <3>1, <3>2, CallIs
  <2>6. mbUid' \in Nat
    BY <1>3 DEF MbCore
  <2> QED BY <1>1, <1>2, <1>3, <2>4, <2>5, <2>6, CallGoesOn
<1>5. CASE mbCall.tries # 1
  <2>1. Tells(FALSE)
    BY <1>5 DEF MbFails
  <2> QED BY <1>2, <1>3, <2>1, ToldAndOver
<1> QED BY <1>4, <1>5

\* A call that starts: the copy it names is there.
LEMMA StartKeeps ==
  ASSUME MbInv, MbAsks
  PROVE  MbInv'
<1>1. PICK op \in {"move", "delete"}, c \in mbBox, dest \in Folders : MbStarts(op, c, dest)
  BY DEF MbAsks
<1>2. PICK does \in {"move", "delete"} :
        /\ mbCall' = [op |-> does, msg |-> c.msg, uid |-> c.uid, from |-> c.folder,
                      to |-> dest, todo |-> Commands(does), tries |-> 1]
        /\ mbDoomed' = IF does = "move" THEN mbDoomed ELSE mbDoomed \cup {c.msg}
        /\ mbBox' = mbBox /\ mbUid' = mbUid /\ mbTold' = mbTold
  <2>1. CASE op = "move" \/ (mbCaps.trash /\ c.folder # "trash")
    <3> WITNESS "move" \in {"move", "delete"}
    <3> QED BY <1>1, <2>1 DEF MbStarts, mbServer
  <2>2. CASE ~(op = "move" \/ (mbCaps.trash /\ c.folder # "trash"))
    <3> WITNESS "delete" \in {"move", "delete"}
    <3> QED BY <1>1, <2>2 DEF MbStarts, mbServer
  <2> QED BY <2>1, <2>2
<1>3. /\ Commands(does) \in MoveSteps /\ Commands(does) # <<"expunge">>
      /\ does = "move" => Commands(does) \notin DeleteSteps
      /\ does = "delete" => Commands(does) \in DeleteSteps
  BY StepsAre DEF Commands, MoveSteps, DeleteSteps
<1>4. c \in Copies /\ c.uid < mbUid /\ mbUid \in Nat
  BY DEF MbInv, MbCore
<1>5. c.msg \in Nat /\ c.uid \in Nat /\ c.folder \in Folders
  BY <1>4 DEF Copies
<1>6. MbCore'
  BY <1>2 DEF MbInv, MbCore
<1>7. /\ mbCall'.op = does /\ mbCall'.msg = c.msg /\ mbCall'.uid = c.uid /\ mbCall'.from = c.folder
      /\ mbCall'.todo = Commands(does) /\ mbCall'.to = dest
  BY <1>2
<1>8. mbCall' \in MailCalls
  BY <1>2, <1>3, <1>5 DEF MailCalls
<1>9. CallStands'
  <2>1. \A d \in mbBox : d.uid = c.uid => d = c
    BY DEF MbInv, MbCore
  <2>2. does = "delete" => c.msg \in mbDoomed'
    BY <1>2
  <2> QED BY <1>2, <1>3, <1>4, <1>7, <1>8, <2>1, <2>2 DEF CallStands
<1>10. Covered'
  <2>1. \A m \in (1..MbMessages) \ mbDoomed' : LiveCopy(m)'
    BY <1>2 DEF MbInv, Covered, LiveCopy
  <2>2. NamedThere(mbCall)'
    BY <1>2, <1>7 DEF NamedThere
  <2> QED BY <1>3, <1>7, <2>1, <2>2 DEF Covered
<1>11. ToldMoved'
  BY <1>7 DEF ToldMoved
<1> QED BY <1>6, <1>9, <1>10, <1>11 DEF MbInv

LEMMA MarkKeeps ==
  ASSUME MbInv, NEW c \in mbBox, MbOtherMarks(c)
  PROVE  MbInv'
<1> DEFINE marked == [msg |-> c.msg, uid |-> c.uid, folder |-> c.folder, gone |-> TRUE]
<1>1. c \in Copies /\ mbBox \subseteq Copies /\ mbUid \in Nat
  BY DEF MbInv, MbCore
<1>2. [c EXCEPT !.gone = TRUE] = marked
  BY <1>1, CopyMarked
<1>3. /\ mbBox' = (mbBox \ {c}) \cup {marked} /\ mbDoomed = {} /\ mbDoomed' = {c.msg} /\ ~c.gone
      /\ mbUid' = mbUid /\ mbCall' = mbCall /\ mbTold' = mbTold
  BY <1>2 DEF MbOtherMarks
<1>4. /\ marked \in Copies /\ marked.uid = c.uid /\ marked.msg = c.msg /\ marked.folder = c.folder
      /\ marked.gone
  BY <1>1 DEF Copies
<1>5. PICK d : d = marked
  OBVIOUS
<1> HIDE DEF marked
<1>6. /\ d \in Copies /\ d.uid = c.uid /\ d.msg = c.msg /\ d.folder = c.folder /\ d.gone
      /\ mbBox' = (mbBox \ {c}) \cup {d}
  BY <1>3, <1>4, <1>5
<1>7. MbCore'
  <2>1. \A e, f \in mbBox' : e.uid = f.uid => e = f
    BY <1>6 DEF MbInv, MbCore
  <2>2. \A e \in mbBox' : e \in Copies /\ e.uid < mbUid
    BY <1>6 DEF MbInv, MbCore
  <2> QED BY <1>1, <1>3, <2>1, <2>2 DEF MbCore
<1>8. CallStands'
  BY <1>3, <1>6 DEF MbInv, CallStands
<1>9. Covered'
  <2>1. ASSUME NEW m \in (1..MbMessages) \ mbDoomed' PROVE LiveCopy(m)'
    <3>1. m # c.msg /\ LiveCopy(m)
      BY <1>3 DEF MbInv, Covered
    <3> QED BY <1>6, <3>1 DEF LiveCopy
  <2>2. ASSUME mbCall.op = "move", mbCall.msg \notin mbDoomed'
        PROVE  /\ NamedThere(mbCall)' \/ MovedCopy(mbCall)'
               /\ mbCall.todo \in DeleteSteps => MovedCopy(mbCall)'
    <3>1. /\ NamedThere(mbCall) \/ MovedCopy(mbCall)
          /\ mbCall.todo \in DeleteSteps => MovedCopy(mbCall)
      BY <1>3, <2>2 DEF MbInv, Covered
    <3>2. NamedThere(mbCall) => NamedThere(mbCall)'
      BY <1>3, <1>6 DEF NamedThere
    <3>3. MovedCopy(mbCall) => MovedCopy(mbCall)'
      BY <1>3, <1>6, <2>2 DEF MovedCopy
    <3> QED BY <3>1, <3>2, <3>3
  <2>3. mbCall.op # "none" /\ mbCall.todo = <<"expunge">> =>
          \A e \in mbBox' : e.uid = mbCall.uid => e.gone
    BY <1>6 DEF MbInv, Covered
  <2> QED BY <1>3, <2>1, <2>2, <2>3 DEF Covered
<1>10. ToldMoved'
  BY <1>3, <1>6 DEF MbInv, ToldMoved
<1> QED BY <1>7, <1>8, <1>9, <1>10 DEF MbInv

LEMMA MailStarts == MbInit => MbInv
<1> SUFFICES ASSUME MbInit PROVE MbInv
  OBVIOUS
<1>1. MbMessages \in Nat
  BY MailboxAssumption
<1>2. /\ mbBox = {[msg |-> m, uid |-> m, folder |-> "inbox", gone |-> FALSE] : m \in 1..MbMessages}
      /\ mbUid = MbMessages + 1 /\ mbCall = NoMailCall /\ ~mbTold.ok
  BY DEF MbInit, NotTold
<1>3. MbCore
  <2>1. \A c \in mbBox : /\ c.uid \in 1..MbMessages
                         /\ c = [msg |-> c.uid, uid |-> c.uid, folder |-> "inbox", gone |-> FALSE]
    BY <1>2
  <2>2. \A c \in mbBox : c \in Copies
    <3>1. ASSUME NEW m \in 1..MbMessages
          PROVE  [msg |-> m, uid |-> m, folder |-> "inbox", gone |-> FALSE] \in Copies
      BY <1>1 DEF Copies, Folders
    <3> QED BY <1>2, <3>1
  <2>3. \A c, d \in mbBox : c.uid = d.uid => c = d
    BY <2>1
  <2> QED BY <1>1, <1>2, <2>1, <2>2, <2>3 DEF MbCore
<1>4. CallStands
  BY <1>2 DEF CallStands, NoMailCall, MailCalls, Folders
<1>5. Covered
  <2>1. ASSUME NEW m \in 1..MbMessages PROVE LiveCopy(m)
    <3>1. [msg |-> m, uid |-> m, folder |-> "inbox", gone |-> FALSE] \in mbBox
      BY <1>2
    <3> QED BY <3>1 DEF LiveCopy
  <2>2. mbCall.op = "none"
    BY <1>2 DEF NoMailCall
  <2> QED BY <2>1, <2>2 DEF Covered
<1>6. ToldMoved
  BY <1>2 DEF ToldMoved
<1> QED BY <1>3, <1>4, <1>5, <1>6 DEF MbInv

LEMMA MailSteps ==
  ASSUME MbInv, [MbNext]_mbVars
  PROVE  MbInv'
<1>1. ASSUME mbBox' = mbBox, mbUid' = mbUid, mbCall' = mbCall, mbTold' = mbTold, mbDoomed' = mbDoomed
      PROVE  MbInv'
  BY <1>1 DEF MbInv, MbCore, CallStands, Covered, LiveCopy, NamedThere, MovedCopy, ToldMoved
<1>2. CASE MbAsks
  BY <1>2, StartKeeps
<1>3. CASE MbConnects
  BY <1>1, <1>3 DEF MbConnects, mbServer
<1>4. CASE MbNoConnection
  <2>1. Tells(FALSE) /\ mbBox' = mbBox /\ mbUid' = mbUid /\ mbDoomed' = mbDoomed
    BY <1>4 DEF MbNoConnection, mbServer
  <2>2. MbCore' /\ \A m \in (1..MbMessages) \ mbDoomed : LiveCopy(m)'
    BY <2>1 DEF MbInv, MbCore, Covered, LiveCopy
  <2> QED BY <2>1, <2>2, ToldAndOver
<1>5. CASE MbCommand
  BY <1>5, CommandKeeps
<1>6. CASE MbFails
  BY <1>6, FailureKeeps
<1>7. CASE MbCloses
  BY <1>1, <1>7 DEF MbCloses, mbServer
<1>8. CASE \E c \in mbBox : MbOtherMarks(c)
  BY <1>8, MarkKeeps
<1>9. CASE UNCHANGED mbVars
  BY <1>1, <1>9 DEF mbVars
<1> QED BY <1>2, <1>3, <1>4, <1>5, <1>6, <1>7, <1>8, <1>9 DEF MbNext

LEMMA MailInvKept == MbInv => MailKept
BY DEF MbInv, Covered, LiveCopy, ToldMoved, MailKept

LEMMA MbAlways == MbSpec => []MbInv
<1>1. MbInv /\ [MbNext]_mbVars => MbInv'
  BY MailSteps
<1> QED BY <1>1, MailStarts, PTL DEF MbSpec

\* However often the connection fails in a call, and whatever the server can do, no message is lost
\* that nobody marked to go, and one that was reported moved is where it was to go.
THEOREM MailStays == MbSpec => []MailKept
BY MbAlways, MailInvKept, PTL

\* What the types add: the messages are those of the start, and the counts are bounded.
MbBounded ==
  /\ mbCaps \in Capabilities /\ \A c \in mbBox : c.msg \in 1..MbMessages
  /\ mbConn \in {"none", "live", "dead"} /\ mbDoomed \subseteq 1..MbMessages
  /\ mbCalls \in 0..MbCalls /\ mbFaults \in 0..MbFaults

\* A command makes copies of messages that were there.
LEMMA DoesMessages ==
  ASSUME mbBox \subseteq Copies, NEW command, command \in {"move", "copy", "flag", "expunge"}, NEW call,
         Does(command, call)
  PROVE  \A c \in mbBox' : \E d \in mbBox : c.msg = d.msg
<1>1. \A d \in Named(call) : d \in mbBox /\ d \in Copies
  BY DEF Named
<1>2. ASSUME NEW c \in Copied(call) PROVE \E d \in mbBox : c.msg = d.msg
  <2>1. PICK d \in Named(call) : c = [d EXCEPT !.uid = mbUid, !.folder = call.to, !.gone = FALSE]
    BY DEF Copied
  <2>2. c.msg = d.msg
    BY <1>1, <2>1 DEF Copies
  <2> QED BY <1>1, <2>2
<1>3. ASSUME NEW c \in {[d EXCEPT !.gone = TRUE] : d \in Named(call)} PROVE \E d \in mbBox : c.msg = d.msg
  <2>1. PICK d \in Named(call) : c = [d EXCEPT !.gone = TRUE]
    OBVIOUS
  <2>2. c.msg = d.msg
    BY <1>1, <2>1 DEF Copies
  <2> QED BY <1>1, <2>2
<1>4. \/ mbBox' = (mbBox \ Named(call)) \cup Copied(call)
      \/ mbBox' = mbBox \cup Copied(call)
      \/ mbBox' = (mbBox \ Named(call)) \cup {[d EXCEPT !.gone = TRUE] : d \in Named(call)}
      \/ mbBox' = mbBox \ Purged(call)
  BY DEF Does
<1> QED BY <1>2, <1>3, <1>4

\* What is left to do of a call begins with a command.
LEMMA DueIs ==
  ASSUME MbInv, mbCall.op # "none"
  PROVE  Head(mbCall.todo) \in {"move", "copy", "flag", "expunge"}
<1>1. mbCall.todo \in MoveSteps \cup DeleteSteps
  BY DEF MbInv, CallStands, MailCalls
<1>2. mbCall.todo \in {<<"move">>, <<"copy", "flag", "expunge">>, <<"flag", "expunge">>, <<"expunge">>}
  BY <1>1 DEF MoveSteps, DeleteSteps
<1> QED BY <1>2

LEMMA MessagesStay ==
  ASSUME MbInv, [MbNext]_mbVars
  PROVE  \A c \in mbBox' : \E d \in mbBox : c.msg = d.msg
<1>1. mbBox \subseteq Copies
  BY DEF MbInv, MbCore
<1>2. CASE UNCHANGED mbBox
  BY <1>2
<1>3. CASE mbCall.op # "none" /\ Does(Head(mbCall.todo), mbCall)
  BY <1>1, <1>3, DueIs, DoesMessages
<1>4. ASSUME NEW c \in mbBox, MbOtherMarks(c) PROVE \A e \in mbBox' : \E d \in mbBox : e.msg = d.msg
  <2>1. \A d \in Copies : [d EXCEPT !.gone = TRUE].msg = d.msg
    BY DEF Copies
  <2>2. mbBox' = (mbBox \ {c}) \cup {[c EXCEPT !.gone = TRUE]} /\ c \in Copies
    BY <1>1, <1>4 DEF MbOtherMarks
  <2> QED BY <2>1, <2>2
<1>5. \/ UNCHANGED mbBox \/ (mbCall.op # "none" /\ Does(Head(mbCall.todo), mbCall))
      \/ \E c \in mbBox : MbOtherMarks(c)
  BY DEF MbNext, mbVars, mbServer, MbAsks, MbStarts, MbConnects, MbNoConnection, MbCommand, MbFails, MbCloses
<1> QED BY <1>2, <1>3, <1>4, <1>5

LEMMA MbBoundedKeeps == ASSUME MbInv, MbBounded, [MbNext]_mbVars PROVE MbBounded'
<1>1. \A c \in mbBox' : c.msg \in 1..MbMessages
  BY MessagesStay DEF MbBounded
<1>2. mbCaps' = mbCaps /\ mbConn' \in {mbConn, "none", "live", "dead"}
  BY DEF MbNext, mbVars, MbAsks, MbStarts, MbConnects, MbNoConnection, MbCommand, MbFails, MbCloses, MbOtherMarks
<1>3. mbDoomed' = mbDoomed \/ \E c \in mbBox : mbDoomed' \in {mbDoomed, mbDoomed \cup {c.msg}, {c.msg}}
  BY DEF MbNext, mbVars, MbAsks, MbStarts, MbConnects, MbNoConnection, MbCommand, MbFails, MbCloses, MbOtherMarks
<1>4. /\ mbCalls' = mbCalls \/ (mbCalls < MbCalls /\ mbCalls' = mbCalls + 1)
      /\ mbFaults' = mbFaults \/ (mbFaults < MbFaults /\ mbFaults' = mbFaults + 1)
  BY DEF MbNext, mbVars, MbAsks, MbStarts, MbConnects, MbNoConnection, MbCommand, MbFails, MbCloses, MbOtherMarks,
     MailFault
<1>5. mbCalls' \in 0..MbCalls /\ mbFaults' \in 0..MbFaults
  BY <1>4, MailboxAssumption DEF MbBounded
<1> QED BY <1>1, <1>2, <1>3, <1>5 DEF MbBounded

LEMMA MbTypes == MbSpec => []MbTypeOK
<1>1. MbInit => MbBounded
  <2> SUFFICES ASSUME MbInit PROVE MbBounded
    OBVIOUS
  <2>1. \A c \in mbBox : c.msg \in 1..MbMessages
    BY DEF MbInit
  <2> QED BY <2>1, MailboxAssumption DEF MbInit, MbBounded
<1>2. MbInv /\ MbBounded => MbTypeOK
  <2> SUFFICES ASSUME MbInv, MbBounded PROVE MbTypeOK
    OBVIOUS
  <2>1. \A c \in mbBox : c.uid < mbUid /\ c.folder \in Folders /\ c.gone \in BOOLEAN
    BY DEF MbInv, MbCore, Copies
  <2>2. mbCall.op \in {"none", "move", "delete"} /\ mbCall.tries \in 0..2
    BY DEF MbInv, CallStands, MailCalls
  <2> QED BY <2>1, <2>2 DEF MbBounded, MbTypeOK
<1> QED BY <1>1, <1>2, MbBoundedKeeps, MbAlways, PTL DEF MbSpec

-----------------------------------------------------------------------------
(* Together                                                                *)

\* As one part moves at a time, a behaviour of the whole is one of each part.
LEMMA EachIsItself ==
  SessionsSpec => LmSpec /\ PsSpec /\ SfSpec /\ DkSpec /\ MbSpec /\ AsSpec /\ AvSpec /\ RgSpec
                  /\ LgSpec /\ FsSpec /\ CsSpec /\ TcSpec /\ PtSpec /\ CxSpec /\ Spec
<1>1. SessionsInit => LmInit /\ PsInit /\ SfInit /\ DkInit /\ MbInit /\ AsInit /\ AvInit /\ RgInit
                     /\ LgInit /\ FsInit /\ FrInit /\ CsInit /\ TcInit /\ PtInit /\ CxInit /\ Init
  BY DEF SessionsInit
<1>2. [SessionsNext]_allVars => [LmNext]_lmVars
  BY DEF SessionsNext, allVars, History, Notice, Life, Desks, historyVars, noticeVars, lifeVars, deskVars
<1>3. [SessionsNext]_allVars => [PsNext]_psVars
  BY DEF SessionsNext, allVars, History, Notice, Life, Desks, historyVars, noticeVars, lifeVars, deskVars
<1>4. [SessionsNext]_allVars => [SfNext]_sfVars
  BY DEF SessionsNext, allVars, History, Notice, Life, Desks, historyVars, noticeVars, lifeVars, deskVars,
     Soul
<1>5. [SessionsNext]_allVars => [DkNext]_dkVars
  BY DEF SessionsNext, allVars, History, Notice, Life, Desks, historyVars, noticeVars, lifeVars, deskVars,
     Desk
<1>6. [SessionsNext]_allVars => [MbNext]_mbVars
  BY DEF SessionsNext, allVars, History, Notice, Life, Desks, historyVars, noticeVars, lifeVars, deskVars,
     Account
<1>7. [SessionsNext]_allVars => [AsNext]_asVars
  BY DEF SessionsNext, allVars, History, Notice, Life, Desks, historyVars, noticeVars, lifeVars, deskVars
<1>8. [SessionsNext]_allVars => [AvNext]_avVars
  BY DEF SessionsNext, allVars, History, Notice, Life, Desks, historyVars, noticeVars, lifeVars, deskVars,
     Avatar
<1>9. [SessionsNext]_allVars => [RgNext]_rgVars
  BY DEF SessionsNext, allVars, History, Notice, Life, Desks, historyVars, noticeVars, lifeVars, deskVars,
     Registry
<1>10. [SessionsNext]_allVars => [LgNext]_lgVars
  BY DEF SessionsNext, allVars, History, Notice, Life, Desks, historyVars, noticeVars, lifeVars, deskVars
<1>11. [SessionsNext]_allVars => [FsNext \/ FrRead]_fsVars
  BY DEF SessionsNext, allVars, History, Notice, Life, Desks, historyVars, noticeVars, lifeVars, deskVars
<1>12. [SessionsNext]_allVars => [CsNext]_csVars
  BY DEF SessionsNext, allVars, History, Notice, Life, Desks, historyVars, noticeVars, lifeVars, deskVars
<1>13. [SessionsNext]_allVars => [TcNext]_tcVars
  BY DEF SessionsNext, allVars, History, Notice, Life, Desks, historyVars, noticeVars, lifeVars, deskVars
<1>14. [SessionsNext]_allVars => [PtNext]_ptVars
  BY DEF SessionsNext, allVars, History, Notice, Life, Desks, historyVars, noticeVars, lifeVars, deskVars
<1>15. [SessionsNext]_allVars => [CxNext]_cxVars
  BY DEF SessionsNext, allVars, History, Notice, Life, Desks, historyVars, noticeVars, lifeVars, deskVars
<1>16. [SessionsNext]_allVars => [Next]_vars
  BY DEF SessionsNext, allVars, History, Notice, Life, Desks, historyVars, noticeVars, lifeVars, deskVars
<1> QED
  BY <1>1, <1>2, <1>3, <1>4, <1>5, <1>6, <1>7, <1>8, <1>9, <1>10, <1>11, <1>12, <1>13, <1>14, <1>15,
     <1>16, PTL
  DEF SessionsSpec, LmSpec, PsSpec, SfSpec, DkSpec, MbSpec, AsSpec, AvSpec, RgSpec, LgSpec, FsSpec,
      CsSpec, TcSpec, PtSpec, CxSpec, Spec

\* A part keeps its name, and every value of each is of its type.
PartIsOne == part \in Parts

LEMMA PartStays == SessionsSpec => []PartIsOne
<1>1. SessionsInit => PartIsOne
  BY DEF SessionsInit, PartIsOne
<1>2. PartIsOne /\ [SessionsNext]_allVars => PartIsOne'
  BY DEF SessionsNext, allVars, PartIsOne
<1> QED BY <1>1, <1>2, PTL DEF SessionsSpec

HistoryTypes == TypeOK /\ CxTypeOK /\ PtTypeOK /\ CsTypeOK /\ TcTypeOK
NoticeTypes  == LgTypeOK /\ LmTypeOK /\ PsTypeOK
LifeTypes    == AsTypeOK /\ AvTypeOK /\ SfTypeOK /\ RgTypeOK
DeskTypes    == DkTypeOK /\ MbTypeOK /\ FsTypeOK

LEMMA TypesAre ==
  ASSUME PartIsOne, HistoryTypes, NoticeTypes, LifeTypes, DeskTypes
  PROVE  SessionTypes
<1>1. CASE part \in {"chat", "codex", "provider", "consult", "timed"}
  BY <1>1 DEF SessionTypes, HistoryTypes, Families, Family, Souls, Asked, DeskParts, DeskIn, Mailboxes, MailOps
<1>2. CASE part \in {"log", "meta", "pressure"}
  BY <1>2 DEF SessionTypes, NoticeTypes, Families, Family, Souls, Asked, DeskParts, DeskIn, Mailboxes, MailOps
<1>3. CASE part \in {"setup", "registry"}
  BY <1>3 DEF SessionTypes, LifeTypes, Families, Family, Souls, Asked, DeskParts, DeskIn, Mailboxes, MailOps
<1>4. CASE part \in {"search", "pages"}
  BY <1>4 DEF SessionTypes, DeskTypes, Families, Family, Souls, Asked, DeskParts, DeskIn, Mailboxes, MailOps
<1>5. CASE part \in Families \cup Souls
  BY <1>5 DEF SessionTypes, LifeTypes, Families, Family, Souls, Asked, DeskParts, DeskIn, Mailboxes, MailOps
<1>6. CASE part \in DeskParts \cup Mailboxes
  BY <1>6 DEF SessionTypes, DeskTypes, Families, Family, Souls, Asked, DeskParts, DeskIn, Mailboxes, MailOps
<1> QED BY <1>1, <1>2, <1>3, <1>4, <1>5, <1>6, PartsAssumption DEF PartIsOne

\* Every value is of the type its module gives it, in every part: of a history when neither
\* of its races is let in.
THEOREM SessionTypesAlways ==
  ASSUME Races = {}
  PROVE  SessionsSpec => []SessionTypes
<1>1. SessionsSpec => []HistoryTypes
  <2>1. TypeOK /\ CxTypeOK /\ PtTypeOK /\ CsTypeOK /\ TcTypeOK => HistoryTypes
    BY DEF HistoryTypes
  <2> QED BY <2>1, EachIsItself, HistoryTyped, CodexTyped, PtAlways, PtTypes, CsAlways, CsTyped,
             TcAlways, TcTyped, PTL
<1>2. SessionsSpec => []NoticeTypes
  <2>1. LgInv /\ LmTypeOK /\ PsInv => NoticeTypes
    BY DEF LgInv, PsInv, NoticeTypes
  <2> QED BY <2>1, EachIsItself, LgAlways, LmTypes, PsAlways, PTL
<1>3. SessionsSpec => []LifeTypes
  <2>1. AsTypeOK /\ AvTypeOK /\ SfTypeOK /\ (RgTypeOK /\ AddonsServed) => LifeTypes
    BY DEF LifeTypes
  <2> QED BY <2>1, EachIsItself, AsTypes, AvTypes, SfTypes, AddonsAlways, PTL
<1>4. SessionsSpec => []DeskTypes
  <2>1. DkTypeOK /\ MbTypeOK /\ FsTypeOK => DeskTypes
    BY DEF DeskTypes
  <2> QED BY <2>1, EachIsItself, DkTypes, MbTypes, FsTyped, PTL
<1>5. PartIsOne /\ HistoryTypes /\ NoticeTypes /\ LifeTypes /\ DeskTypes => SessionTypes
  BY TypesAre
<1> QED BY <1>1, <1>2, <1>3, <1>4, <1>5, PartStays, PTL

\* The model is shown what happened, whole and once: a message however often the request is
\* made again; what the timed-call inbox splices in; a consultation's cut of the history, legal;
\* and it is told when a search or a page of a file left something out.
THEOREM ShownOnceAlways == SessionsSpec => []ShownOnce
<1>1. (OnceShown /\ ResultsShown) /\ OnePairEach /\ ConsultsLegally /\ SearchHonest /\ PagesCover
      => ShownOnce
  BY DEF ShownOnce
<1> QED
  BY <1>1, EachIsItself, ShownAlways, PairsAlways, ConsultsAlways, SearchIsHonest, PagesAlways, PTL

\* No notice is lost with the entry that carried it, and none is made twice: the
\* live payload, the pressure event, the voices of the last fire.
THEOREM NoticesAreKept == SessionsSpec => []NoticesKept
<1>1. PayloadKept /\ PsInv /\ VoicesAreLast => NoticesKept
  BY DEF NoticesKept, PsInv
<1> QED BY <1>1, EachIsItself, PayloadStays, PsAlways, VoicesLast, PTL

\* A desk sends one text to one recipient no oftener than it should, marks nothing it
\* was not told, and a mailbox keeps its messages.
THEOREM DesksAreKept == SessionsSpec => []DesksKeep
<1>1. (RepeatsBounded /\ MarkedWasTold) /\ MailKept => DesksKeep
  BY DEF DesksKeep
<1> QED BY <1>1, EachIsItself, DeskStays, MailStays, PTL

\* An agent starts from what is there and true: the preset it chose boots, an avatar that
\* was reported as running ran and has its ancestors' rules, and the add-ons it declares are served.
THEOREM AgentsStartWell == SessionsSpec => []StartsWell
<1>1. ChoiceBoots /\ (BootIsTrue /\ RulesReach) /\ (RgTypeOK /\ AddonsServed) => StartsWell
  BY DEF StartsWell
<1> QED BY <1>1, EachIsItself, ChosenBoots, RulesArrive, AddonsAlways, PTL

\* What an agent works out again from its files agrees with what it had: the totals of its log,
\* the molts it counts, and the records of its registry, which stay over its boots.
THEOREM DerivedAlwaysAgrees == SessionsSpec => DerivedAgrees
BY EachIsItself, TotalsAgree, MoltsAgree, BootsAppend, PTL DEF DerivedAgrees
=============================================================================
