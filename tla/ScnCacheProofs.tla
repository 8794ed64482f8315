--------------------------- MODULE ScnCacheProofs ---------------------------
(***************************************************************************)
(* Proofs about ScnCache, for any SCNs, number of handlers, batch limits   *)
(* and channel size: the type invariant, and that batching loses, repeats, *)
(* reorders and relabels nothing.                                          *)
(***************************************************************************)
EXTENDS ScnCache, SequenceTheorems, TLAPS

\* The operators on SCNs stay within their types.
LEMMA EmptyType == EmptyScn \in Scn /\ EmptyScn.components = <<>>
  BY ScnAssumption DEF EmptyScn, Scn, Enabled

LEMMA ItemsType ==
  ASSUME NEW s \in Scn
  PROVE  /\ s.components \in Seq(Component)
         /\ Items(s) \in Seq(ItemType)
         /\ Len(Items(s)) = Len(s.components)
         /\ \A i \in 1..Len(s.components) :
               /\ Items(s)[i].comp = s.components[i]
               /\ Items(s)[i].attr = s.attr
               /\ Items(s)[i].subRole = s.subRole
<1>1. s.components \in Seq(Component) /\ Len(s.components) \in Nat
  BY DEF Scn
<1>2. \A i \in 1..Len(s.components) : Item(s, i) \in ItemType
  BY <1>1 DEF Scn, Item, ItemType
<1>3. Items(s) \in [1..Len(s.components) -> ItemType]
  BY <1>2 DEF Items
<1>4. Items(s) \in Seq(ItemType)
  BY <1>1, <1>3, SeqDef
<1>5. Len(Items(s)) = Len(s.components)
  BY <1>1, <1>3, <1>4, LenProperties
<1>6. \A i \in 1..Len(s.components) :
         /\ Items(s)[i].comp = s.components[i]
         /\ Items(s)[i].attr = s.attr
         /\ Items(s)[i].subRole = s.subRole
  BY DEF Items, Item
<1> QED
  BY <1>1, <1>4, <1>5, <1>6

\* What handleSCNs() takes from a batch.
LEMMA RelaysType ==
  ASSUME NEW s \in Scn
  PROVE  /\ Relays(s) \in Seq(Relayed) /\ Len(Relays(s)) = Len(s.components)
         /\ \A i \in 1..Len(s.components) :
               Relays(s)[i] = [comp |-> s.components[i], attr |-> s.attr]
<1>1. s.components \in Seq(Component) /\ Len(s.components) \in Nat
  BY DEF Scn
<1>2. \A i \in 1..Len(s.components) :
         /\ Keep(Item(s, i)) = [comp |-> s.components[i], attr |-> s.attr]
         /\ Keep(Item(s, i)) \in Relayed
  BY <1>1 DEF Scn, Item, Keep, Relayed
<1>3. Relays(s) \in [1..Len(s.components) -> Relayed]
  BY <1>2 DEF Relays
<1>4. Relays(s) \in Seq(Relayed)
  BY <1>1, <1>3, SeqDef
<1>5. Len(Relays(s)) = Len(s.components)
  BY <1>1, <1>3, <1>4, LenProperties
<1> QED
  BY <1>2, <1>4, <1>5 DEF Relays

LEMMA CopyType ==
  ASSUME jdCache \in Scn, NEW s \in Scn
  PROVE  /\ jdcDeepCopy(s) \in Scn
         /\ jdcDeepCopy(s).components = s.components
         /\ jdcDeepCopy(s).attr = s.attr
         /\ jdcDeepCopy(s).subRole = s.subRole
  BY DEF jdcDeepCopy, Scn, Enabled

LEMMA MergedType ==
  ASSUME jdCache \in Scn, NEW s \in Scn
  PROVE  /\ Merged(s) \in Scn
         /\ Merged(s).components = jdCache.components \o s.components
         /\ Merged(s).attr = jdCache.attr
         /\ Merged(s).subRole = jdCache.subRole
<1> DEFINE cs == jdCache.components \o s.components
<1>1. jdCache.components \in Seq(Component) /\ s.components \in Seq(Component)
  BY ItemsType
<1>2. cs \in Seq(Component)
  BY <1>1, ConcatProperties
<1>3. Merged(s) = [jdCache EXCEPT !.components = cs]
  BY DEF Merged
<1> HIDE DEF cs
<1>4. Merged(s) \in Scn /\ Merged(s).components = cs
        /\ Merged(s).attr = jdCache.attr
        /\ Merged(s).subRole = jdCache.subRole
  BY <1>2, <1>3 DEF Scn
<1> QED
  BY <1>4 DEF cs

\* Sending keeps scnQ within its type and capacity.
LEMMA SendType ==
  ASSUME TypeOK, NEW b \in Scn, NEW n \in Nat, Send(b, n)
  PROVE  /\ scnQ' \in Seq(Scn) /\ Len(scnQ') <= QCap
         /\ starts' \in Seq(Nat)
<1> DEFINE T == Scn
<1>1. /\ scnQ \in Seq(T) /\ b \in T /\ starts \in Seq(Nat)
      /\ Len(scnQ) < QCap /\ QCap \in Nat
      /\ scnQ' = Append(scnQ, b) /\ starts' = Append(starts, n)
  BY ScnAssumption DEF TypeOK, Send
<1> HIDE DEF T
<1>2. /\ scnQ' \in Seq(T) /\ Len(scnQ') <= QCap /\ starts' \in Seq(Nat)
  BY <1>1
<1> QED
  BY <1>2 DEF T

-----------------------------------------------------------------------------
(* The invariant as a predicate of four values: the batches S sent so far, *)
(* the positions st they start at, the items rec received and the cache c. *)

\* The components of batch b are the items of rec from position n on; its
\* sub-role is that of the first of them.
Covers(rec, b, n) ==
    /\ \A i \in 1..Len(b.components) :
          rec[n + i].comp = b.components[i] /\ rec[n + i].attr = b.attr
    /\ Len(b.components) > 0 => rec[n + 1].subRole = b.subRole

\* The last but one conjunct, that no batch reaches beyond the start of the
\* cache, follows from the tiling by induction over the batches.  As a part of
\* the invariant it needs none.
Valid(S, st, rec, c) ==
    LET end == Len(rec) - Len(c.components)
    IN  /\ Len(st) = Len(S)
        /\ end \in Nat
        /\ IF S = <<>> THEN end = 0 ELSE st[1] = 0
        /\ \A k \in 1..Len(S) :
              /\ st[k] + Len(S[k].components)
                    = IF k < Len(S) THEN st[k + 1] ELSE end
              /\ st[k] + Len(S[k].components) <= end
              /\ Covers(rec, S[k], st[k])
        /\ Covers(rec, c, end)

\* ... to the end of rec.
CoversRest(rec, b, n) == Covers(rec, b, n) /\ n + Len(b.components) = Len(rec)

\* Cache d holds what cache c held and then SCN s.
Grows(c, s, d) ==
    /\ d.components = c.components \o s.components
    /\ d.attr = s.attr
    /\ c.attr = s.attr \/ c.components = <<>>
    /\ d.subRole = IF c.components = <<>> THEN s.subRole ELSE c.subRole

\* The two parts of a concatenation.
LEMMA ConcatParts ==
  ASSUME NEW T, NEW a \in Seq(T), NEW b \in Seq(T)
  PROVE  /\ Len(a \o b) = Len(a) + Len(b)
         /\ \A i \in 1..Len(a) : (a \o b)[i] = a[i]
         /\ \A i \in 1..Len(b) : (a \o b)[Len(a) + i] = b[i]
  BY ConcatProperties

\* Items appended to the history leave what earlier batches cover alone.
LEMMA CoversKept ==
  ASSUME NEW rec \in Seq(ItemType), NEW new \in Seq(ItemType),
         NEW b \in Scn, NEW n \in Nat,
         n + Len(b.components) <= Len(rec), Covers(rec, b, n)
  PROVE  Covers(rec \o new, b, n)
<1>1. Len(b.components) \in Nat /\ Len(rec) \in Nat
  BY ItemsType
<1>2. ASSUME NEW i \in 1..Len(b.components)
      PROVE  (rec \o new)[n + i] = rec[n + i]
  <2>1. n + i \in 1..Len(rec)
    BY <1>1, <1>2
  <2> QED
    BY <2>1, ConcatProperties
<1>3. Len(b.components) > 0 => 1 \in 1..Len(b.components)
  BY <1>1
<1> QED
  BY <1>2, <1>3 DEF Covers

\* The items of an SCN merged into the cache follow those already there.
LEMMA CoversMore ==
  ASSUME NEW rec, rec \in Seq(ItemType),
         NEW c \in Scn, NEW s \in Scn, NEW d \in Scn,
         NEW n \in Nat, CoversRest(rec, c, n), Grows(c, s, d)
  PROVE  CoversRest(rec \o Items(s), d, n)
<1>1. /\ c.components \in Seq(Component) /\ s.components \in Seq(Component)
      /\ Items(s) \in Seq(ItemType) /\ Len(Items(s)) = Len(s.components)
      /\ \A i \in 1..Len(s.components) :
            /\ Items(s)[i].comp = s.components[i]
            /\ Items(s)[i].attr = s.attr
            /\ Items(s)[i].subRole = s.subRole
  BY ItemsType
<1> DEFINE new == Items(s)
           cc == c.components
           sc == s.components
<1>0. /\ rec \in Seq(ItemType) /\ new \in Seq(ItemType)
      /\ cc \in Seq(Component) /\ sc \in Seq(Component)
      /\ Len(new) = Len(sc)
  BY <1>1
<1> DEFINE all == rec \o Items(s)
           dc == c.components \o s.components
           lc == Len(c.components)
           ls == Len(s.components)
           lr == Len(rec)
<1>2. lc \in Nat /\ ls \in Nat /\ lr \in Nat
  BY <1>1
<1>3. /\ Len(all) = lr + ls
      /\ \A i \in 1..lr : all[i] = rec[i]
      /\ \A i \in 1..ls : all[lr + i] = Items(s)[i]
  <2> HIDE DEF new, sc
  <2>1. /\ Len(rec \o new) = Len(rec) + Len(new)
        /\ \A i \in 1..Len(rec) : (rec \o new)[i] = rec[i]
        /\ \A i \in 1..Len(new) : (rec \o new)[Len(rec) + i] = new[i]
    BY <1>0
  <2> QED
    BY <1>0, <2>1, Zenon DEF new, sc
<1>4. /\ Len(dc) = lc + ls
      /\ \A i \in 1..lc : dc[i] = c.components[i]
      /\ \A i \in 1..ls : dc[lc + i] = s.components[i]
  <2> HIDE DEF new, cc, sc
  <2>1. /\ Len(cc \o sc) = Len(cc) + Len(sc)
        /\ \A i \in 1..Len(cc) : (cc \o sc)[i] = cc[i]
        /\ \A i \in 1..Len(sc) : (cc \o sc)[Len(cc) + i] = sc[i]
    BY <1>0, ConcatParts
  <2> QED
    BY <2>1, Zenon DEF cc, sc
<1>5. /\ n + lc = lr /\ d.components = dc
      /\ (lc # 0 => c.attr = s.attr)
      /\ \A i \in 1..lc : rec[n + i].comp = c.components[i]
                           /\ rec[n + i].attr = c.attr
      /\ d.attr = s.attr
  BY <1>1 DEF CoversRest, Covers, Grows
<1>5a. /\ lc > 0 => rec[n + 1].subRole = c.subRole /\ d.subRole = c.subRole
       /\ lc = 0 => d.subRole = s.subRole
  <2>1. (c.components = <<>>) <=> (lc = 0)
    BY <1>1, EmptySeq
  <2> QED
    BY <1>2, <2>1 DEF CoversRest, Covers, Grows
<1> HIDE DEF all, dc, lc, ls, lr
<1>6. ASSUME NEW i \in 1..Len(dc)
      PROVE  all[n + i].comp = dc[i] /\ all[n + i].attr = d.attr
  <2>1. CASE i \in 1..lc
    <3>1. n + i \in 1..lr /\ lc # 0
      BY <1>2, <1>5, <2>1
    <3> QED
      BY <1>3, <1>4, <1>5, <2>1, <3>1
  <2>2. CASE i \notin 1..lc
    <3>1. PICK j \in 1..ls : i = lc + j
      <4>1. i - lc \in 1..ls /\ i = lc + (i - lc)
        BY <1>2, <1>4, <2>2
      <4> QED
        BY <4>1
    <3>2. n + i = lr + j
      BY <1>2, <1>5, <3>1
    <3>3. all[n + i] = Items(s)[j] /\ dc[i] = s.components[j]
      BY <1>3, <1>4, <3>1, <3>2
    <3>4. Items(s)[j].comp = s.components[j] /\ Items(s)[j].attr = s.attr
      BY <1>1, <3>1 DEF ls
    <3> QED
      BY <1>5, <3>3, <3>4
  <2> QED
    BY <2>1, <2>2
<1>6a. Len(dc) > 0 => all[n + 1].subRole = d.subRole
  <2>1. CASE lc > 0
    <3>1. n + 1 \in 1..lr
      BY <1>2, <1>5, <2>1
    <3> QED
      BY <1>3, <1>5a, <2>1, <3>1
  <2>2. CASE lc = 0 /\ ls > 0
    <3>1. n + 1 = lr + 1 /\ 1 \in 1..ls
      BY <1>2, <1>5, <2>2
    <3>2. all[n + 1] = Items(s)[1] /\ Items(s)[1].subRole = s.subRole
      BY <1>1, <1>3, <3>1 DEF ls
    <3> QED
      BY <1>5a, <2>2, <3>2
  <2> QED
    BY <1>2, <1>4, <2>1, <2>2
<1>7. Covers(all, d, n)
  BY <1>5, <1>6, <1>6a DEF Covers
<1>8. n + Len(d.components) = Len(all)
  <2>1. Len(d.components) = lc + ls
    BY <1>4, <1>5, Zenon
  <2>2. n + (lc + ls) = lr + ls
    BY <1>2, <1>5
  <2> QED
    BY <1>3, <2>1, <2>2, Zenon
<1> QED
  BY <1>7, <1>8 DEF all, CoversRest

\* Merging an SCN into the cache, or caching it when the cache is empty.
LEMMA Extend ==
  ASSUME NEW S \in Seq(Scn), NEW st \in Seq(Nat), NEW rec \in Seq(ItemType),
         NEW c \in Scn, NEW s \in Scn, NEW d \in Scn,
         Grows(c, s, d), Valid(S, st, rec, c)
  PROVE  Valid(S, st, rec \o Items(s), d)
<1>0. PICK n \in Nat : n = Len(rec) - Len(c.components)
  BY DEF Valid
<1> DEFINE all == rec \o Items(s)
<1>1. /\ Len(st) = Len(S)
      /\ n \in Nat
      /\ IF S = <<>> THEN n = 0 ELSE st[1] = 0
      /\ \A k \in 1..Len(S) :
            /\ st[k] + Len(S[k].components)
                  = IF k < Len(S) THEN st[k + 1] ELSE n
            /\ st[k] + Len(S[k].components) <= n
            /\ Covers(rec, S[k], st[k])
      /\ Covers(rec, c, n)
  BY <1>0 DEF Valid
<1>2. Len(c.components) \in Nat /\ Len(rec) \in Nat /\ Len(d.components) \in Nat
        /\ Items(s) \in Seq(ItemType)
  <2>1. c.components \in Seq(Component) /\ d.components \in Seq(Component)
          /\ Items(s) \in Seq(ItemType)
    BY ItemsType
  <2> QED
    BY <2>1, LenProperties, Zenon
<1>3. n + Len(c.components) = Len(rec) /\ n <= Len(rec)
  BY <1>0, <1>2
<1>4. Covers(all, d, n) /\ n + Len(d.components) = Len(all)
  <2>1. CoversRest(rec, c, n)
    BY <1>1, <1>3 DEF CoversRest
  <2>2. CoversRest(rec \o Items(s), d, n)
    BY <2>1, CoversMore
  <2> QED
    BY <2>2, Zenon DEF CoversRest
<1>5. Len(all) \in Nat
  BY <1>2, ConcatProperties
<1>6. Len(all) - Len(d.components) = n
  <2> DEFINE la == Len(all)
             ld == Len(d.components)
  <2>1. n + ld = la /\ la \in Nat /\ ld \in Nat /\ n \in Nat
    BY <1>1, <1>2, <1>4, <1>5, Zenon
  <2> HIDE DEF la, ld
  <2>2. la - ld = n
    BY <2>1
  <2> QED
    BY <2>2, Zenon DEF la, ld
<1>7. \A k \in 1..Len(S) : Covers(all, S[k], st[k])
  <2> TAKE k \in 1..Len(S)
  <2>1. S[k] \in Scn /\ st[k] \in Nat
    BY <1>1, ElementOfSeq
  <2>2. Len(S[k].components) \in Nat
    <3>1. S[k].components \in Seq(Component)
      BY <2>1, ItemsType, Zenon
    <3> QED
      BY <3>1
  <2>3. st[k] + Len(S[k].components) <= n /\ Covers(rec, S[k], st[k])
    BY <1>1
  <2>4. st[k] + Len(S[k].components) <= Len(rec)
    BY <1>1, <1>2, <1>3, <2>1, <2>2, <2>3
  <2> QED
    BY <1>2, <2>1, <2>3, <2>4, CoversKept
<1> HIDE DEF all
<1>8. Valid(S, st, all, d)
  BY <1>1, <1>4, <1>6, <1>7 DEF Valid
<1> QED
  BY <1>8 DEF all

\* Sending the cache as the next batch.
LEMMA Flush ==
  ASSUME NEW S \in Seq(Scn), NEW st \in Seq(Nat), NEW rec \in Seq(ItemType),
         NEW c \in Scn, Valid(S, st, rec, c)
  PROVE  Valid(Append(S, c), Append(st, Len(rec) - Len(c.components)),
               rec, EmptyScn)
<1> DEFINE n == Len(rec) - Len(c.components)
           S2 == Append(S, c)
           st2 == Append(st, n)
<1>1. /\ Len(st) = Len(S)
      /\ n \in Nat
      /\ IF S = <<>> THEN n = 0 ELSE st[1] = 0
      /\ \A k \in 1..Len(S) :
            /\ st[k] + Len(S[k].components)
                  = IF k < Len(S) THEN st[k + 1] ELSE n
            /\ st[k] + Len(S[k].components) <= n
            /\ Covers(rec, S[k], st[k])
      /\ Covers(rec, c, n)
  BY DEF Valid
<1>2. Len(c.components) \in Nat /\ Len(rec) \in Nat
  <2>1. c.components \in Seq(Component)
    BY ItemsType, Zenon
  <2> QED
    BY <2>1
<1>3. n + Len(c.components) = Len(rec) /\ n <= Len(rec)
  BY <1>2
<1>4. Len(EmptyScn.components) = 0
  BY EmptyType
<1>5. Len(rec) - Len(EmptyScn.components) = Len(rec)
  BY <1>2, <1>4
<1> HIDE DEF n
<1>6. /\ S2 # <<>> /\ Len(S2) = Len(S) + 1 /\ S2[Len(S) + 1] = c
      /\ \A k \in 1..Len(S) : S2[k] = S[k]
      /\ Len(S) \in Nat /\ (S # <<>> => Len(S) > 0) /\ (S = <<>> => Len(S) = 0)
  BY AppendProperties
<1>7. /\ Len(st2) = Len(st) + 1 /\ st2[Len(st) + 1] = n
      /\ \A k \in 1..Len(st) : st2[k] = st[k]
  BY <1>1, AppendProperties
<1> HIDE DEF S2, st2
<1>8. st2[1] = 0
  <2>1. CASE S = <<>>
    BY <1>1, <1>6, <1>7, <2>1
  <2>2. CASE S # <<>>
    <3>1. 1 \in 1..Len(st) /\ st[1] = 0
      BY <1>1, <1>6, <2>2
    <3> QED
      BY <1>7, <3>1
  <2> QED
    BY <2>1, <2>2
<1>9. ASSUME NEW k \in 1..Len(S2)
      PROVE  /\ st2[k] + Len(S2[k].components)
                   = IF k < Len(S2) THEN st2[k + 1] ELSE Len(rec)
             /\ st2[k] + Len(S2[k].components) <= Len(rec)
             /\ Covers(rec, S2[k], st2[k])
  <2>1. CASE k = Len(S) + 1
    <3>1. S2[k] = c /\ st2[k] = n /\ ~(k < Len(S2))
      BY <1>1, <1>6, <1>7, <2>1
    <3> QED
      BY <1>1, <1>2, <1>3, <3>1
  <2>2. CASE k \in 1..Len(S)
    <3>1. S2[k] = S[k] /\ st2[k] = st[k] /\ k < Len(S2)
      BY <1>1, <1>6, <1>7, <2>2
    <3>2. S[k] \in Scn /\ st[k] \in Nat
      BY <1>1, <2>2, ElementOfSeq
    <3>3. Len(S[k].components) \in Nat
      <4>1. S[k].components \in Seq(Component)
        BY <3>2, ItemsType, Zenon
      <4> QED
        BY <4>1
    <3>4. st2[k + 1] = IF k < Len(S) THEN st[k + 1] ELSE n
      BY <1>1, <1>6, <1>7, <2>2
    <3>5. st[k] + Len(S[k].components) = st2[k + 1]
      BY <1>1, <2>2, <3>4
    <3>6. st[k] + Len(S[k].components) <= n
      BY <1>1, <2>2
    <3>7. st[k] + Len(S[k].components) <= Len(rec)
      BY <1>1, <1>2, <1>3, <3>2, <3>3, <3>6
    <3>8. Covers(rec, S[k], st[k])
      BY <1>1, <2>2
    <3> QED
      BY <3>1, <3>5, <3>7, <3>8
  <2> QED
    BY <1>6, <2>1, <2>2
<1>10. Covers(rec, EmptyScn, Len(rec))
  BY <1>4 DEF Covers
<1>11. Len(st2) = Len(S2)
  BY <1>1, <1>6, <1>7
<1>12. Valid(S2, st2, rec, EmptyScn)
  BY <1>2, <1>5, <1>6, <1>8, <1>9, <1>10, <1>11 DEF Valid
<1> QED
  BY <1>12 DEF S2, st2, n

-----------------------------------------------------------------------------
(* The batches sent, under each way the channel changes. *)

LEMMA SentType == ASSUME TypeOK PROVE Sent \in Seq(Scn)
  BY ConcatProperties DEF TypeOK, Sent

LEMMA SentBySend ==
  ASSUME TypeOK, NEW b \in Scn, NEW n, Send(b, n), handed' = handed
  PROVE  Sent' = Append(Sent, b)
<1>1. handed \in Seq(Scn) /\ scnQ \in Seq(Scn) /\ <<b>> \in Seq(Scn)
  BY DEF TypeOK
<1>2. scnQ' = scnQ \o <<b>>
  BY <1>1, AppendIsConcat DEF Send
<1>3. (handed \o scnQ) \o <<b>> = handed \o (scnQ \o <<b>>)
  BY <1>1, ConcatAssociative
<1>4. Append(Sent, b) = Sent \o <<b>>
  BY SentType, AppendIsConcat
<1> QED
  BY <1>2, <1>3, <1>4 DEF Sent

LEMMA SentByTake ==
  ASSUME TypeOK, TakeBatch
  PROVE  Sent' = Sent
<1>1. handed \in Seq(Scn) /\ scnQ \in Seq(Scn) /\ scnQ # <<>>
  BY DEF TypeOK, TakeBatch
<1>2. /\ Head(scnQ) \in Scn /\ Tail(scnQ) \in Seq(Scn)
      /\ scnQ = <<Head(scnQ)>> \o Tail(scnQ)
  BY <1>1, HeadTailProperties
<1>3. <<Head(scnQ)>> \in Seq(Scn)
  BY <1>2
<1>4. handed' = handed \o <<Head(scnQ)>>
  BY <1>1, <1>2, AppendIsConcat DEF TakeBatch
<1>5. (handed \o <<Head(scnQ)>>) \o Tail(scnQ)
        = handed \o (<<Head(scnQ)>> \o Tail(scnQ))
  BY <1>1, <1>2, <1>3, ConcatAssociative
<1> QED
  BY <1>2, <1>4, <1>5 DEF Sent, TakeBatch

-----------------------------------------------------------------------------
(* The inductive invariant and its steps. *)

\* A cache with components has counted the SCNs they came from.
JdInv == jdCount = 0 => jdCache.components = <<>>

IInv == TypeOK /\ JdInv /\ Valid(Sent, starts, received, jdCache)

LEMMA IInvInit == ASSUME Init PROVE IInv
<1>1. TypeOK
  BY ScnAssumption, EmptyType DEF Init, TypeOK
<1>2. JdInv
  BY EmptyType DEF Init, JdInv
<1>3. Sent = <<>> /\ Len(Sent) = 0
  BY DEF Init, Sent
<1>4. starts = <<>> /\ received = <<>> /\ jdCache.components = <<>>
  BY EmptyType DEF Init
<1>5. Valid(Sent, starts, received, jdCache)
  BY <1>3, <1>4 DEF Valid, Covers
<1> QED
  BY <1>1, <1>2, <1>5 DEF IInv

\* Steps that touch neither cache, history nor channel.
LEMMA IdleStep ==
  ASSUME IInv, UNCHANGED <<jdCache, jdCount, scnQ, handed, delivered, received>>,
         UNCHANGED starts,
         jdcMutex' \in Handlers \cup {Timer, Free},
         pc' \in [Handlers \cup {Timer} ->
                    {"new", "sleep", "lock", "locked", "done"}],
         jdata' \in [Handlers -> Scn], maxCache' \in MaxCaches
  PROVE  IInv'
<1>1. TypeOK'
  BY DEF IInv, TypeOK
<1>2. JdInv'
  BY DEF IInv, JdInv
<1>3. Sent' = Sent
  BY DEF Sent
<1>4. Valid(Sent, starts, received, jdCache)'
  BY <1>3 DEF IInv
<1> QED
  BY <1>1, <1>2, <1>4 DEF IInv

\* What Unlock() leaves of the types.
LEMMA UnlockType ==
  ASSUME TypeOK, NEW p \in Handlers \cup {Timer},
         NEW next \in {"sleep", "done"}, Unlock(p, next)
  PROVE  /\ jdcMutex' \in Handlers \cup {Timer, Free}
         /\ pc' \in [Handlers \cup {Timer} ->
                       {"new", "sleep", "lock", "locked", "done"}]
  BY DEF TypeOK, Unlock

\* A handler merges SCN s into the cache: the history grows by its items.
LEMMA MergeStep ==
  ASSUME IInv, NEW s \in Scn, NEW h \in Handlers, Unlock(h, "done"),
         jdCache' \in Scn, Grows(jdCache, s, jdCache'),
         jdCount' = jdCount + 1, received' = received \o Items(s),
         UNCHANGED <<scnQ, jdata, maxCache, handed, delivered, starts>>
  PROVE  IInv'
<1>1. TypeOK
  BY DEF IInv
<1>2. received \in Seq(ItemType) /\ Items(s) \in Seq(ItemType)
  BY <1>1, ItemsType DEF TypeOK
<1>3. received' \in Seq(ItemType)
  BY <1>2, ConcatProperties
<1>4. TypeOK'
  <2>1. /\ jdcMutex' \in Handlers \cup {Timer, Free}
        /\ pc' \in [Handlers \cup {Timer} ->
                      {"new", "sleep", "lock", "locked", "done"}]
    BY <1>1, UnlockType
  <2>2. jdCount' \in Nat
    BY <1>1 DEF TypeOK
  <2> QED
    BY <1>1, <1>3, <2>1, <2>2 DEF TypeOK
<1>5. JdInv'
  BY <1>1 DEF TypeOK, JdInv
<1>6. Sent' = Sent /\ Sent \in Seq(Scn)
  BY <1>1, SentType DEF Sent
<1>7. starts \in Seq(Nat) /\ jdCache \in Scn
        /\ Valid(Sent, starts, received, jdCache)
  BY <1>1 DEF IInv, TypeOK
<1>8. Valid(Sent, starts, received \o Items(s), jdCache')
  BY <1>2, <1>6, <1>7, Extend
<1>9. Valid(Sent', starts', received', jdCache')
  BY <1>6, <1>8
<1> QED
  BY <1>4, <1>5, <1>9 DEF IInv

\* Goroutine p sends batch b, which starts where the cache starts.
LEMMA SendStep ==
  ASSUME IInv, NEW b \in Scn, NEW p \in Handlers \cup {Timer},
         NEW next \in {"sleep", "done"}, Unlock(p, next),
         Send(b, CacheStart), jdCache' \in Scn, jdCount' \in Nat, JdInv',
         received' \in Seq(ItemType),
         UNCHANGED <<jdata, maxCache, handed, delivered>>,
         Valid(Append(Sent, b), Append(starts, CacheStart), received', jdCache')
  PROVE  IInv'
<1>1. TypeOK
  BY DEF IInv
<1>2. CacheStart \in Nat
  BY DEF IInv, Valid, CacheStart
<1>3. /\ scnQ' \in Seq(Scn) /\ Len(scnQ') <= QCap
      /\ starts' \in Seq(Nat)
  BY <1>1, <1>2, SendType
<1>4. /\ jdcMutex' \in Handlers \cup {Timer, Free}
      /\ pc' \in [Handlers \cup {Timer} ->
                    {"new", "sleep", "lock", "locked", "done"}]
  BY <1>1, UnlockType
<1>5. TypeOK'
  BY <1>1, <1>3, <1>4 DEF TypeOK
<1>6. Sent' = Append(Sent, b) /\ starts' = Append(starts, CacheStart)
  BY <1>1, <1>2, SentBySend DEF Send
<1> QED
  BY <1>5, <1>6 DEF IInv

\* Facts that every step on the cache starts from.
LEMMA IInvFacts ==
  ASSUME IInv
  PROVE  /\ TypeOK /\ Sent \in Seq(Scn) /\ starts \in Seq(Nat)
         /\ received \in Seq(ItemType) /\ jdCache \in Scn
         /\ jdCache.components \in Seq(Component)
         /\ Valid(Sent, starts, received, jdCache)
         /\ \A h \in Handlers : jdata[h] \in Scn
  BY SentType, ItemsType DEF IInv, TypeOK

\* The SCN that scnHandler() puts on an empty cache.
LEMMA CopyGrows ==
  ASSUME jdCache \in Scn, NEW s \in Scn, NEW c \in Scn, c.components = <<>>
  PROVE  Grows(c, s, jdcDeepCopy(s))
<1>1. s.components \in Seq(Component)
  BY ItemsType
<1>2. <<>> \o s.components = s.components
  BY <1>1, ConcatEmptySeq
<1> QED
  BY <1>2, CopyType DEF Grows

\* An SCN that scnHandler() merges into the cached one.
LEMMA MergeGrows ==
  ASSUME jdCache \in Scn, NEW s \in Scn, ~CacheEmpty, scnCacheEqual(s)
  PROVE  Grows(jdCache, s, Merged(s))
<1>1. jdCache.components # <<>>
  BY DEF CacheEmpty
<1>2. s.attr = jdCache.attr
  BY DEF scnCacheEqual
<1> QED
  BY <1>1, <1>2, MergedType DEF Grows

LEMMA CacheFirstStep ==
  ASSUME IInv, NEW h \in Handlers, CacheFirst(h)
  PROVE  IInv'
<1>1. jdata[h] \in Scn /\ jdCache \in Scn /\ TypeOK
        /\ jdCache.components \in Seq(Component)
  BY IInvFacts
<1>2. jdCache.components = <<>>
  BY <1>1, EmptySeq DEF IInv, JdInv, CacheFirst, CacheEmpty
<1>3. jdCache' \in Scn /\ Grows(jdCache, jdata[h], jdCache')
  BY <1>1, <1>2, CopyType, CopyGrows DEF CacheFirst
<1> QED
  BY <1>1, <1>3, MergeStep DEF CacheFirst

LEMMA CoalesceStep ==
  ASSUME IInv, NEW h \in Handlers, Coalesce(h)
  PROVE  IInv'
<1>1. jdata[h] \in Scn /\ jdCache \in Scn
  BY IInvFacts
<1>2. jdCache' \in Scn /\ Grows(jdCache, jdata[h], jdCache')
  BY <1>1, MergedType, MergeGrows DEF Coalesce
<1> QED
  BY <1>1, <1>2, MergeStep DEF Coalesce

LEMMA CoalesceAndFlushStep ==
  ASSUME IInv, NEW h \in Handlers, CoalesceAndFlush(h)
  PROVE  IInv'
<1>1. /\ TypeOK /\ Sent \in Seq(Scn) /\ starts \in Seq(Nat)
      /\ received \in Seq(ItemType) /\ jdCache \in Scn /\ jdata[h] \in Scn
      /\ jdCache.components \in Seq(Component)
      /\ Valid(Sent, starts, received, jdCache)
  BY IInvFacts
<1>2. PICK s \in Scn : s = jdata[h]
  BY <1>1
<1>3. PICK d \in Scn : d = Merged(s)
  BY <1>1, MergedType
<1>4. /\ d.components = jdCache.components \o s.components
      /\ Grows(jdCache, s, d)
  BY <1>1, <1>2, <1>3, MergedType, MergeGrows DEF CoalesceAndFlush
<1>5. /\ Items(s) \in Seq(ItemType) /\ Len(Items(s)) = Len(s.components)
      /\ s.components \in Seq(Component)
  BY ItemsType
<1>6. received' = received \o Items(s) /\ received' \in Seq(ItemType)
  BY <1>1, <1>2, <1>5, ConcatProperties DEF CoalesceAndFlush
<1>7. Valid(Sent, starts, received', d)
  BY <1>1, <1>4, <1>6, Extend
<1>8. Valid(Append(Sent, d),
            Append(starts, Len(received') - Len(d.components)),
            received', EmptyScn)
  BY <1>1, <1>6, <1>7, Flush
<1>9. Len(received') - Len(d.components) = CacheStart
  <2>1. Len(received') = Len(received) + Len(s.components)
    <3>1. Len(received \o Items(s)) = Len(received) + Len(Items(s))
      BY <1>1, <1>5, ConcatParts, Zenon
    <3> QED
      BY <1>5, <1>6, <3>1, Zenon
  <2>2. Len(d.components) = Len(jdCache.components) + Len(s.components)
    BY <1>1, <1>4, <1>5, ConcatProperties
  <2>3. Len(received) \in Nat /\ Len(s.components) \in Nat
          /\ Len(jdCache.components) \in Nat
    BY <1>1, <1>5
  <2> QED
    BY <2>1, <2>2, <2>3 DEF CacheStart
<1>10. Send(d, CacheStart) /\ jdCache' = EmptyScn /\ jdCount' = 0
         /\ Unlock(h, "done") /\ UNCHANGED <<jdata, maxCache, handed, delivered>>
  BY <1>2, <1>3 DEF CoalesceAndFlush, CacheStart
<1>11. jdCache' \in Scn /\ jdCount' \in Nat /\ JdInv'
  BY <1>10, EmptyType DEF JdInv
<1>12. Valid(Append(Sent, d), Append(starts, CacheStart), received', jdCache')
  BY <1>8, <1>9, <1>10
<1> QED
  BY <1>6, <1>10, <1>11, <1>12, SendStep

LEMMA ReplaceCacheStep ==
  ASSUME IInv, NEW h \in Handlers, ReplaceCache(h)
  PROVE  IInv'
<1>1. /\ TypeOK /\ Sent \in Seq(Scn) /\ starts \in Seq(Nat)
      /\ received \in Seq(ItemType) /\ jdCache \in Scn /\ jdata[h] \in Scn
      /\ Valid(Sent, starts, received, jdCache)
  BY IInvFacts
<1>2. PICK s \in Scn : s = jdata[h]
  BY <1>1
<1>3. PICK d \in Scn : d = jdcDeepCopy(s)
  BY <1>1, CopyType
<1>4. /\ Send(jdCache, CacheStart) /\ jdCache' = d /\ jdCount' = 1
      /\ received' = received \o Items(s) /\ Unlock(h, "done")
      /\ UNCHANGED <<jdata, maxCache, handed, delivered>>
  BY <1>2, <1>3 DEF ReplaceCache, CacheStart
<1>5. Valid(Append(Sent, jdCache), Append(starts, CacheStart),
            received, EmptyScn)
  BY <1>1, Flush DEF CacheStart
<1>6. PICK S \in Seq(Scn) : S = Append(Sent, jdCache)
  <2>1. Append(Sent, jdCache) \in Seq(Scn)
    BY <1>1, AppendProperties
  <2> QED
    BY <2>1, Zenon
<1>7. PICK st \in Seq(Nat) : st = Append(starts, CacheStart)
  <2>1. CacheStart \in Nat
    BY <1>1 DEF Valid, CacheStart
  <2>2. Append(starts, CacheStart) \in Seq(Nat)
    BY <1>1, <2>1, AppendProperties
  <2> QED
    BY <2>2, Zenon
<1>8. Grows(EmptyScn, s, d)
  BY <1>1, <1>3, EmptyType, CopyGrows
<1>9. Valid(S, st, received \o Items(s), d)
  BY <1>1, <1>5, <1>6, <1>7, <1>8, EmptyType, Extend
<1>10. received' \in Seq(ItemType)
  BY <1>1, <1>4, ItemsType, ConcatProperties
<1>11. jdCache' \in Scn /\ jdCount' \in Nat /\ JdInv'
  BY <1>4 DEF JdInv
<1>12. Valid(Append(Sent, jdCache), Append(starts, CacheStart),
             received', jdCache')
  BY <1>4, <1>6, <1>7, <1>9
<1> QED
  BY <1>1, <1>4, <1>10, <1>11, <1>12, SendStep

LEMMA TimerFlushStep ==
  ASSUME IInv, TimerFlush
  PROVE  IInv'
<1>1. /\ TypeOK /\ Sent \in Seq(Scn) /\ starts \in Seq(Nat)
      /\ received \in Seq(ItemType) /\ jdCache \in Scn
      /\ Valid(Sent, starts, received, jdCache)
  BY IInvFacts
<1>2. /\ Send(jdCache, CacheStart) /\ jdCache' = EmptyScn /\ jdCount' = 0
      /\ received' = received /\ Unlock(Timer, "sleep")
      /\ UNCHANGED <<jdata, maxCache, handed, delivered>>
  BY DEF TimerFlush, CacheStart
<1>3. Valid(Append(Sent, jdCache), Append(starts, CacheStart),
            received', jdCache')
  BY <1>1, <1>2, Flush DEF CacheStart
<1>4. jdCache' \in Scn /\ jdCount' \in Nat /\ JdInv'
  BY <1>2, EmptyType DEF JdInv
<1> QED
  BY <1>1, <1>2, <1>3, <1>4, SendStep

LEMMA TakeBatchStep ==
  ASSUME IInv, TakeBatch
  PROVE  IInv'
<1>1. TypeOK
  BY DEF IInv
<1>2. handed \in Seq(Scn) /\ scnQ \in Seq(Scn) /\ Len(scnQ) <= QCap
        /\ QCap \in Nat /\ scnQ # <<>>
  BY <1>1, ScnAssumption DEF TypeOK, TakeBatch
<1>3. handed' \in Seq(Scn) /\ scnQ' \in Seq(Scn) /\ Len(scnQ') <= QCap
  BY <1>2, HeadTailProperties, AppendProperties DEF TakeBatch
<1>a. delivered' \in Seq(Relayed)
  <2>1. Head(scnQ) \in Scn
    BY <1>2, HeadTailProperties
  <2>2. Relays(Head(scnQ)) \in Seq(Relayed) /\ delivered \in Seq(Relayed)
    BY <1>1, <2>1, RelaysType DEF TypeOK
  <2> QED
    BY <2>2, ConcatProperties DEF TakeBatch
<1>4. TypeOK'
  BY <1>1, <1>3, <1>a DEF TypeOK, TakeBatch
<1>5. Sent' = Sent
  BY <1>1, SentByTake
<1>6. Valid(Sent', starts', received', jdCache') /\ JdInv'
  BY <1>5 DEF IInv, TakeBatch, JdInv
<1> QED
  BY <1>4, <1>6 DEF IInv

LEMMA IInvStep == ASSUME IInv, [Next]_vars PROVE IInv'
<1>0. TypeOK
  BY DEF IInv
<1>1. ASSUME NEW h \in Handlers, Refuse(h) PROVE IInv'
  BY <1>0, <1>1, IdleStep DEF TypeOK, Refuse
<1>2. ASSUME NEW h \in Handlers, Decode(h) PROVE IInv'
  <2>1. jdata' \in [Handlers -> Scn]
    BY <1>0, <1>2, ScnAssumption DEF TypeOK, Decode
  <2> QED
    BY <1>0, <1>2, <2>1, IdleStep DEF TypeOK, Decode
<1>3. ASSUME NEW p \in Handlers \cup {Timer}, Lock(p) PROVE IInv'
  BY <1>0, <1>3, IdleStep DEF TypeOK, Lock
<1>4. CASE TimerWake
  BY <1>0, <1>4, IdleStep DEF TypeOK, TimerWake
<1>5. CASE TimerNothing
  <2>1. Unlock(Timer, "sleep")
    BY <1>5 DEF TimerNothing
  <2>2. /\ jdcMutex' \in Handlers \cup {Timer, Free}
        /\ pc' \in [Handlers \cup {Timer} ->
                      {"new", "sleep", "lock", "locked", "done"}]
    BY <1>0, <2>1, UnlockType
  <2> QED
    BY <1>0, <1>5, <2>2, IdleStep DEF TypeOK, TimerNothing
<1>6. CASE PatchMaxCache
  BY <1>0, <1>6, IdleStep DEF TypeOK, PatchMaxCache
<1>7. CASE UNCHANGED vars
  BY <1>0, <1>7, IdleStep DEF TypeOK, vars
<1> QED
  BY <1>1, <1>2, <1>3, <1>4, <1>5, <1>6, <1>7, CacheFirstStep, CoalesceStep,
     CoalesceAndFlushStep, ReplaceCacheStep, TimerFlushStep, TakeBatchStep
     DEF Next, HandlerStep, TimerStep

\* The invariant says what the properties say.
LEMMA IInvImplies == ASSUME IInv PROVE ExactlyOnceInOrder
<1>1. Valid(Sent, starts, received, jdCache)
  BY DEF IInv
<1>2. BatchesTile
  BY <1>1 DEF Valid, BatchesTile, CacheStart
<1>3. \A k \in 1..Len(Sent) : Covers(received, Sent[k], starts[k])
  BY <1>1 DEF Valid
<1>4. Covers(received, jdCache, CacheStart)
  BY <1>1 DEF Valid, CacheStart
<1> QED
  BY <1>2, <1>3, <1>4 DEF ExactlyOnceInOrder, Reports, Covers

LEMMA IInvSubRoles == ASSUME IInv PROVE SubRoleOfFirst
<1>1. Valid(Sent, starts, received, jdCache) /\ Sent \in Seq(Scn)
  BY SentType DEF IInv
<1> SUFFICES ASSUME NEW k \in 1..Len(Sent), Sent[k].components # <<>>
             PROVE  Sent[k].subRole = received[starts[k] + 1].subRole
  BY DEF SubRoleOfFirst
<1>2. Covers(received, Sent[k], starts[k])
  BY <1>1 DEF Valid
<1>3. Sent[k] \in Scn
  BY <1>1, ElementOfSeq
<1>4. Sent[k].components \in Seq(Component)
  BY <1>3, ItemsType
<1>5. Len(Sent[k].components) > 0
  BY <1>4, EmptySeq
<1> QED
  BY <1>2, <1>5 DEF Covers

LEMMA InductiveInvariant == SafetySpec => []IInv
<1>1. Init => IInv
  BY IInvInit
<1>2. IInv /\ [Next]_vars => IInv'
  BY IInvStep
<1> QED
  BY <1>1, <1>2, PTL DEF SafetySpec

\* The globals of scnHandler() keep their types, scnQ its capacity, and a
\* batch never starts before the beginning of the history.
THEOREM TypeCorrect == SafetySpec => []TypeOK
<1>1. IInv => TypeOK
  BY DEF IInv
<1> QED
  BY <1>1, InductiveInvariant, PTL

\* scnHandler() and checkSCNCache() together pass on every component of every
\* answered SCN exactly once, in order and with its own state attributes, for
\* any number of SCNs, any batch limits and any capacity of scnQ.
THEOREM BatchingIsLossless == SafetySpec => []ExactlyOnceInOrder
<1>1. IInv => ExactlyOnceInOrder
  BY IInvImplies
<1> QED
  BY <1>1, InductiveInvariant, PTL

\* A batch goes out under the sub-role of the SCN that began it, whatever was
\* merged into it and whatever passed through the cache before.
THEOREM BatchSubRole == SafetySpec => []SubRoleOfFirst
<1>1. IInv => SubRoleOfFirst
  BY IInvSubRoles
<1> QED
  BY <1>1, InductiveInvariant, PTL

-----------------------------------------------------------------------------
(* The size of a batch.  Scn_max_cache and the SCNs must have a largest    *)
(* value, or there is nothing to compare a batch with.                     *)

HasLargest(S) == \E n \in S : \A m \in S : m <= n

Lengths == {Len(s.components) : s \in Scns}
MaxSize == Largest(MaxCaches \cup {2})
MaxLen == Largest(Lengths)

LEMMA LargestIs ==
  ASSUME NEW S, HasLargest(S)
  PROVE  Largest(S) \in S /\ \A m \in S : m <= Largest(S)
  BY DEF HasLargest, Largest

LEMMA Limits ==
  ASSUME HasLargest(MaxCaches \cup {2}), HasLargest(Lengths)
  PROVE  /\ MaxSize \in Nat /\ MaxSize >= 2 /\ \A m \in MaxCaches : m <= MaxSize
         /\ MaxLen \in Nat /\ \A s \in Scns : Len(s.components) <= MaxLen
<1>1. MaxSize \in MaxCaches \cup {2} /\ \A m \in MaxCaches \cup {2} : m <= MaxSize
  BY LargestIs DEF MaxSize
<1>2. MaxLen \in Lengths /\ \A m \in Lengths : m <= MaxLen
  BY LargestIs DEF MaxLen
<1>3. \A s \in Scns : Len(s.components) \in Nat /\ Len(s.components) \in Lengths
  <2>1. \A s \in Scns : s.components \in Seq(Component)
    BY ScnAssumption, ItemsType
  <2> QED
    BY <2>1, LenProperties DEF Lengths
<1>4. MaxLen \in Nat
  BY <1>2, <1>3 DEF Lengths
<1>5. MaxSize \in Nat /\ MaxSize >= 2
  BY <1>1, ScnAssumption
<1> QED
  BY <1>1, <1>2, <1>3, <1>4, <1>5

LEMMA Times ==
  ASSUME NEW a \in Nat, NEW b \in Nat, NEW n \in Nat, a <= b
  PROVE  /\ a * n \in Nat /\ b * n \in Nat /\ a * n <= b * n
         /\ (a + 1) * n = a * n + n
<1>1. a * n \in Nat /\ b * n \in Nat /\ (b - a) * n \in Nat
  OBVIOUS
<1>2. b * n = a * n + (b - a) * n
  OBVIOUS
<1>3. a * n <= b * n
  BY <1>1, <1>2
<1>4. (a + 1) * n = a * n + n
  OBVIOUS
<1> QED
  BY <1>1, <1>3, <1>4

\* Each SCN counted brought at most MaxLen components.  SCNs without any may
\* have carried jdCount beyond the limit before the first that has some: then
\* the next one flushes, so what is cached is that one's.
CacheBound ==
    /\ Len(jdCache.components) <= jdCount * MaxLen
    /\ Len(jdCache.components) <= MaxLen \/ jdCount < MaxSize

DataBound == \A h \in Handlers : Len(jdata[h].components) <= MaxLen

SentBound == \A k \in 1..Len(Sent) : Len(Sent[k].components) <= MaxSize * MaxLen

BoundInv == CacheBound /\ DataBound /\ SentBound

\* A batch that fits is sent.
LEMMA SendBound ==
  ASSUME TypeOK, SentBound, NEW b \in Scn, NEW n, Send(b, n), handed' = handed,
         Len(b.components) <= MaxSize * MaxLen
  PROVE  SentBound'
<1>1. Sent' = Append(Sent, b) /\ Sent \in Seq(Scn)
  BY SentBySend, SentType
<1>2. /\ Len(Append(Sent, b)) = Len(Sent) + 1 /\ Len(Sent) \in Nat
      /\ \A k \in 1..Len(Sent) : Append(Sent, b)[k] = Sent[k]
      /\ Append(Sent, b)[Len(Sent) + 1] = b
  BY <1>1, AppendProperties, LenProperties
<1>3. \A k \in 1..Len(Sent') : k \in 1..Len(Sent) \/ k = Len(Sent) + 1
  BY <1>1, <1>2
<1>4. \A k \in 1..Len(Sent') : Len(Sent'[k].components) <= MaxSize * MaxLen
  BY <1>1, <1>2, <1>3 DEF SentBound
<1> QED
  BY <1>4 DEF SentBound

\* The lengths a step on the cache works with.
LEMMA BoundFacts ==
  ASSUME IInv, BoundInv, NEW h \in Handlers,
         HasLargest(MaxCaches \cup {2}), HasLargest(Lengths)
  PROVE  /\ Len(jdCache.components) \in Nat /\ Len(jdata[h].components) \in Nat
         /\ Len(jdata[h].components) <= MaxLen
         /\ jdCount \in Nat /\ maxCache \in Nat /\ maxCache <= MaxSize
         /\ Len(jdcDeepCopy(jdata[h]).components) = Len(jdata[h].components)
         /\ Len(Merged(jdata[h]).components)
               = Len(jdCache.components) + Len(jdata[h].components)
         /\ jdcDeepCopy(jdata[h]) \in Scn /\ Merged(jdata[h]) \in Scn
         /\ jdCache \in Scn /\ TypeOK
<1>1. jdata[h] \in Scn /\ jdCache \in Scn /\ TypeOK
  BY IInvFacts
<1>2. /\ jdcDeepCopy(jdata[h]) \in Scn
      /\ jdcDeepCopy(jdata[h]).components = jdata[h].components
  BY <1>1, CopyType
<1>3. /\ Merged(jdata[h]) \in Scn
      /\ Merged(jdata[h]).components = jdCache.components \o jdata[h].components
  BY <1>1, MergedType
<1>4. jdata[h].components \in Seq(Component) /\ jdCache.components \in Seq(Component)
  BY <1>1, ItemsType
<1>5. /\ Len(jdata[h].components) \in Nat /\ Len(jdCache.components) \in Nat
      /\ Len(jdCache.components \o jdata[h].components)
           = Len(jdCache.components) + Len(jdata[h].components)
  BY <1>4, ConcatParts, LenProperties
<1>6. jdCount \in Nat /\ maxCache \in Nat /\ maxCache <= MaxSize
  BY <1>1, Limits, ScnAssumption DEF TypeOK
<1>7. Len(jdata[h].components) <= MaxLen
  BY DEF BoundInv, DataBound
<1> QED
  BY <1>1, <1>2, <1>3, <1>5, <1>6, <1>7, Zenon

LEMMA CacheFits ==
  ASSUME NEW c \in Nat, NEW s \in Nat, NEW n \in Nat, NEW M \in Nat, NEW L \in Nat,
         M >= 2, s <= L, c <= n * L, c <= L \/ n < M
  PROVE  c <= M * L /\ c + s <= M * L /\ c + s <= (n + 1) * L
<1>1. 2 * L <= M * L /\ M * L \in Nat /\ 2 * L = L + L
  BY Times
<1>2. (n + 1) * L = n * L + L /\ n * L \in Nat /\ (n < M => (n + 1) * L <= M * L)
  <2>1. n + 1 \in Nat /\ (n < M => n + 1 <= M)
    OBVIOUS
  <2> QED
    BY <2>1, Times
<1>3. c + s <= (n + 1) * L
  BY <1>2
<1>4. c + s <= M * L
  BY <1>1, <1>2, <1>3
<1> QED
  BY <1>3, <1>4, <1>1

\* What is cached, and not flushed, leaves room for one SCN.
LEMMA CacheWaits ==
  ASSUME NEW c \in Nat, NEW n \in Nat, NEW M \in Nat, NEW L \in Nat,
         M >= 2, c <= n * L, c <= L \/ n < M
  PROVE  c <= (M - 1) * L
<1>1. M - 1 \in Nat /\ 1 <= M - 1 /\ (n < M => n <= M - 1)
  OBVIOUS
<1>2. 1 * L <= (M - 1) * L /\ 1 * L = L /\ (M - 1) * L \in Nat
  BY <1>1, Times
<1>3. n < M => n * L <= (M - 1) * L /\ n * L \in Nat
  BY <1>1, Times
<1> QED
  BY <1>2, <1>3

\* Steps that leave cache and channel alone.
LEMMA BoundKept ==
  ASSUME BoundInv, UNCHANGED <<jdCache, jdCount, jdata>>, Sent' = Sent
  PROVE  BoundInv'
  BY DEF BoundInv, CacheBound, DataBound, SentBound

LEMMA DecodeBound ==
  ASSUME IInv, BoundInv, NEW h \in Handlers, Decode(h),
         HasLargest(MaxCaches \cup {2}), HasLargest(Lengths)
  PROVE  BoundInv'
<1>1. PICK s \in Scns : jdata' = [jdata EXCEPT ![h] = s]
  BY DEF Decode
<1>2. jdata \in [Handlers -> Scn] /\ Len(s.components) <= MaxLen
  BY Limits DEF IInv, TypeOK
<1>3. \A g \in Handlers : jdata'[g] = s \/ jdata'[g] = jdata[g]
  BY <1>1, <1>2
<1>4. DataBound'
  BY <1>2, <1>3 DEF BoundInv, DataBound
<1>5. UNCHANGED <<jdCache, jdCount>> /\ Sent' = Sent
  BY DEF Decode, Sent
<1> QED
  BY <1>4, <1>5 DEF BoundInv, CacheBound, SentBound

LEMMA CacheStepBound ==
  ASSUME IInv, BoundInv, NEW h \in Handlers,
         HasLargest(MaxCaches \cup {2}), HasLargest(Lengths),
         \/ CacheFirst(h) \/ Coalesce(h) \/ CoalesceAndFlush(h) \/ ReplaceCache(h)
  PROVE  BoundInv'
<1> DEFINE c == Len(jdCache.components)
           l == Len(jdata[h].components)
<1>1. /\ c \in Nat /\ l \in Nat /\ l <= MaxLen
      /\ jdCount \in Nat /\ maxCache \in Nat /\ maxCache <= MaxSize
      /\ Len(jdcDeepCopy(jdata[h]).components) = l
      /\ Len(Merged(jdata[h]).components) = c + l
      /\ Merged(jdata[h]) \in Scn /\ jdCache \in Scn /\ TypeOK
  BY BoundFacts
<1>2. MaxSize \in Nat /\ MaxSize >= 2 /\ MaxLen \in Nat
  BY Limits
<1>3. c <= jdCount * MaxLen /\ (c <= MaxLen \/ jdCount < MaxSize) /\ SentBound
  BY DEF BoundInv, CacheBound
<1>4. /\ c <= MaxSize * MaxLen /\ c + l <= MaxSize * MaxLen
      /\ c + l <= (jdCount + 1) * MaxLen
  <2> HIDE DEF c, l
  <2> QED
    BY <1>1, <1>2, <1>3, CacheFits
<1>5. DataBound'
  BY DEF BoundInv, DataBound, CacheFirst, Coalesce, CoalesceAndFlush, ReplaceCache
<1>6. CASE CacheFirst(h)
  <2>1. /\ Len(jdCache'.components) = l /\ jdCount' = jdCount + 1 /\ Sent' = Sent
    BY <1>1, <1>6 DEF CacheFirst, Sent
  <2>2. l <= (jdCount + 1) * MaxLen
    <3>1. 1 * MaxLen <= (jdCount + 1) * MaxLen /\ 1 * MaxLen = MaxLen
            /\ (jdCount + 1) * MaxLen \in Nat
      BY <1>1, <1>2, Times
    <3> QED
      BY <1>1, <1>2, <3>1
  <2>3. CacheBound'
    BY <1>1, <2>1, <2>2 DEF CacheBound, MaxLen, MaxSize, Lengths, Largest
  <2> QED
    BY <1>3, <1>5, <2>1, <2>3 DEF BoundInv, SentBound
<1>7. CASE Coalesce(h)
  <2>1. /\ Len(jdCache'.components) = c + l /\ jdCount' = jdCount + 1
        /\ jdCount + 1 < maxCache /\ Sent' = Sent
    BY <1>1, <1>7 DEF Coalesce, Sent
  <2>2. jdCount' < MaxSize
    BY <1>1, <1>2, <2>1
  <2>3. CacheBound'
    BY <1>4, <2>1, <2>2 DEF CacheBound
  <2> QED
    BY <1>3, <1>5, <2>1, <2>3 DEF BoundInv, SentBound
<1>8. CASE CoalesceAndFlush(h)
  <2>1. /\ Send(Merged(jdata[h]), CacheStart) /\ jdCache' = EmptyScn /\ jdCount' = 0
        /\ handed' = handed
    BY <1>8 DEF CoalesceAndFlush, CacheStart
  <2>2. SentBound'
    BY <1>1, <1>3, <1>4, <2>1, SendBound
  <2>3. Len(jdCache'.components) = 0
    BY <2>1, EmptyType
  <2>4. CacheBound'
    BY <1>2, <2>1, <2>3 DEF CacheBound
  <2> QED
    BY <1>5, <2>2, <2>4 DEF BoundInv
<1>9. CASE ReplaceCache(h)
  <2>1. /\ Send(jdCache, CacheStart) /\ jdCache' = jdcDeepCopy(jdata[h])
        /\ jdCount' = 1 /\ handed' = handed
    BY <1>9 DEF ReplaceCache, CacheStart
  <2>2. SentBound'
    BY <1>1, <1>3, <1>4, <2>1, SendBound
  <2>3. Len(jdCache'.components) = l
    BY <1>1, <2>1
  <2>4. CacheBound'
    BY <1>1, <1>2, <2>1, <2>3 DEF CacheBound
  <2> QED
    BY <1>5, <2>2, <2>4 DEF BoundInv
<1> QED
  BY <1>6, <1>7, <1>8, <1>9

LEMMA TimerFlushBound ==
  ASSUME IInv, BoundInv, TimerFlush,
         HasLargest(MaxCaches \cup {2}), HasLargest(Lengths)
  PROVE  BoundInv'
<1>1. /\ Send(jdCache, CacheStart) /\ jdCache' = EmptyScn /\ jdCount' = 0
      /\ UNCHANGED <<jdata, handed>>
  BY DEF TimerFlush, CacheStart
<1>2. jdCache \in Scn /\ TypeOK /\ jdCount \in Nat
  BY IInvFacts DEF TypeOK
<1>3. PICK c \in Nat : c = Len(jdCache.components)
  <2>1. jdCache.components \in Seq(Component)
    BY <1>2, ItemsType
  <2> QED
    BY <2>1, LenProperties
<1>4. MaxSize \in Nat /\ MaxSize >= 2 /\ MaxLen \in Nat /\ 0 <= MaxLen
  BY Limits
<1>5. c <= MaxSize * MaxLen
  BY <1>2, <1>3, <1>4, CacheFits DEF BoundInv, CacheBound
<1>6. SentBound'
  BY <1>1, <1>2, <1>3, <1>5, SendBound DEF BoundInv
<1>7. Len(jdCache'.components) = 0
  BY <1>1, EmptyType
<1>8. CacheBound' /\ DataBound'
  BY <1>1, <1>4, <1>7 DEF CacheBound, BoundInv, DataBound
<1> QED
  BY <1>6, <1>8 DEF BoundInv

LEMMA BoundStep ==
  ASSUME IInv, BoundInv, [Next]_vars,
         HasLargest(MaxCaches \cup {2}), HasLargest(Lengths)
  PROVE  BoundInv'
<1>1. CASE UNCHANGED <<jdCache, jdCount, jdata, scnQ, handed>>
  BY <1>1, BoundKept DEF Sent
<1>2. CASE TakeBatch
  <2>1. Sent' = Sent /\ UNCHANGED <<jdCache, jdCount, jdata>>
    BY <1>2, SentByTake DEF IInv, TakeBatch
  <2> QED
    BY <2>1, BoundKept
<1>3. ASSUME NEW h \in Handlers, Refuse(h) \/ Lock(h)
      PROVE  UNCHANGED <<jdCache, jdCount, jdata, scnQ, handed>>
  BY <1>3 DEF Refuse, Lock
<1>4. TimerWake \/ Lock(Timer) \/ TimerNothing \/ PatchMaxCache \/ UNCHANGED vars
        => UNCHANGED <<jdCache, jdCount, jdata, scnQ, handed>>
  BY DEF TimerWake, Lock, TimerNothing, PatchMaxCache, vars
<1> QED
  BY <1>1, <1>2, <1>3, <1>4, DecodeBound, CacheStepBound, TimerFlushBound
  DEF Next, HandlerStep, TimerStep

\* However SCNs without components and PATCHes of Scn_max_cache interfere
\* with the counting, neither the cache nor a batch is larger than the limit
\* allows.
THEOREM BatchesBounded ==
  ASSUME HasLargest(MaxCaches \cup {2}), HasLargest(Lengths)
  PROVE  SafetySpec => []BatchBound
<1>1. Init => BoundInv
  <2> SUFFICES ASSUME Init PROVE BoundInv
    OBVIOUS
  <2>1. MaxLen \in Nat /\ 0 <= MaxLen /\ 0 * MaxLen = 0
    BY Limits
  <2>2. Len(jdCache.components) = 0 /\ jdCount = 0
          /\ \A h \in Handlers : Len(jdata[h].components) = 0
    BY EmptyType DEF Init
  <2>3. Len(Sent) = 0
    BY DEF Init, Sent
  <2> QED
    BY <2>1, <2>2, <2>3 DEF BoundInv, CacheBound, DataBound, SentBound
<1>2. IInv /\ BoundInv /\ [Next]_vars => BoundInv'
  BY BoundStep
<1>3. IInv /\ BoundInv => BatchBound
  <2> SUFFICES ASSUME IInv, BoundInv PROVE BatchBound
    OBVIOUS
  <2>1. MaxSize = BatchLimit /\ MaxLen = LongestScn
    BY DEF MaxSize, BatchLimit, MaxLen, LongestScn, Lengths
  <2>2. /\ MaxSize \in Nat /\ MaxSize >= 2 /\ MaxLen \in Nat
        /\ jdCount \in Nat /\ Len(jdCache.components) \in Nat
    BY Limits, ItemsType DEF IInv, TypeOK
  <2>3. Len(jdCache.components) <= (MaxSize - 1) * MaxLen
    BY <2>2, CacheWaits DEF BoundInv, CacheBound
  <2> QED
    BY <2>1, <2>3 DEF BoundInv, SentBound, BatchBound
<1> QED
  BY <1>1, <1>2, <1>3, InductiveInvariant, PTL DEF SafetySpec

-----------------------------------------------------------------------------
(* The batching stage as an ordered relay *)

\* Where the next batch that handleSCNs() takes begins in the history.
NextStart == IF scnQ = <<>> THEN CacheStart ELSE starts[Len(handed) + 1]

\* What was delivered is the history up to there.
DeliveredInv ==
    /\ Len(delivered) = NextStart
    /\ \A i \in 1..Len(delivered) : delivered[i] = Keep(received[i])

LEMMA RelayFacts ==
  ASSUME IInv
  PROVE  /\ Len(starts) = Len(handed) + Len(scnQ) /\ Len(Sent) = Len(starts)
         /\ Len(handed) \in Nat /\ Len(scnQ) \in Nat
         /\ starts \in Seq(Nat) /\ received \in Seq(ItemType)
         /\ delivered \in Seq(Relayed) /\ Len(received) \in Nat
         /\ scnQ = <<>> <=> Len(scnQ) = 0
         /\ CacheStart \in Nat /\ CacheStart <= Len(received)
         /\ \A i \in 1..Len(scnQ) : Sent[Len(handed) + i] = scnQ[i]
<1>1. /\ handed \in Seq(Scn) /\ scnQ \in Seq(Scn) /\ starts \in Seq(Nat)
      /\ received \in Seq(ItemType) /\ delivered \in Seq(Relayed) /\ jdCache \in Scn
  BY DEF IInv, TypeOK
<1>2. Len(starts) = Len(Sent) /\ CacheStart \in Nat
  BY DEF IInv, Valid, CacheStart
<1>3. /\ Len(Sent) = Len(handed) + Len(scnQ)
      /\ \A i \in 1..Len(scnQ) : Sent[Len(handed) + i] = scnQ[i]
  BY <1>1, ConcatParts DEF Sent
<1>4. /\ Len(handed) \in Nat /\ Len(scnQ) \in Nat /\ Len(received) \in Nat
      /\ scnQ = <<>> <=> Len(scnQ) = 0
  BY <1>1, LenProperties, EmptySeq
<1>5. Len(jdCache.components) \in Nat
  <2>1. jdCache.components \in Seq(Component)
    BY <1>1, ItemsType
  <2> QED
    BY <2>1, LenProperties
<1>6. CacheStart <= Len(received)
  BY <1>4, <1>5 DEF CacheStart
<1> QED
  BY <1>1, <1>2, <1>3, <1>4, <1>6

\* Merging an SCN does not move the start of the cache.
LEMMA GrowStart ==
  ASSUME IInv, NEW s \in Scn, jdCache' \in Scn, Grows(jdCache, s, jdCache'),
         received' = received \o Items(s)
  PROVE  CacheStart' = CacheStart
<1>1. /\ received \in Seq(ItemType) /\ Items(s) \in Seq(ItemType)
      /\ jdCache.components \in Seq(Component) /\ s.components \in Seq(Component)
      /\ Len(Items(s)) = Len(s.components)
  BY IInvFacts, ItemsType
<1>2. /\ Len(received) \in Nat /\ Len(jdCache.components) \in Nat
      /\ Len(s.components) \in Nat
  BY <1>1, LenProperties
<1>3. Len(received') = Len(received) + Len(s.components)
  <2>1. Len(received \o Items(s)) = Len(received) + Len(Items(s))
    BY <1>1, ConcatParts, Zenon
  <2> QED
    BY <1>1, <2>1, Zenon
<1>4. Len(jdCache'.components) = Len(jdCache.components) + Len(s.components)
  <2>1. Len(jdCache.components \o s.components)
          = Len(jdCache.components) + Len(s.components)
    BY <1>1, ConcatParts, Zenon
  <2> QED
    BY <2>1 DEF Grows
<1> QED
  BY <1>2, <1>3, <1>4 DEF CacheStart

\* A batch that is sent begins where the cache began: on an empty channel it
\* is the next one to be taken.
LEMMA SendStart ==
  ASSUME IInv, NEW b \in Scn, Send(b, CacheStart), handed' = handed
  PROVE  NextStart' = NextStart
<1>1. /\ Len(starts) = Len(handed) + Len(scnQ)
      /\ Len(handed) \in Nat /\ Len(scnQ) \in Nat
      /\ starts \in Seq(Nat) /\ (scnQ = <<>> <=> Len(scnQ) = 0)
      /\ CacheStart \in Nat
  BY RelayFacts
<1>2. /\ starts' = Append(starts, CacheStart)
      /\ \A k \in 1..Len(starts) : starts'[k] = starts[k]
      /\ starts'[Len(starts) + 1] = CacheStart
  BY <1>1, AppendProperties DEF Send
<1>3. scnQ' # <<>>
  <2>1. scnQ \in Seq(Scn) /\ scnQ' = Append(scnQ, b)
    BY DEF IInv, TypeOK, Send
  <2> QED
    BY <2>1, AppendProperties
<1>4. CASE scnQ = <<>>
  BY <1>1, <1>2, <1>3, <1>4 DEF NextStart
<1>5. CASE scnQ # <<>>
  <2>1. Len(handed) + 1 \in 1..Len(starts)
    BY <1>1, <1>5
  <2> QED
    BY <1>2, <1>3, <1>5, <2>1 DEF NextStart
<1> QED
  BY <1>4, <1>5

\* A step takes a batch, or adds to the history at its end, or neither.
LEMMA HistoryStep ==
  ASSUME IInv, [Next]_vars
  PROVE  \/ TakeBatch
         \/ /\ delivered' = delivered /\ NextStart' = NextStart
            /\ \E new \in Seq(ItemType) : received' = received \o new
<1>0. ASSUME UNCHANGED <<scnQ, handed, delivered, received, starts, jdCache>>
      PROVE  /\ delivered' = delivered /\ NextStart' = NextStart
             /\ \E new \in Seq(ItemType) : received' = received \o new
  <2>1. received \in Seq(ItemType)
    BY IInvFacts
  <2>2. <<>> \in Seq(ItemType) /\ received \o <<>> = received
    BY <2>1, ConcatEmptySeq
  <2> QED
    BY <1>0, <2>2 DEF NextStart, CacheStart
<1>1. ASSUME NEW h \in Handlers, CacheFirst(h) \/ Coalesce(h)
      PROVE  /\ delivered' = delivered /\ NextStart' = NextStart
             /\ received' = received \o Items(jdata[h])
  <2>1. /\ jdata[h] \in Scn /\ jdCache \in Scn
        /\ jdCache.components \in Seq(Component)
    BY IInvFacts
  <2>2. jdCache' \in Scn /\ Grows(jdCache, jdata[h], jdCache')
    <3>1. CASE CacheFirst(h)
      <4>1. jdCache.components = <<>>
        BY <2>1, <3>1, EmptySeq DEF IInv, JdInv, CacheFirst, CacheEmpty
      <4> QED
        BY <2>1, <3>1, <4>1, CopyType, CopyGrows DEF CacheFirst
    <3>2. CASE Coalesce(h)
      BY <2>1, <3>2, MergedType, MergeGrows DEF Coalesce
    <3> QED
      BY <1>1, <3>1, <3>2
  <2>3. /\ received' = received \o Items(jdata[h])
        /\ UNCHANGED <<scnQ, handed, delivered, starts>>
    BY <1>1 DEF CacheFirst, Coalesce
  <2>4. CacheStart' = CacheStart
    BY <2>1, <2>2, <2>3, GrowStart
  <2> QED
    BY <2>3, <2>4 DEF NextStart
<1>2. ASSUME NEW h \in Handlers, CoalesceAndFlush(h) \/ ReplaceCache(h)
      PROVE  /\ delivered' = delivered /\ NextStart' = NextStart
             /\ received' = received \o Items(jdata[h])
  <2>1. jdCache \in Scn /\ Merged(jdata[h]) \in Scn
    BY IInvFacts, MergedType
  <2>2. /\ \E b \in Scn : Send(b, CacheStart)
        /\ received' = received \o Items(jdata[h])
        /\ UNCHANGED <<handed, delivered>>
    BY <1>2, <2>1 DEF CoalesceAndFlush, ReplaceCache, CacheStart
  <2> QED
    BY <2>2, SendStart
<1>3. CASE TimerFlush
  <2>1. /\ jdCache \in Scn /\ Send(jdCache, CacheStart)
        /\ UNCHANGED <<handed, delivered, received>>
    BY <1>3, IInvFacts DEF TimerFlush, CacheStart
  <2>2. NextStart' = NextStart
    BY <2>1, SendStart
  <2>3. received \in Seq(ItemType)
    BY IInvFacts
  <2>4. <<>> \in Seq(ItemType) /\ received \o <<>> = received
    BY <2>3, ConcatEmptySeq
  <2> QED
    BY <2>1, <2>2, <2>4
<1>4. \A h \in Handlers : Items(jdata[h]) \in Seq(ItemType)
  BY IInvFacts, ItemsType
<1>5. ASSUME NEW h \in Handlers, Refuse(h) \/ Decode(h) \/ Lock(h)
      PROVE  UNCHANGED <<scnQ, handed, delivered, received, starts, jdCache>>
  BY <1>5 DEF Refuse, Decode, Lock
<1>6. TimerWake \/ Lock(Timer) \/ TimerNothing \/ PatchMaxCache \/ UNCHANGED vars
        => UNCHANGED <<scnQ, handed, delivered, received, starts, jdCache>>
  BY DEF TimerWake, Lock, TimerNothing, PatchMaxCache, vars
<1> QED
  BY <1>0, <1>1, <1>2, <1>3, <1>4, <1>5, <1>6 DEF Next, HandlerStep, TimerStep

\* The batch that handleSCNs() takes is the history from NextStart on.
LEMMA TakeFacts ==
  ASSUME IInv, TakeBatch, NEW b, b = Head(scnQ)
  PROVE  /\ b \in Scn /\ Len(b.components) \in Nat /\ NextStart \in Nat
         /\ delivered' = delivered \o Relays(b) /\ received' = received
         /\ NextStart' = NextStart + Len(b.components)
         /\ NextStart' <= Len(received)
         /\ Covers(received, b, NextStart)
<1> DEFINE k == Len(handed) + 1
<1>1. /\ Len(starts) = Len(handed) + Len(scnQ) /\ Len(Sent) = Len(starts)
      /\ Len(handed) \in Nat /\ Len(scnQ) \in Nat /\ Len(received) \in Nat
      /\ starts \in Seq(Nat) /\ (scnQ = <<>> <=> Len(scnQ) = 0)
      /\ CacheStart \in Nat /\ CacheStart <= Len(received)
      /\ \A i \in 1..Len(scnQ) : Sent[Len(handed) + i] = scnQ[i]
  BY RelayFacts
<1>2. /\ scnQ \in Seq(Scn) /\ scnQ # <<>> /\ handed \in Seq(Scn)
      /\ handed' = Append(handed, b) /\ scnQ' = Tail(scnQ)
      /\ delivered' = delivered \o Relays(b)
      /\ UNCHANGED <<received, jdCache, starts>>
  BY DEF IInv, TypeOK, TakeBatch
<1>3. /\ b \in Scn /\ b = scnQ[1] /\ scnQ' \in Seq(Scn)
      /\ Len(scnQ') = Len(scnQ) - 1 /\ (scnQ' = <<>> <=> Len(scnQ') = 0)
  <2>1. /\ Head(scnQ) \in Scn /\ Head(scnQ) = scnQ[1] /\ Tail(scnQ) \in Seq(Scn)
        /\ Len(Tail(scnQ)) = Len(scnQ) - 1
    BY <1>2, HeadTailProperties
  <2>2. Tail(scnQ) = <<>> <=> Len(Tail(scnQ)) = 0
    BY <2>1, EmptySeq
  <2> QED
    BY <1>2, <2>1, <2>2, Zenon
<1>4. Len(handed') = k
  BY <1>2, <1>3, AppendProperties
<1>5. Len(b.components) \in Nat
  <2>1. b.components \in Seq(Component)
    BY <1>3, ItemsType
  <2> QED
    BY <2>1, LenProperties
<1>6. k \in 1..Len(Sent) /\ Sent[k] = b /\ 1 \in 1..Len(scnQ)
  BY <1>1, <1>2, <1>3
<1>7. starts[k] = NextStart /\ starts[k] \in Nat
  <2>1. starts[k] \in Nat
    BY <1>1, <1>6, ElementOfSeq
  <2> QED
    BY <1>2, <2>1 DEF NextStart
<1>8. /\ starts[k] + Len(Sent[k].components)
            = IF k < Len(Sent) THEN starts[k + 1] ELSE CacheStart
      /\ starts[k] + Len(Sent[k].components) <= CacheStart
      /\ Covers(received, Sent[k], starts[k])
  BY <1>6 DEF IInv, Valid, CacheStart
<1>9. CacheStart' = CacheStart
  BY <1>2 DEF CacheStart
<1>10. (scnQ' = <<>>) <=> ~(k < Len(Sent))
  <2>1. \A m, n \in Nat : n # 0 => ((n - 1 = 0) <=> ~(m + 1 < m + n))
    OBVIOUS
  <2>2. Len(scnQ) # 0
    BY <1>1, <1>2
  <2>3. (Len(scnQ) - 1 = 0) <=> ~(Len(handed) + 1 < Len(handed) + Len(scnQ))
    BY <1>1, <2>1, <2>2
  <2> QED
    BY <1>1, <1>3, <2>3, Zenon
<1>11. NextStart' = IF k < Len(Sent) THEN starts[k + 1] ELSE CacheStart
  BY <1>2, <1>4, <1>9, <1>10 DEF NextStart
<1> HIDE DEF k
<1>12. NextStart' = NextStart + Len(b.components)
  BY <1>6, <1>7, <1>8, <1>11
<1>13. NextStart' <= Len(received)
  <2>1. NextStart' <= CacheStart /\ NextStart' \in Nat
    BY <1>5, <1>6, <1>7, <1>8, <1>12
  <2> QED
    BY <1>1, <2>1
<1> QED
  BY <1>2, <1>3, <1>5, <1>6, <1>7, <1>8, <1>12, <1>13

\* The items delivered with a batch are those of the history.
LEMMA DeliveredStep ==
  ASSUME IInv, DeliveredInv, TakeBatch
  PROVE  DeliveredInv'
<1>1. PICK b : b = Head(scnQ)
  OBVIOUS
<1>2. /\ b \in Scn /\ Len(b.components) \in Nat /\ NextStart \in Nat
      /\ delivered' = delivered \o Relays(b) /\ received' = received
      /\ NextStart' = NextStart + Len(b.components)
      /\ Covers(received, b, NextStart)
  BY <1>1, TakeFacts
<1>3. /\ delivered \in Seq(Relayed) /\ Relays(b) \in Seq(Relayed)
      /\ Len(Relays(b)) = Len(b.components)
      /\ \A i \in 1..Len(b.components) :
            Relays(b)[i] = [comp |-> b.components[i], attr |-> b.attr]
  BY <1>2, RelayFacts, RelaysType
<1> DEFINE d == Len(delivered)
           l == Len(b.components)
<1>4. d = NextStart
  BY DEF DeliveredInv
<1>5. /\ Len(delivered') = d + l
      /\ \A i \in 1..d : delivered'[i] = delivered[i]
      /\ \A i \in 1..l : delivered'[d + i] = Relays(b)[i]
  <2> DEFINE r == Relays(b)
  <2>1. delivered \in Seq(Relayed) /\ r \in Seq(Relayed) /\ Len(r) = l
    BY <1>3
  <2> HIDE DEF r, l
  <2>2. /\ Len(delivered \o r) = Len(delivered) + Len(r)
        /\ \A i \in 1..Len(delivered) : (delivered \o r)[i] = delivered[i]
        /\ \A i \in 1..Len(r) : (delivered \o r)[Len(delivered) + i] = r[i]
    BY <2>1
  <2> QED
    BY <1>2, <2>1, <2>2, Zenon DEF r
<1>6. \A i \in 1..l : Relays(b)[i] = Keep(received[d + i])
  BY <1>2, <1>3, <1>4 DEF Covers, Keep
<1> HIDE DEF d, l
<1>7. ASSUME NEW i \in 1..Len(delivered')
      PROVE  delivered'[i] = Keep(received'[i])
  <2>0. d \in Nat /\ l \in Nat
    BY <1>2, <1>4 DEF l
  <2>1. CASE i \in 1..d
    <3>1. delivered[i] = Keep(received[i])
      BY <2>1 DEF DeliveredInv, d
    <3> QED
      BY <1>2, <1>5, <2>1, <3>1
  <2>2. CASE i \notin 1..d
    <3>1. i - d \in 1..l /\ d + (i - d) = i
      BY <1>5, <2>0, <2>2
    <3>2. delivered'[i] = Relays(b)[i - d] /\ Relays(b)[i - d] = Keep(received[i])
      BY <1>5, <1>6, <3>1
    <3> QED
      BY <1>2, <3>2
  <2> QED
    BY <2>1, <2>2
<1>8. Len(delivered') = NextStart'
  BY <1>2, <1>4, <1>5 DEF l
<1>9. \A i \in 1..Len(delivered') : delivered'[i] = Keep(received'[i])
  BY <1>7
<1> QED
  BY <1>8, <1>9 DEF DeliveredInv, Keep

\* No batch that was taken reaches beyond the history.
LEMMA DeliveredFits ==
  ASSUME IInv, DeliveredInv
  PROVE  Len(delivered) \in Nat /\ Len(delivered) <= Len(received)
<1>1. /\ Len(starts) = Len(handed) + Len(scnQ) /\ Len(Sent) = Len(starts)
      /\ Len(handed) \in Nat /\ Len(scnQ) \in Nat
      /\ (scnQ = <<>> <=> Len(scnQ) = 0)
      /\ CacheStart \in Nat /\ CacheStart <= Len(received) /\ Len(received) \in Nat
      /\ starts \in Seq(Nat)
  BY RelayFacts
<1>2. CASE scnQ = <<>>
  BY <1>1, <1>2 DEF DeliveredInv, NextStart
<1>3. CASE scnQ # <<>>
  <2> DEFINE k == Len(handed) + 1
  <2>1. k \in 1..Len(Sent) /\ k \in 1..Len(starts)
    BY <1>1, <1>3
  <2>2. starts[k] + Len(Sent[k].components) <= CacheStart
    BY <2>1 DEF IInv, Valid, CacheStart
  <2>3. Sent[k].components \in Seq(Component)
    <3>1. Sent \in Seq(Scn)
      BY IInvFacts
    <3>2. Sent[k] \in Scn
      BY <2>1, <3>1, ElementOfSeq
    <3> QED
      BY <3>2, ItemsType
  <2>4. Len(Sent[k].components) \in Nat /\ starts[k] \in Nat
    BY <1>1, <2>1, <2>3, LenProperties, ElementOfSeq
  <2>5. Len(delivered) = starts[k]
    BY <1>3 DEF DeliveredInv, NextStart
  <2> HIDE DEF k
  <2> QED
    BY <1>1, <2>2, <2>4, <2>5
<1> QED
  BY <1>2, <1>3

LEMMA PrefixIs ==
  ASSUME NEW T, NEW s \in Seq(T), NEW t \in Seq(T), Len(s) <= Len(t),
         \A n \in 1..Len(s) : s[n] = t[n]
  PROVE  Relay!IsPrefix(s, t)
<1>1. Len(s) \in Nat /\ Len(t) \in Nat
  BY LenProperties
<1>2. SubSeq(s, 1, Len(s)) = SubSeq(t, 1, Len(s))
  BY <1>1
<1> QED
  BY <1>2 DEF Relay!IsPrefix

\* What the relay has accepted when the history is rec.
Accepted(rec) == [i \in 1..Len(rec) |-> Keep(rec[i])]

LEMMA AcceptedIs ==
  ASSUME NEW rec \in Seq(ItemType)
  PROVE  /\ Accepted(rec) \in Seq(Relayed) /\ Len(Accepted(rec)) = Len(rec)
         /\ Len(rec) \in Nat
         /\ \A i \in 1..Len(rec) : Accepted(rec)[i] = Keep(rec[i])
         /\ Relay!Range(Accepted(rec)) \subseteq Relayed
<1>1. Len(rec) \in Nat /\ \A i \in 1..Len(rec) : rec[i] \in ItemType
  BY LenProperties, ElementOfSeq
<1>2. \A i \in 1..Len(rec) : Keep(rec[i]) \in Relayed
  BY <1>1 DEF Keep, Relayed, ItemType
<1>3. Accepted(rec) \in [1..Len(rec) -> Relayed]
  BY <1>2 DEF Accepted
<1>4. Accepted(rec) \in Seq(Relayed)
  BY <1>1, <1>3, SeqDef
<1>5. Len(Accepted(rec)) = Len(rec)
  BY <1>1, <1>3, <1>4, LenProperties
<1>6. Relay!Range(Accepted(rec)) \subseteq Relayed
  BY <1>3 DEF Relay!Range
<1> QED
  BY <1>1, <1>4, <1>5, <1>6 DEF Accepted

\* scnHandler() takes in the components of an SCN: Accept, if it has any.
LEMMA AcceptStep ==
  ASSUME IInv, delivered' = delivered,
         NEW new \in Seq(ItemType), received' = received \o new
  PROVE  Relay!Accept \/ UNCHANGED Relay!relayVars
<1>1. received \in Seq(ItemType) /\ received \o new \in Seq(ItemType)
  BY IInvFacts, ConcatProperties
<1>2. /\ Len(received \o new) = Len(received) + Len(new)
      /\ \A i \in 1..Len(received) : (received \o new)[i] = received[i]
      /\ Len(received) \in Nat /\ Len(new) \in Nat
  BY <1>1, ConcatParts, LenProperties
<1> DEFINE a == Accepted(received)
           b == Accepted(received')
<1>3. /\ a \in Seq(Relayed) /\ Len(a) = Len(received)
      /\ \A i \in 1..Len(received) : a[i] = Keep(received[i])
      /\ b \in Seq(Relayed) /\ Len(b) = Len(received')
      /\ \A i \in 1..Len(received') : b[i] = Keep(received'[i])
      /\ Relay!Range(b) \subseteq Relayed
  BY <1>1, AcceptedIs
<1>4. a' = b
  BY DEF Accepted, Keep
<1> HIDE DEF a, b
<1>5. CASE Len(new) = 0
  <2>1. new = <<>>
    BY <1>5, EmptySeq
  <2>2. received' = received
    BY <1>1, <2>1, ConcatEmptySeq
  <2> QED
    BY <2>2 DEF Relay!relayVars, Keep
<1>6. CASE Len(new) # 0
  <2>1. Len(a) <= Len(b) /\ Len(a) # Len(b)
    BY <1>2, <1>3, <1>6
  <2>2. \A i \in 1..Len(a) : a[i] = b[i]
    <3>1. \A i \in 1..Len(received) : i \in 1..Len(received')
      BY <1>2
    <3> QED
      BY <1>2, <1>3, <3>1
  <2>3. Relay!IsPrefix(a, b) /\ a # b
    BY <1>3, <2>1, <2>2, PrefixIs
  <2> QED
    BY <1>3, <1>4, <2>3
    DEF Relay!Accept, Relay!IsStrictPrefix, a, b, Accepted
<1> QED
  BY <1>5, <1>6

\* handleSCNs() takes a batch: Deliver, if it has components.
LEMMA DeliverStep ==
  ASSUME IInv, IInv', DeliveredInv, DeliveredInv', TakeBatch
  PROVE  Relay!Deliver \/ UNCHANGED Relay!relayVars
<1>1. PICK b : b = Head(scnQ)
  OBVIOUS
<1>2. b \in Scn /\ delivered' = delivered \o Relays(b) /\ received' = received
  BY <1>1, TakeFacts
<1>3. delivered \in Seq(Relayed) /\ Relays(b) \in Seq(Relayed)
  BY <1>2, RelayFacts, RelaysType
<1> DEFINE r == Relays(b)
           a == Accepted(received)
<1> HIDE DEF r
<1>4. /\ delivered' \in Seq(Relayed) /\ Len(delivered') = Len(delivered) + Len(r)
      /\ \A i \in 1..Len(delivered) : delivered'[i] = delivered[i]
      /\ Len(delivered) \in Nat /\ Len(r) \in Nat
  <2>1. delivered \in Seq(Relayed) /\ r \in Seq(Relayed) /\ delivered' = delivered \o r
    BY <1>2, <1>3 DEF r
  <2> QED
    BY <2>1, ConcatProperties, ConcatParts, LenProperties
<1>5. /\ a \in Seq(Relayed) /\ Len(a) = Len(received) /\ Len(received) \in Nat
      /\ \A i \in 1..Len(received) : a[i] = Keep(received[i])
  BY RelayFacts, AcceptedIs
<1>6. a' = a
  BY <1>2
<1> HIDE DEF a
<1>7. Len(delivered') <= Len(received)
  <2>1. NextStart' <= Len(received)
    BY <1>1, TakeFacts
  <2>2. Len(delivered') = NextStart'
    BY DEF DeliveredInv
  <2> QED
    BY <2>1, <2>2
<1>8. \A i \in 1..Len(delivered') : delivered'[i] = a[i]
  <2>1. \A i \in 1..Len(delivered') : i \in 1..Len(received)
    BY <1>4, <1>5, <1>7
  <2>2. \A i \in 1..Len(delivered') : delivered'[i] = Keep(received'[i])
    BY DEF DeliveredInv, Keep
  <2> QED
    BY <1>2, <1>5, <2>1, <2>2
<1>9. Relay!IsPrefix(delivered', a)
  BY <1>4, <1>5, <1>7, <1>8, PrefixIs
<1>10. CASE Len(r) = 0
  <2>1. r = <<>>
    BY <1>3, <1>10, EmptySeq DEF r
  <2>2. delivered' = delivered
    BY <1>2, <1>3, <2>1, ConcatEmptySeq DEF r
  <2> QED
    BY <1>2, <2>2 DEF Relay!relayVars, Keep
<1>11. CASE Len(r) # 0
  <2>1. Len(delivered) <= Len(delivered') /\ delivered # delivered'
    BY <1>4, <1>11
  <2>2. Relay!IsPrefix(delivered, delivered')
    BY <1>3, <1>4, <2>1, PrefixIs
  <2> QED
    BY <1>6, <1>9, <2>1, <2>2 DEF Relay!Deliver, Relay!IsStrictPrefix, a, Accepted
<1> QED
  BY <1>10, <1>11

LEMMA DeliveredInvStep ==
  ASSUME IInv, DeliveredInv, [Next]_vars
  PROVE  DeliveredInv'
<1>1. CASE TakeBatch
  BY <1>1, DeliveredStep
<1>2. ASSUME delivered' = delivered, NextStart' = NextStart,
             NEW new \in Seq(ItemType), received' = received \o new
      PROVE  DeliveredInv'
  <2>1. /\ received \in Seq(ItemType) /\ Len(received) \in Nat
        /\ Len(delivered) \in Nat /\ Len(delivered) <= Len(received)
    BY RelayFacts, DeliveredFits
  <2>2. \A i \in 1..Len(received) : received'[i] = received[i]
    BY <1>2, <2>1, ConcatParts
  <2>3. \A i \in 1..Len(delivered) : i \in 1..Len(received)
    BY <2>1
  <2>4. \A i \in 1..Len(delivered') : delivered'[i] = Keep(received'[i])
    BY <1>2, <2>2, <2>3 DEF DeliveredInv
  <2> QED
    BY <1>2, <2>4 DEF DeliveredInv, Keep
<1> QED
  BY <1>1, <1>2, HistoryStep

\* scnHandler(), checkSCNCache(), scnQ and handleSCNs() together are an
\* ordered relay of components: what comes out is at any time a beginning of
\* what went in, for any number of handlers and any limits.
THEOREM BatchingImplementsRelay == SafetySpec => ImplementsRelay
<1>1. Init => DeliveredInv
  <2> SUFFICES ASSUME Init PROVE DeliveredInv
    OBVIOUS
  <2>1. scnQ = <<>> /\ Len(delivered) = 0 /\ Len(received) = 0
          /\ Len(jdCache.components) = 0
    BY EmptyType DEF Init
  <2> QED
    BY <2>1 DEF DeliveredInv, NextStart, CacheStart
<1>2. IInv /\ DeliveredInv /\ [Next]_vars => DeliveredInv'
  BY DeliveredInvStep
<1>3. Init => Relay!RelayInit
  <2> SUFFICES ASSUME Init PROVE Relay!RelayInit
    OBVIOUS
  <2>1. received = <<>> /\ delivered = <<>> /\ received \in Seq(ItemType)
    BY DEF Init
  <2>2. Accepted(received) \in Seq(Relayed) /\ Len(Accepted(received)) = 0
    BY <2>1, AcceptedIs
  <2>3. Accepted(received) = <<>>
    BY <2>2, EmptySeq
  <2> QED
    BY <2>1, <2>3 DEF Relay!RelayInit, Accepted
<1>4. /\ IInv /\ IInv' /\ DeliveredInv /\ DeliveredInv' /\ [Next]_vars
      => [Relay!RelayNext]_(Relay!relayVars)
  <2> SUFFICES ASSUME IInv, IInv', DeliveredInv, DeliveredInv', [Next]_vars
               PROVE  [Relay!RelayNext]_(Relay!relayVars)
    OBVIOUS
  <2> QED
    BY HistoryStep, AcceptStep, DeliverStep DEF Relay!RelayNext
<1> QED
  BY <1>1, <1>2, <1>3, <1>4, InductiveInvariant, PTL
  DEF SafetySpec, ImplementsRelay, Relay!RelaySafety
=============================================================================
