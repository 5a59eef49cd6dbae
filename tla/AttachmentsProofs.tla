--------------------------- MODULE AttachmentsProofs ---------------------------
(***************************************************************************)
(* Theorems about Attachments.  Whatever is stale, and whatever names are  *)
(* taken over, a controller that is granted no attachments of others       *)
(* writes and deletes its own only, or the very ones its hook was shown;   *)
(* no PUT of the watched object takes an edit or another's finalizer back; *)
(* and the finalizer goes only when nothing of its controller is left.     *)
(***************************************************************************)
EXTENDS Attachments, TLAPS

(* A copy of the watched object that claims to be current is.               *)
CacheCurrent == cWatch.lag = "same" => cWatch.obj = watch

PutCurrent(s, w) ==
  s.put # None => /\ s.put.obj.uid = s.uid
                  /\ s.put.lag = "same" => s.put.obj = w

(* The incarnation of an attachment that was listed, and is still there,    *)
(* has the owner it had.                                                    *)
CacheOwner ==
  \A n \in Name : cAtt[n] # None /\ cAtt[n].lag # "gone"
                  => att[n] # None /\ att[n].by = cAtt[n].obj.by

SawStored(s, a) ==
  \A n \in Name : s.saw[n] # None /\ s.saw[n].lag # "gone" => a[n] # None

(* Every call but a create is about an attachment that was listed.          *)
CallsListed(s) ==
  \A c \in s.todo : /\ c[3] # None <=> c[1] \in {2, 3}
                    /\ c[1] # 2 => s.saw[c[2]] # None

(* Without options, what is deleted or updated as desired is one's own.     *)
CallsOwn(j, s, a) ==
  Options[j] = {} =>
    \A c \in s.todo :
      c[1] \in {1, 2} /\ s.saw[c[2]] # None /\ s.saw[c[2]].lag # "gone"
      => Mine(j, s, a[c[2]])

(* Between the list that found nothing left and the PUT, nothing is made.   *)
NothingLeft(j, s, a) ==
  s.current => /\ s.put # None
               /\ \A n \in Name : a[n] # None => ~MadeBy(j, s, a[n])

Good(j, s, w, a) ==
  s # None => /\ PutCurrent(s, w) /\ SawStored(s, a) /\ CallsListed(s)
              /\ CallsOwn(j, s, a) /\ NothingLeft(j, s, a)

AttInv ==
  /\ TypeOK /\ CacheCurrent /\ CacheOwner
  /\ \A j \in Job : Good(j, sync[j], watch, att)

-----------------------------------------------------------------------------
(* What the lemmas need of the constants, and of records with None.         *)
LEMMA NoneIsNothing ==
  /\ \A o \in WatchCopies : o # None
  /\ \A o \in Watches : o # None
  /\ \A o \in Objects : o # None
  /\ \A o \in Copies : o # None
  /\ \A o \in Syncs : o # None
  /\ \A o \in [lag : {"same", "changed", "gone"}] : o # None
  /\ \A o \in [obj : Maybe(Watches), lag : {"same", "changed"}] : o # None
<1>1. WatchCopies \subseteq [obj : Maybe(Watches), lag : {"same", "changed"}]
  BY DEF WatchCopies, Maybe
<1> QED
  BY <1>1, AttachmentsAssumption

SyncsGood(syncs, w, a) ==
  /\ syncs \in [Job -> Maybe(Syncs)]
  /\ \A j \in Job : Good(j, syncs[j], w, a)

LEMMA SyncsAreGood ==
  ASSUME AttInv
  PROVE  SyncsGood(sync, watch, att)
BY DEF AttInv, TypeOK, SyncsGood

(* A copy ages, but is of what it was.                                      *)
LEMMA AgePut ==
  ASSUME NEW put \in Maybe(WatchCopies)
  PROVE  LET aged == Age(put, "changed")
         IN /\ aged \in Maybe(WatchCopies)
            /\ aged # None <=> put # None
            /\ put # None => aged.obj = put.obj /\ aged.lag = "changed"
<1>1. CASE put = None
  BY <1>1 DEF Age, Maybe
<1>2. CASE put # None
  <2>1. put \in WatchCopies
    BY <1>2 DEF Maybe
  <2>2. put.lag \in {"same", "changed"} /\ put.lag # "gone" /\ put.obj \in Watches
    BY <2>1 DEF WatchCopies
  <2>3. Age(put, "changed") = [put EXCEPT !.lag = "changed"]
    BY <1>2, <2>2 DEF Age
  <2>4. [put EXCEPT !.lag = "changed"] \in WatchCopies
    BY <2>1 DEF WatchCopies
  <2>5. [put EXCEPT !.lag = "changed"].obj = put.obj /\ [put EXCEPT !.lag = "changed"].lag = "changed"
    BY <2>1 DEF WatchCopies
  <2> QED
    BY <1>2, <2>3, <2>4, <2>5, NoneIsNothing DEF Maybe
<1> QED BY <1>1, <1>2

LEMMA AgesByWatch ==
  ASSUME NEW object, AttInv
  PROVE  SyncsGood(AgedByWatch(object), object, att)
<1>0. SyncsGood(sync, watch, att)
  BY SyncsAreGood
<1>1. CASE object = watch
  BY <1>0, <1>1 DEF AgedByWatch
<1>2. CASE object # watch
  <2>1. AgedByWatch(object) = [k \in Job |-> IF sync[k] = None THEN None
                               ELSE [sync[k] EXCEPT !.put = Age(@, "changed")]]
    BY <1>2 DEF AgedByWatch
  <2> SUFFICES ASSUME NEW k \in Job
               PROVE  /\ AgedByWatch(object)[k] \in Maybe(Syncs)
                      /\ Good(k, AgedByWatch(object)[k], object, att)
    BY <2>1 DEF SyncsGood
  <2>2. CASE sync[k] = None
    <3>1. AgedByWatch(object)[k] = None
      BY <2>1, <2>2
    <3> QED
      BY <3>1 DEF Good, Maybe
  <2>3. CASE sync[k] # None
    <3> DEFINE s == sync[k]
               t == [s EXCEPT !.put = Age(@, "changed")]
    <3>1. AgedByWatch(object)[k] = t
      BY <2>1, <2>3
    <3>2. s \in Syncs /\ Good(k, s, watch, att)
      BY <1>0, <2>3 DEF SyncsGood, Maybe
    <3>3. s.put \in Maybe(WatchCopies)
      BY <3>2 DEF Syncs
    <3>4. /\ t.put = Age(s.put, "changed")
          /\ t.uid = s.uid /\ t.todo = s.todo /\ t.saw = s.saw /\ t.current = s.current
      BY <3>2 DEF Syncs
    <3>5. t \in Syncs
      BY <3>2, <3>3, AgePut DEF Syncs
    <3> HIDE DEF s, t
    <3>6. PutCurrent(t, object)
      BY <2>3, <3>2, <3>3, <3>4, AgePut DEF PutCurrent, Good, s
    <3>7. SawStored(t, att) /\ CallsListed(t)
      BY <2>3, <3>2, <3>4 DEF SawStored, CallsListed, Good, s
    <3>8. CallsOwn(k, t, att)
      BY <2>3, <3>2, <3>4 DEF CallsOwn, Good, Mine, s
    <3>9. NothingLeft(k, t, att)
      BY <2>3, <3>2, <3>3, <3>4, AgePut DEF NothingLeft, Good, MadeBy, s
    <3> QED
      BY <3>1, <3>5, <3>6, <3>7, <3>8, <3>9 DEF Good, Maybe
  <2> QED BY <2>2, <2>3
<1> QED BY <1>1, <1>2

Lags == {"same", "changed", "gone"}
Seen == [lag : Lags]

LEMMA AgeSeen ==
  ASSUME NEW saw \in [Name -> Maybe(Seen)], NEW n \in Name, NEW object
  PROVE  LET aged == Aged(saw, n, object)
         IN /\ aged \in [Name -> Maybe(Seen)]
            /\ \A m \in Name : aged[m] # None <=> saw[m] # None
            /\ \A m \in Name : m # n => aged[m] = saw[m]
            /\ \A m \in Name : aged[m] # None /\ aged[m].lag # "gone" => saw[m].lag # "gone"
            /\ object # att[n] /\ object = None /\ saw[n] # None => aged[n].lag = "gone"
<1> DEFINE aged == Aged(saw, n, object)
           lag == IF object = None THEN "gone" ELSE "changed"
<1>1. CASE object = att[n]
  BY <1>1 DEF Aged
<1>2. CASE object # att[n]
  <2>1. aged = [saw EXCEPT ![n] = Age(@, lag)]
    BY <1>2 DEF Aged
  <2>2. aged[n] = Age(saw[n], lag) /\ \A m \in Name : m # n => aged[m] = saw[m]
    BY <2>1
  <2>3. CASE saw[n] = None \/ saw[n].lag = "gone"
    <3>1. aged[n] = saw[n]
      BY <2>2, <2>3 DEF Age
    <3>2. aged = saw
      BY <2>1, <3>1
    <3> QED
      BY <2>3, <3>2
  <2>4. CASE saw[n] # None /\ saw[n].lag # "gone"
    <3>1. aged[n] = [saw[n] EXCEPT !.lag = lag]
      BY <2>2, <2>4 DEF Age
    <3>2. saw[n] \in Seen /\ lag \in Lags
      BY <2>4 DEF Maybe, Lags
    <3>3. aged[n] \in Seen /\ aged[n].lag = lag
      BY <3>1, <3>2 DEF Seen
    <3>4. aged[n] # None
      BY <3>3, NoneIsNothing DEF Seen, Lags
    <3>5. aged \in [Name -> Maybe(Seen)]
      BY <2>1, <3>1, <3>3 DEF Maybe
    <3> QED
      BY <2>2, <2>4, <3>3, <3>4, <3>5
  <2> QED BY <2>3, <2>4
<1> QED BY <1>1, <1>2

LEMMA AgeCached ==
  ASSUME NEW copies \in [Name -> Maybe(Copies)], NEW n \in Name, NEW object
  PROVE  LET aged == Aged(copies, n, object)
         IN /\ aged \in [Name -> Maybe(Copies)]
            /\ \A m \in Name : aged[m] # None <=> copies[m] # None
            /\ \A m \in Name : m # n => aged[m] = copies[m]
            /\ copies[n] # None => aged[n].obj = copies[n].obj
            /\ aged[n] # None /\ aged[n].lag # "gone" => copies[n].lag # "gone"
            /\ object # att[n] /\ object = None /\ copies[n] # None => aged[n].lag = "gone"
<1> DEFINE aged == Aged(copies, n, object)
           lag == IF object = None THEN "gone" ELSE "changed"
<1>1. CASE object = att[n]
  BY <1>1 DEF Aged
<1>2. CASE object # att[n]
  <2>1. aged = [copies EXCEPT ![n] = Age(@, lag)]
    BY <1>2 DEF Aged
  <2>2. aged[n] = Age(copies[n], lag) /\ \A m \in Name : m # n => aged[m] = copies[m]
    BY <2>1
  <2>3. CASE copies[n] = None \/ copies[n].lag = "gone"
    <3>1. aged[n] = copies[n]
      BY <2>2, <2>3 DEF Age
    <3>2. aged = copies
      BY <2>1, <3>1
    <3> QED
      BY <2>3, <3>2
  <2>4. CASE copies[n] # None /\ copies[n].lag # "gone"
    <3>1. aged[n] = [copies[n] EXCEPT !.lag = lag]
      BY <2>2, <2>4 DEF Age
    <3>2. copies[n] \in Copies /\ lag \in Lags
      BY <2>4 DEF Maybe, Lags
    <3>3. aged[n] \in Copies /\ aged[n].lag = lag /\ aged[n].obj = copies[n].obj
      BY <3>1, <3>2 DEF Copies, Lags
    <3>4. aged[n] # None
      BY <3>3, NoneIsNothing
    <3>5. aged \in [Name -> Maybe(Copies)]
      BY <2>1, <3>1, <3>3 DEF Maybe
    <3> QED
      BY <2>2, <2>4, <3>3, <3>4, <3>5
  <2> QED BY <2>3, <2>4
<1> QED BY <1>1, <1>2

(* What may be written: the incarnation that is there, under its owner, or  *)
(* one that is none of those that a controller has seen to be gone.         *)
MayWrite(n, object) ==
  /\ object \in Maybe(Objects)
  /\ object # None /\ att[n] # None => object.by = att[n].by
  /\ object # None /\ att[n] = None =>
       \A j \in Job : sync[j] # None /\ sync[j].current => ~MadeBy(j, sync[j], object)

LEMMA AgesByAtt ==
  ASSUME NEW n \in Name, NEW object, MayWrite(n, object), AttInv
  PROVE  SyncsGood(AgedByAtt(n, object), watch, [att EXCEPT ![n] = object])
<1> DEFINE stored == [att EXCEPT ![n] = object]
<1>0. SyncsGood(sync, watch, att)
  BY SyncsAreGood
<1>1. stored[n] = object /\ \A m \in Name : m # n => stored[m] = att[m]
  BY DEF AttInv, TypeOK
<1> HIDE DEF stored
<1> SUFFICES ASSUME NEW k \in Job
             PROVE  /\ AgedByAtt(n, object)[k] \in Maybe(Syncs)
                    /\ Good(k, AgedByAtt(n, object)[k], watch, stored)
  BY DEF SyncsGood, AgedByAtt, stored
<1>2. CASE sync[k] = None
  <2>1. AgedByAtt(n, object)[k] = None
    BY <1>2 DEF AgedByAtt
  <2> QED
    BY <2>1 DEF Good, Maybe
<1>3. CASE sync[k] # None
  <2> DEFINE s == sync[k]
             t == [s EXCEPT !.saw = Aged(@, n, object)]
  <2>1. AgedByAtt(n, object)[k] = t
    BY <1>3 DEF AgedByAtt
  <2>2. s \in Syncs /\ Good(k, s, watch, att)
    BY <1>0, <1>3 DEF SyncsGood, Maybe
  <2>3. s.saw \in [Name -> Maybe(Seen)]
    BY <2>2 DEF Syncs, Seen, Lags
  <2>4. /\ t.saw = Aged(s.saw, n, object)
        /\ t.uid = s.uid /\ t.todo = s.todo /\ t.put = s.put /\ t.current = s.current
    BY <2>2 DEF Syncs
  <2>5. t \in Syncs
    <3>1. Aged(s.saw, n, object) \in [Name -> Maybe([lag : {"same", "changed", "gone"}])]
      BY <2>3, AgeSeen DEF Seen, Lags
    <3> QED
      BY <2>2, <3>1 DEF Syncs
  <2> DEFINE saw == s.saw
             aged == Aged(saw, n, object)
  <2>6. /\ \A m \in Name : aged[m] # None <=> saw[m] # None
        /\ \A m \in Name : m # n => aged[m] = saw[m]
        /\ \A m \in Name : aged[m] # None /\ aged[m].lag # "gone" => saw[m].lag # "gone"
        /\ object # att[n] /\ object = None /\ saw[n] # None => aged[n].lag = "gone"
    BY <2>3, AgeSeen
  <2>7. t.saw = aged /\ s.saw = saw
    BY <2>4
  <2> HIDE DEF s, t, aged, saw
  <2>8. SawStored(t, stored)
    BY <1>1, <1>3, <2>2, <2>6, <2>7 DEF SawStored, Good, s
  <2>9. \A m \in Name : aged[m] # None /\ aged[m].lag # "gone"
                        => att[m] # None /\ stored[m] # None /\ stored[m].by = att[m].by
    BY <1>1, <1>3, <2>2, <2>6, <2>7 DEF SawStored, Good, s, MayWrite
  <2>10. PutCurrent(t, watch)
    BY <1>3, <2>2, <2>4 DEF PutCurrent, Good, s
  <2>11. CallsListed(t)
    <3>1. \A c \in s.todo : c[2] \in Name
      BY <2>2 DEF Syncs, Calls
    <3> QED
      BY <1>3, <2>2, <2>4, <2>6, <2>7, <3>1 DEF CallsListed, Good, s
  <2>12. CallsOwn(k, t, stored)
    <3> SUFFICES ASSUME Options[k] = {}, NEW c \in t.todo, c[1] \in {1, 2},
                        t.saw[c[2]] # None, t.saw[c[2]].lag # "gone"
                 PROVE  Mine(k, t, stored[c[2]])
      BY DEF CallsOwn
    <3>1. c \in s.todo /\ c[2] \in Name
      BY <2>2, <2>4 DEF Syncs, Calls
    <3>2. s.saw[c[2]] # None /\ s.saw[c[2]].lag # "gone"
      BY <2>6, <2>7, <3>1
    <3>3. Mine(k, s, att[c[2]])
      BY <1>3, <2>2, <3>1, <3>2 DEF CallsOwn, Good, s
    <3>4. stored[c[2]].by = att[c[2]].by
      BY <2>7, <2>9, <3>1
    <3> QED
      BY <2>4, <3>3, <3>4 DEF Mine
  <2>13. NothingLeft(k, t, stored)
    <3>1. ASSUME s.current, NEW m \in Name, stored[m] # None
          PROVE  ~MadeBy(k, t, stored[m])
      <4>1. CASE att[m] # None
        <5>1. ~MadeBy(k, s, att[m])
          BY <1>3, <2>2, <3>1, <4>1 DEF NothingLeft, Good, s
        <5>2. stored[m].by = att[m].by
          BY <1>1, <3>1, <4>1 DEF MayWrite
        <5> QED
          BY <2>4, <5>1, <5>2 DEF MadeBy
      <4>2. CASE att[m] = None
        <5>1. m = n /\ stored[m] = object
          BY <1>1, <3>1, <4>2
        <5>2. ~MadeBy(k, s, object)
          BY <1>3, <3>1, <4>2, <5>1 DEF MayWrite, s
        <5> QED
          BY <2>4, <5>1, <5>2 DEF MadeBy
      <4> QED BY <4>1, <4>2
    <3> QED
      BY <1>3, <2>2, <2>4, <3>1 DEF NothingLeft, Good, s
  <2> QED
    BY <2>1, <2>5, <2>8, <2>10, <2>11, <2>12, <2>13 DEF Good, Maybe, t
<1> QED BY <1>2, <1>3

-----------------------------------------------------------------------------
(* A sync goes on, or ends.                                                 *)
LEMMA Proceeds ==
  ASSUME NEW j \in Job, NEW syncs, NEW w, NEW a, NEW next \in Syncs, NEW keys,
         SyncsGood(syncs, w, a), Good(j, next, w, a), keys \in [Job -> BOOLEAN],
         Proceed(j, syncs, next, keys)
  PROVE  SyncsGood(sync', w, a) /\ queued' \in [Job -> BOOLEAN]
<1> DEFINE ends == next.put = None /\ next.todo = {}
           new == IF ends THEN None ELSE next
<1>1. /\ sync' = [syncs EXCEPT ![j] = new]
      /\ queued' = [keys EXCEPT ![j] = @ \/ (ends /\ next.failed)]
  BY DEF Proceed
<1>2. new \in Maybe(Syncs) /\ Good(j, new, w, a)
  BY DEF Maybe, Good
<1>3. (keys[j] \/ (ends /\ next.failed)) \in BOOLEAN
  OBVIOUS
<1> HIDE DEF ends, new
<1>4. SyncsGood(sync', w, a)
  BY <1>1, <1>2 DEF SyncsGood
<1> QED
  BY <1>1, <1>3, <1>4

(* A plan is made of what is cached, and with it what is seen.              *)
LEMMA PlansFromCache ==
  ASSUME NEW j \in Job, NEW me \in Watches, AttInv
  PROVE  /\ Plan(j, me) \in SUBSET Calls
         /\ \A c \in Plan(j, me) :
              /\ c[3] # None <=> c[1] \in {2, 3}
              /\ c[1] # 2 => c[2] \in Observed(j, me)
              /\ Options[j] = {} /\ c[1] \in {1, 2} /\ c[2] \in Observed(j, me)
                 => Mine(j, me, cAtt[c[2]].obj)
<1>1. \A n \in Name : Desired(j, me)[n] \in Maybe(SUBSET Field)
  BY AttachmentsAssumption DEF Desired, Nothing, Maybe, Watches
<1>2. \A n \in Name : ExplicitUpdates(j, me)[n] \in Maybe(SUBSET Field)
  BY AttachmentsAssumption DEF ExplicitUpdates, Nothing, Maybe
<1>3. Observed(j, me) \subseteq Name
  BY DEF Observed
<1> DEFINE P(c) == /\ c[3] # None <=> c[1] \in {2, 3}
                   /\ c[1] # 2 => c[2] \in Observed(j, me)
                   /\ Options[j] = {} /\ c[1] \in {1, 2} /\ c[2] \in Observed(j, me)
                      => Mine(j, me, cAtt[c[2]].obj)
<1> SUFFICES ASSUME NEW c \in Plan(j, me)
             PROVE  c \in Calls /\ P(c)
  OBVIOUS
<1>4. CASE \E n \in Observed(j, me) : Deletes(j, me, n) /\ c = <<1, n, None>>
  <2>1. PICK n \in Observed(j, me) : Deletes(j, me, n) /\ c = <<1, n, None>>
    BY <1>4
  <2>2. Options[j] = {} => Mine(j, me, cAtt[n].obj)
    BY <2>1 DEF Deletes
  <2>3. c[1] = 1 /\ c[2] = n /\ c[3] = None
    BY <2>1
  <2>4. P(c)
    BY <2>2, <2>3
  <2> QED
    BY <1>3, <2>1, <2>4 DEF Calls, Phase, Maybe
<1>5. CASE \E n \in Name : Puts(j, me, n) /\ c = <<2, n, Desired(j, me)[n]>>
  <2>1. PICK n \in Name : Puts(j, me, n) /\ c = <<2, n, Desired(j, me)[n]>>
    BY <1>5
  <2>2. Desired(j, me)[n] # None
    BY <2>1 DEF Puts
  <2>3. Options[j] = {} /\ n \in Observed(j, me) => Mine(j, me, cAtt[n].obj)
    BY <2>1 DEF Puts, Updates
  <2>4. c[1] = 2 /\ c[2] = n /\ c[3] # None
    BY <2>1, <2>2
  <2>5. P(c)
    BY <2>3, <2>4
  <2>6. \A v \in Maybe(SUBSET Field) : <<2, n, v>> \in Calls
    BY DEF Calls, Phase
  <2> QED
    BY <1>1, <2>1, <2>5, <2>6
<1>6. CASE \E n \in Observed(j, me) : /\ PutsExplicitly(j, me, n)
                                      /\ c = <<3, n, ExplicitUpdates(j, me)[n]>>
  <2>1. PICK n \in Observed(j, me) : /\ PutsExplicitly(j, me, n)
                                     /\ c = <<3, n, ExplicitUpdates(j, me)[n]>>
    BY <1>6
  <2>2. ExplicitUpdates(j, me)[n] # None
    BY <2>1 DEF PutsExplicitly
  <2>3. c[1] = 3 /\ c[2] = n /\ c[3] # None
    BY <2>1, <2>2
  <2>4. P(c)
    BY <2>3
  <2>5. \A v \in Maybe(SUBSET Field) : <<3, n, v>> \in Calls
    BY <1>3 DEF Calls, Phase
  <2> QED
    BY <1>2, <1>3, <2>1, <2>4, <2>5
<1>7. CASE \E n \in ExplicitDeletes(j, me) : c = <<4, n, None>>
  <2>1. PICK n \in ExplicitDeletes(j, me) : c = <<4, n, None>>
    BY <1>7
  <2>2. n \in Observed(j, me)
    BY <2>1 DEF ExplicitDeletes
  <2>3. c[1] = 4 /\ c[2] = n /\ c[3] = None
    BY <2>1
  <2>4. P(c)
    BY <2>2, <2>3
  <2> QED
    BY <1>3, <2>1, <2>2, <2>4 DEF Calls, Phase, Maybe
<1> HIDE DEF P
<1> QED
  BY <1>4, <1>5, <1>6, <1>7 DEF Plan

(* What a hook calls finalized has nothing of the controller's in it.       *)
LEMMA FinalizedHasNone ==
  ASSUME NEW j \in Job, NEW me \in Watches, SaysFinalized(j, me), AttInv,
         cAtt = [n \in Name |-> Copy(att[n])], NEW n \in Name, att[n] # None
  PROVE  ~MadeBy(j, me, att[n])
<1>1. cAtt[n] = [obj |-> att[n], lag |-> "same"]
  BY DEF Copy
<1>2. cAtt[n] # None
  <2>1. att[n] \in Objects
    BY DEF AttInv, TypeOK, Maybe
  <2>2. cAtt[n] \in Copies
    BY <1>1, <2>1 DEF Copies
  <2> QED
    BY <2>2, NoneIsNothing
<1>3. ~Mine(j, me, att[n])
  BY <1>1, <1>2 DEF SaysFinalized, Observed
<1>4. me.uid \in Uid
  BY DEF Watches
<1>5. [job |-> j, uid |-> me.uid] # None
  BY <1>4, AttachmentsAssumption
<1> QED
  BY <1>3, <1>5 DEF Mine, MadeBy

LEMMA PlansAreGood ==
  ASSUME NEW j \in Job, NEW copy \in WatchCopies, NEW w, copy.lag = "same" => copy.obj = w,
         AttInv
  PROVE  LET s == Planned(j, copy, Plan(j, copy.obj))
         IN s \in Syncs /\ Good(j, s, w, att)
<1> DEFINE me == copy.obj
           todo == Plan(j, me)
           done == SaysFinalized(j, me) /\ j \in me.fins
           s == Planned(j, copy, todo)
           saw == [n \in Name |-> IF n \in Observed(j, me) /\ Needs(todo, n)
                                  THEN [lag |-> cAtt[n].lag] ELSE None]
           current == done /\ cAtt = [n \in Name |-> Copy(att[n])]
<1>0. me \in Watches
  BY DEF WatchCopies
<1>1. s = [uid |-> me.uid, put |-> IF done THEN copy ELSE None, todo |-> todo,
           saw |-> saw, current |-> current, failed |-> FALSE]
  BY DEF Planned
<1>2. todo \in SUBSET Calls
  BY <1>0, PlansFromCache
<1>3. \A n \in Observed(j, me) : cAtt[n] \in Copies
  BY DEF Observed, AttInv, TypeOK, Maybe
<1>4. \A n \in Observed(j, me) : cAtt[n].lag \in Lags
  BY <1>3 DEF Copies, Lags
<1>5. saw \in [Name -> Maybe(Seen)]
  BY <1>4 DEF Seen, Maybe
<1>6. s \in Syncs
  <2>1. me.uid \in Uid
    BY <1>0 DEF Watches
  <2>2. (IF done THEN copy ELSE None) \in Maybe(WatchCopies)
    BY DEF Maybe
  <2>3. current \in BOOLEAN
    OBVIOUS
  <2> HIDE DEF me, todo, done, s, saw, current
  <2> QED
    BY <1>1, <1>2, <1>5, <2>1, <2>2, <2>3 DEF Syncs, Seen, Lags
<1>7. \A n \in Name : saw[n] # None <=> n \in Observed(j, me) /\ Needs(todo, n)
  <2>1. \A n \in Observed(j, me) : [lag |-> cAtt[n].lag] # None
    BY <1>4, NoneIsNothing DEF Lags
  <2> QED
    BY <2>1
<1>8. \A n \in Name : saw[n] # None /\ saw[n].lag # "gone"
                      => att[n] # None /\ att[n].by = cAtt[n].obj.by
  <2> SUFFICES ASSUME NEW n \in Name, saw[n] # None, saw[n].lag # "gone"
               PROVE  att[n] # None /\ att[n].by = cAtt[n].obj.by
    OBVIOUS
  <2>1. n \in Observed(j, me) /\ saw[n].lag = cAtt[n].lag
    BY <1>7
  <2>2. cAtt[n] # None /\ cAtt[n].lag # "gone"
    BY <2>1 DEF Observed
  <2> QED
    BY <2>2 DEF AttInv, CacheOwner
<1>9. PutCurrent(s, w)
  BY <1>1 DEF PutCurrent
<1>10. s.saw = saw /\ s.todo = todo /\ s.uid = me.uid /\ s.current = current
       /\ (done => s.put = copy)
  BY <1>1
<1> HIDE DEF saw, s, todo
<1>11. SawStored(s, att)
  BY <1>8, <1>10 DEF SawStored
<1>12. \A c \in s.todo : c[2] \in Name /\ Needs(todo, c[2])
  BY <1>2, <1>10 DEF Calls, Needs
<1>13. CallsListed(s)
  BY <1>0, <1>7, <1>10, <1>12, PlansFromCache DEF CallsListed, todo
<1>14. CallsOwn(j, s, att)
  <2> SUFFICES ASSUME Options[j] = {}, NEW c \in s.todo, c[1] \in {1, 2},
                      s.saw[c[2]] # None, s.saw[c[2]].lag # "gone"
               PROVE  Mine(j, s, att[c[2]])
    BY DEF CallsOwn
  <2>1. c[2] \in Observed(j, me) /\ att[c[2]].by = cAtt[c[2]].obj.by
    BY <1>7, <1>8, <1>10, <1>12
  <2>2. Mine(j, me, cAtt[c[2]].obj)
    BY <1>0, <1>10, <2>1, PlansFromCache DEF todo
  <2> QED
    BY <1>10, <2>1, <2>2 DEF Mine
<1>15. NothingLeft(j, s, att)
  <2>1. ASSUME s.current PROVE s.put # None
    BY <1>10, <2>1, NoneIsNothing
  <2>2. ASSUME s.current, NEW n \in Name, att[n] # None PROVE ~MadeBy(j, s, att[n])
    <3>1. ~MadeBy(j, me, att[n])
      BY <1>0, <1>10, <2>2, FinalizedHasNone
    <3> QED
      BY <1>10, <3>1 DEF MadeBy
  <2> QED
    BY <2>1, <2>2 DEF NothingLeft
<1> QED
  BY <1>6, <1>9, <1>11, <1>13, <1>14, <1>15 DEF Good, s, todo

-----------------------------------------------------------------------------
(* The invariant by what a step may touch.                                  *)
StoreGood ==
  /\ watch \in Maybe(Watches) /\ att \in [Name -> Maybe(Objects)]
  /\ cWatch \in [obj : Maybe(Watches), lag : {"same", "changed"}]
  /\ cAtt \in [Name -> Maybe(Copies)]
  /\ CacheCurrent /\ CacheOwner

BoundsGood ==
  /\ nextUid \in 1..(MaxUid + 1)
  /\ edits \in Nat /\ faults \in Nat /\ edits + faults <= MaxTrouble

LEMMA InParts ==
  AttInv <=> /\ StoreGood /\ BoundsGood /\ queued \in [Job -> BOOLEAN]
             /\ SyncsGood(sync, watch, att)
<1>1. \A j \in Job : sync[j] # None /\ Good(j, sync[j], watch, att)
                     => \A c \in sync[j].todo : c[3] # None <=> c[1] \in {2, 3}
  BY DEF Good, CallsListed
<1>2. AttInv => /\ StoreGood /\ BoundsGood /\ queued \in [Job -> BOOLEAN]
                /\ SyncsGood(sync, watch, att)
  BY DEF AttInv, TypeOK, StoreGood, BoundsGood, SyncsGood
<1>3. ASSUME StoreGood, BoundsGood, queued \in [Job -> BOOLEAN], SyncsGood(sync, watch, att)
      PROVE  AttInv
  <2>1. TypeOK
    BY <1>1, <1>3 DEF TypeOK, StoreGood, BoundsGood, SyncsGood
  <2> QED
    BY <1>3, <2>1 DEF AttInv, StoreGood, SyncsGood
<1> QED
  BY <1>2, <1>3

LEMMA InPartsNext ==
  ASSUME StoreGood', BoundsGood', queued' \in [Job -> BOOLEAN],
         SyncsGood(sync', watch', att')
  PROVE  AttInv'
<1>1. (StoreGood /\ BoundsGood /\ queued \in [Job -> BOOLEAN] /\ SyncsGood(sync, watch, att))'
  BY DEF SyncsGood
<1> QED
  BY <1>1, InParts, PTL

LEMMA BoundsKept ==
  ASSUME AttInv, UNCHANGED bounds
  PROVE  BoundsGood'
<1>1. nextUid' = nextUid /\ edits' = edits /\ faults' = faults
  BY DEF bounds
<1> QED
  BY <1>1, InParts DEF BoundsGood

LEMMA StoreKept ==
  ASSUME AttInv, UNCHANGED <<store, caches>>
  PROVE  StoreGood'
<1>1. watch' = watch /\ att' = att /\ cWatch' = cWatch /\ cAtt' = cAtt
  BY DEF store, caches
<1> QED
  BY <1>1, InParts DEF StoreGood, CacheCurrent, CacheOwner

LEMMA WatchWritten ==
  ASSUME NEW object \in Maybe(Watches), AttInv, WriteWatch(object), UNCHANGED <<att, cAtt>>
  PROVE  StoreGood'
<1>0. StoreGood
  BY InParts
<1>1. watch' = object /\ att' = att /\ cAtt' = cAtt
  BY DEF WriteWatch
<1>2. /\ cWatch' \in [obj : Maybe(Watches), lag : {"same", "changed"}]
      /\ CacheCurrent'
  <2>1. CASE object = watch
    <3>1. cWatch' = cWatch
      BY <2>1 DEF WriteWatch
    <3> QED
      BY <1>0, <1>1, <2>1, <3>1 DEF StoreGood, CacheCurrent
  <2>2. CASE object # watch
    <3>1. cWatch # None /\ cWatch.lag # "gone"
      BY <1>0, NoneIsNothing DEF StoreGood
    <3>2. cWatch' = [cWatch EXCEPT !.lag = "changed"]
      BY <2>2, <3>1 DEF WriteWatch, Age
    <3>3. cWatch'.lag = "changed"
      BY <1>0, <3>2 DEF StoreGood
    <3> QED
      BY <1>0, <3>2, <3>3 DEF StoreGood, CacheCurrent
  <2> QED BY <2>1, <2>2
<1>3. CacheOwner'
  BY <1>0, <1>1 DEF StoreGood, CacheOwner
<1> QED
  BY <1>0, <1>1, <1>2, <1>3 DEF StoreGood

LEMMA AttWritten ==
  ASSUME NEW n \in Name, NEW object, MayWrite(n, object), AttInv, WriteAtt(n, object),
         UNCHANGED <<watch, cWatch>>
  PROVE  StoreGood' /\ att' = [att EXCEPT ![n] = object]
<1>0. StoreGood
  BY InParts
<1>1. /\ watch' = watch /\ cWatch' = cWatch
      /\ att' = [att EXCEPT ![n] = object] /\ cAtt' = Aged(cAtt, n, object)
  BY DEF WriteAtt
<1>2. att' \in [Name -> Maybe(Objects)]
  BY <1>0, <1>1 DEF StoreGood, MayWrite
<1>3. cAtt \in [Name -> Maybe(Copies)]
  BY <1>0 DEF StoreGood
<1>4. CacheOwner'
  <2> SUFFICES ASSUME NEW m \in Name, cAtt'[m] # None, cAtt'[m].lag # "gone"
               PROVE  att'[m] # None /\ att'[m].by = cAtt'[m].obj.by
    BY DEF CacheOwner
  <2>1. CASE m # n
    <3>1. cAtt'[m] = cAtt[m] /\ att'[m] = att[m]
      BY <1>0, <1>1, <1>3, <2>1, AgeCached DEF StoreGood
    <3> QED
      BY <1>0, <3>1 DEF StoreGood, CacheOwner
  <2>2. CASE m = n
    <3>1. cAtt[n] # None /\ cAtt[n].lag # "gone" /\ cAtt'[n].obj = cAtt[n].obj
      BY <1>1, <1>3, <2>2, AgeCached
    <3>2. att[n] # None /\ att[n].by = cAtt[n].obj.by
      BY <1>0, <3>1 DEF StoreGood, CacheOwner
    <3>3. object # None
      BY <1>1, <1>3, <2>2, <3>1, <3>2, AgeCached
    <3>4. att'[n] = object
      BY <1>0, <1>1 DEF StoreGood
    <3> QED
      BY <2>2, <3>1, <3>2, <3>3, <3>4 DEF MayWrite
  <2> QED BY <2>1, <2>2
<1>5. cAtt' \in [Name -> Maybe(Copies)]
  BY <1>1, <1>3, AgeCached
<1> QED
  BY <1>0, <1>1, <1>2, <1>4, <1>5 DEF StoreGood, CacheCurrent

-----------------------------------------------------------------------------
(* The calls of a sync.                                                     *)
LEMMA DueIsPlanned ==
  ASSUME NEW j \in Job, NEW c \in Due(j), AttInv
  PROVE  /\ sync[j] # None /\ sync[j].put = None /\ ~sync[j].current
         /\ sync[j] \in Syncs /\ Good(j, sync[j], watch, att)
         /\ c \in sync[j].todo /\ c \in Calls
         /\ c[1] \in {1, 2, 3, 4} /\ c[2] \in Name
         /\ c[1] \in {2, 3} => c[3] \in SUBSET Field
<1>1. sync[j] # None /\ sync[j].put = None /\ c \in sync[j].todo
  BY DEF Due
<1>2. sync[j] \in Syncs /\ Good(j, sync[j], watch, att)
  BY <1>1 DEF AttInv, TypeOK, Maybe
<1>3. c \in Calls /\ sync[j].current \in BOOLEAN
  BY <1>1, <1>2 DEF Syncs
<1>4. ~sync[j].current
  BY <1>1, <1>2 DEF Good, NothingLeft
<1>5. c[1] \in {1, 2, 3, 4} /\ c[2] \in Name /\ c[3] \in Maybe(SUBSET Field)
  BY <1>3 DEF Calls, Phase
<1>6. c[1] \in {2, 3} => c[3] # None
  BY <1>1, <1>2 DEF Good, CallsListed
<1> QED
  BY <1>1, <1>2, <1>3, <1>4, <1>5, <1>6 DEF Maybe

LEMMA AfterTyped ==
  ASSUME NEW s \in Syncs, NEW c \in s.todo, NEW e, e \in BOOLEAN
  PROVE  LET t == After(s, c, e)
             rest == s.todo \ {c}
         IN /\ t \in Syncs
            /\ t.uid = s.uid /\ t.put = s.put /\ t.current = s.current /\ t.todo = rest
            /\ c[2] \in Name /\ s.saw \in [Name -> Maybe(Seen)]
            /\ t.saw = [s.saw EXCEPT ![c[2]] = IF Needs(rest, c[2]) THEN @ ELSE None]
<1> DEFINE n == c[2]
           rest == s.todo \ {c}
           t == After(s, c, e)
           saw == [s.saw EXCEPT ![n] = IF Needs(rest, n) THEN @ ELSE None]
           failed == s.failed \/ e
<1>1. c \in Calls /\ n \in Name
  BY DEF Syncs, Calls
<1>2. t = [s EXCEPT !.todo = rest, !.failed = failed, !.saw = saw]
  BY DEF After
<1>3. s.saw \in [Name -> Maybe(Seen)]
  BY DEF Syncs, Seen, Lags
<1>4. saw \in [Name -> Maybe(Seen)]
  BY <1>1, <1>3 DEF Maybe
<1>5. failed \in BOOLEAN
  OBVIOUS
<1>6. rest \in SUBSET Calls
  BY DEF Syncs
<1>7. saw = [s.saw EXCEPT ![c[2]] = IF Needs(rest, c[2]) THEN @ ELSE None]
  OBVIOUS
<1> HIDE DEF saw, failed, rest, t
<1>8. /\ t \in Syncs
      /\ t.uid = s.uid /\ t.put = s.put /\ t.current = s.current
      /\ t.todo = rest /\ t.saw = saw
  BY <1>2, <1>4, <1>5, <1>6 DEF Syncs, Seen, Lags
<1> QED
  BY <1>1, <1>3, <1>7, <1>8 DEF t, rest

LEMMA AfterIsGood ==
  ASSUME NEW j \in Job, NEW s \in Syncs, NEW w, NEW a, Good(j, s, w, a),
         NEW c \in s.todo, NEW e, e \in BOOLEAN
  PROVE  After(s, c, e) \in Syncs /\ Good(j, After(s, c, e), w, a)
<1> DEFINE n == c[2]
           rest == s.todo \ {c}
           t == After(s, c, e)
<1>0. s # None
  BY NoneIsNothing
<1>1. s.saw \in [Name -> Maybe(Seen)] /\ n \in Name
  BY AfterTyped
<1>2. /\ t.uid = s.uid /\ t.put = s.put /\ t.current = s.current /\ t.todo = rest
      /\ t.saw = [s.saw EXCEPT ![n] = IF Needs(rest, n) THEN @ ELSE None]
  BY AfterTyped
<1>3. t \in Syncs
  BY AfterTyped
<1> HIDE DEF t
<1>7. \A m \in Name : t.saw[m] # None => t.saw[m] = s.saw[m]
  BY <1>1, <1>2
<1>8. \A d \in rest : d \in s.todo /\ d[2] \in Name /\ t.saw[d[2]] = s.saw[d[2]]
  <2> SUFFICES ASSUME NEW d \in rest
               PROVE  d \in s.todo /\ d[2] \in Name /\ t.saw[d[2]] = s.saw[d[2]]
    OBVIOUS
  <2>1. d \in Calls /\ d[2] \in Name
    BY DEF Syncs, Calls
  <2>2. d[2] = n => Needs(rest, n)
    BY DEF Needs
  <2> QED
    BY <1>1, <1>2, <2>1, <2>2
<1> HIDE DEF n, rest
<1>9. PutCurrent(t, w) /\ SawStored(t, a)
  BY <1>0, <1>2, <1>7 DEF Good, PutCurrent, SawStored
<1>10. CallsListed(t)
  BY <1>0, <1>2, <1>8 DEF Good, CallsListed
<1>11. CallsOwn(j, t, a)
  BY <1>0, <1>2, <1>8 DEF Good, CallsOwn, Mine
<1>12. NothingLeft(j, t, a)
  BY <1>0, <1>2 DEF Good, NothingLeft, MadeBy
<1> QED
  BY <1>3, <1>9, <1>10, <1>11, <1>12 DEF Good, t

LEMMA WritesIsGood ==
  ASSUME NEW j \in Job, NEW c \in Due(j), NEW object, MayWrite(c[2], object), AttInv,
         Writes(j, c, object), UNCHANGED <<watch, cWatch, bounds>>
  PROVE  AttInv'
<1> DEFINE n == c[2]
           syncs == AgedByAtt(n, object)
           stored == [att EXCEPT ![n] = object]
<1>0. n \in Name /\ sync[j] # None /\ c \in sync[j].todo
  BY DueIsPlanned
<1>1. StoreGood' /\ att' = stored
  BY <1>0, AttWritten DEF Writes
<1>2. SyncsGood(syncs, watch, stored)
  BY <1>0, AgesByAtt
<1>3. syncs[j] = [sync[j] EXCEPT !.saw = Aged(@, n, object)]
  BY <1>0 DEF AgedByAtt
<1>4. sync[j] \in Syncs /\ syncs[j].todo = sync[j].todo
  BY <1>3, DueIsPlanned DEF Syncs
<1>5. syncs[j] # None
  <2>1. Aged(sync[j].saw, n, object) \in [Name -> Maybe(Seen)]
    BY <1>0, <1>4, AgeSeen DEF Syncs, Seen, Lags
  <2>2. syncs[j] \in Syncs
    BY <1>3, <1>4, <2>1 DEF Syncs, Seen, Lags
  <2> QED
    BY <2>2, NoneIsNothing
<1>6. syncs[j] \in Syncs /\ Good(j, syncs[j], watch, stored)
  BY <1>2, <1>5 DEF SyncsGood, Maybe
<1> DEFINE next == After(syncs[j], c, FALSE)
<1>7. next \in Syncs /\ Good(j, next, watch, stored)
  BY <1>0, <1>4, <1>6, AfterIsGood
<1>8. Proceed(j, syncs, next, queued) /\ queued \in [Job -> BOOLEAN]
  BY InParts DEF Writes
<1> HIDE DEF next, syncs, stored
<1>9. SyncsGood(sync', watch, stored) /\ queued' \in [Job -> BOOLEAN]
  BY <1>2, <1>7, <1>8, Proceeds
<1>10. SyncsGood(sync', watch', att')
  BY <1>1, <1>9 DEF SyncsGood
<1> QED
  BY <1>1, <1>9, <1>10, BoundsKept, InPartsNext

LEMMA ErrsIsGood ==
  ASSUME NEW j \in Job, NEW c \in Due(j), NEW e, e \in BOOLEAN, AttInv,
         Errs(j, c, e), UNCHANGED <<watch, cWatch>>, BoundsGood'
  PROVE  AttInv'
<1>1. StoreGood' /\ watch' = watch /\ att' = att
  BY StoreKept DEF Errs, store, caches
<1>2. SyncsGood(sync, watch, att) /\ queued \in [Job -> BOOLEAN]
  BY InParts
<1>3. sync[j] \in Syncs /\ Good(j, sync[j], watch, att) /\ c \in sync[j].todo
  BY DueIsPlanned
<1>4. After(sync[j], c, e) \in Syncs /\ Good(j, After(sync[j], c, e), watch, att)
  BY <1>3, AfterIsGood
<1>5. Proceed(j, sync, After(sync[j], c, e), queued)
  BY DEF Errs
<1>6. SyncsGood(sync', watch, att) /\ queued' \in [Job -> BOOLEAN]
  BY <1>2, <1>4, <1>5, Proceeds
<1> QED
  BY <1>1, <1>6, InPartsNext

LEMMA MayMark ==
  ASSUME NEW n \in Name, att[n] # None, AttInv
  PROVE  MayWrite(n, [att[n] EXCEPT !.deleting = TRUE])
<1>1. att[n] \in Objects
  BY DEF AttInv, TypeOK, Maybe
<1>2. /\ [att[n] EXCEPT !.deleting = TRUE] \in Objects
      /\ [att[n] EXCEPT !.deleting = TRUE].by = att[n].by
  BY <1>1 DEF Objects
<1> QED
  BY <1>2 DEF MayWrite, Maybe

LEMMA MayMerge ==
  ASSUME NEW j \in Job, NEW s \in Syncs, NEW n \in Name, att[n] # None,
         NEW want \in SUBSET Field, AttInv
  PROVE  MayWrite(n, Updated(j, s, att[n], want))
<1> DEFINE o == att[n]
           new == Updated(j, s, o, want)
           fields == Merged(j, s, o, want)
           last == [o.last EXCEPT ![Key(j, s)] = want]
<1>1. o \in Objects
  BY DEF AttInv, TypeOK, Maybe
<1>2. fields \in SUBSET Field
  <2>1. o.fields \subseteq Field
    BY <1>1 DEF Objects
  <2> QED
    BY <2>1 DEF Merged
<1>3. last \in [Maybe(Uid) -> SUBSET Field]
  BY <1>1 DEF Objects
<1>4. new = [o EXCEPT !.fields = fields, !.last = last]
  BY DEF Updated
<1> HIDE DEF fields, last, new, o
<1>5. new \in Objects /\ new.by = o.by
  BY <1>1, <1>2, <1>3, <1>4 DEF Objects
<1> QED
  BY <1>5 DEF MayWrite, Maybe, new, o

(* Who creates is at work, and so not at the PUT after a list that found    *)
(* nothing; and what others make it has not made.                           *)
LEMMA MayCreate ==
  ASSUME NEW j \in Job, NEW c \in Due(j), c[1] = 2, att[c[2]] = None, AttInv
  PROVE  MayWrite(c[2], Created(j, sync[j], c[3]))
<1> DEFINE new == Created(j, sync[j], c[3])
<1>1. c[3] \in SUBSET Field /\ sync[j] \in Syncs /\ ~sync[j].current
  BY DueIsPlanned
<1>2. sync[j].uid \in Uid
  BY <1>1 DEF Syncs
<1>3. new \in Objects /\ new.by.job = j
  <2>1. [job |-> j, uid |-> sync[j].uid] \in Maybe([job : Job, uid : Uid])
    BY <1>2 DEF Maybe
  <2>2. [k \in Maybe(Uid) |-> IF k = Key(j, sync[j]) THEN c[3] ELSE {}]
          \in [Maybe(Uid) -> SUBSET Field]
    BY <1>1
  <2> QED
    BY <1>1, <2>1, <2>2 DEF Created, Objects
<1>4. ASSUME NEW k \in Job, sync[k] # None, sync[k].current
      PROVE  ~MadeBy(k, sync[k], new)
  BY <1>1, <1>3, <1>4 DEF MadeBy
<1> QED
  BY <1>3, <1>4 DEF MayWrite, Maybe

LEMMA DeletesKeep ==
  ASSUME NEW j \in Job, NEW c \in Due(j), DeleteAttachment(j, c), AttInv
  PROVE  AttInv'
<1>0. c[2] \in Name /\ UNCHANGED <<watch, cWatch>> /\ BoundsGood' /\ UNCHANGED bounds
  BY DueIsPlanned, BoundsKept DEF DeleteAttachment
<1>1. CASE CanDelete(j, c[2])
  <2>1. Writes(j, c, [att[c[2]] EXCEPT !.deleting = TRUE])
    BY <1>1 DEF DeleteAttachment
  <2>2. att[c[2]] # None
    BY <1>1 DEF CanDelete
  <2> QED
    BY <1>0, <2>1, <2>2, MayMark, WritesIsGood
<1>2. CASE ~CanDelete(j, c[2])
  <2>1. Errs(j, c, att[c[2]] # None \/ j \in Decorators)
    BY <1>2 DEF DeleteAttachment
  <2> QED
    BY <1>0, <2>1, ErrsIsGood
<1> QED BY <1>1, <1>2

LEMMA CreatesKeep ==
  ASSUME NEW j \in Job, NEW c \in Due(j), CreateAttachment(j, c), AttInv
  PROVE  AttInv'
<1>0. UNCHANGED <<watch, cWatch>> /\ BoundsGood' /\ UNCHANGED bounds /\ c[1] = 2
  BY BoundsKept DEF CreateAttachment
<1>1. CASE att[c[2]] = None
  <2>1. Writes(j, c, Created(j, sync[j], c[3]))
    BY <1>1 DEF CreateAttachment
  <2> QED
    BY <1>0, <1>1, <2>1, MayCreate, WritesIsGood
<1>2. CASE att[c[2]] # None
  <2>1. Errs(j, c, TRUE)
    BY <1>2 DEF CreateAttachment
  <2> QED
    BY <1>0, <2>1, ErrsIsGood
<1> QED BY <1>1, <1>2

LEMMA UpdatesKeep ==
  ASSUME NEW j \in Job, NEW c \in Due(j), UpdateAttachment(j, c), AttInv
  PROVE  AttInv'
<1>0. /\ UNCHANGED <<watch, cWatch>> /\ BoundsGood' /\ UNCHANGED bounds
      /\ c[1] \in {2, 3} /\ sync[j].saw[c[2]] # None
  BY BoundsKept DEF UpdateAttachment
<1>1. c[2] \in Name /\ sync[j] \in Syncs /\ c[3] \in SUBSET Field
  BY <1>0, DueIsPlanned
<1>2. CASE sync[j].saw[c[2]].lag = "same" /\ Writes(j, c, Updated(j, sync[j], att[c[2]], c[3]))
  <2>1. att[c[2]] # None
    BY <1>0, <1>1, <1>2, DueIsPlanned DEF Good, SawStored
  <2> QED
    BY <1>0, <1>1, <1>2, <2>1, MayMerge, WritesIsGood
<1>3. CASE CanDelete(j, c[2]) /\ Writes(j, c, [att[c[2]] EXCEPT !.deleting = TRUE])
  <2>1. att[c[2]] # None
    BY <1>3 DEF CanDelete
  <2> QED
    BY <1>0, <1>1, <1>3, <2>1, MayMark, WritesIsGood
<1>4. CASE Errs(j, c, TRUE)
  BY <1>0, <1>4, ErrsIsGood
<1> QED
  BY <1>2, <1>3, <1>4 DEF UpdateAttachment

-----------------------------------------------------------------------------
(* The watched object.                                                      *)
LEMMA BeginIsGood ==
  ASSUME NEW j \in Job, NEW syncs, NEW w, NEW copy \in WatchCopies,
         copy.lag = "same" => copy.obj = w,
         SyncsGood(syncs, w, att), AttInv, Begin(j, syncs, copy)
  PROVE  SyncsGood(sync', w, att) /\ queued' \in [Job -> BOOLEAN]
<1> DEFINE s == Planned(j, copy, Plan(j, copy.obj))
<1>1. s \in Syncs /\ Good(j, s, w, att)
  BY PlansAreGood
<1>2. Proceed(j, syncs, s, Taken(j))
  BY DEF Begin
<1>3. Taken(j) \in [Job -> BOOLEAN]
  BY InParts DEF Taken
<1> HIDE DEF s
<1> QED
  BY <1>1, <1>2, <1>3, Proceeds

LEMMA SkipKeeps ==
  ASSUME NEW j \in Job, SkipSync(j), AttInv
  PROVE  AttInv'
<1>1. StoreGood' /\ BoundsGood' /\ watch' = watch /\ att' = att /\ sync' = sync
  BY StoreKept, BoundsKept DEF SkipSync, store
<1>2. queued' \in [Job -> BOOLEAN]
  BY InParts DEF SkipSync, Taken
<1>3. SyncsGood(sync', watch', att')
  BY <1>1, InParts
<1> QED
  BY <1>1, <1>2, <1>3, InPartsNext

LEMMA SyncKeeps ==
  ASSUME NEW j \in Job, Sync(j), AttInv
  PROVE  AttInv'
<1>1. StoreGood' /\ BoundsGood' /\ watch' = watch /\ att' = att
  BY StoreKept, BoundsKept DEF Sync, store
<1>2. cWatch \in WatchCopies /\ (cWatch.lag = "same" => cWatch.obj = watch)
  BY InParts DEF Sync, MaySync, StoreGood, CacheCurrent, WatchCopies, Maybe
<1>3. SyncsGood(sync, watch, att) /\ Begin(j, sync, cWatch)
  BY InParts DEF Sync
<1>4. SyncsGood(sync', watch, att) /\ queued' \in [Job -> BOOLEAN]
  BY <1>2, <1>3, BeginIsGood
<1> QED
  BY <1>1, <1>4, InPartsNext

LEMMA FinalizerAdded ==
  ASSUME NEW j \in Job, AddsFinalizer(j), UNCHANGED <<att, cAtt>>, AttInv
  PROVE  /\ StoreGood' /\ watch' \in Watches /\ watch' # None
         /\ watch # None /\ watch' = [watch EXCEPT !.fins = @ \union {j}]
         /\ SyncsGood(AgedByWatch(watch'), watch', att)
<1> DEFINE object == [watch EXCEPT !.fins = @ \union {j}]
<1>1. watch # None /\ WriteWatch(object)
  BY DEF AddsFinalizer
<1>2. watch \in Watches
  BY <1>1, InParts DEF StoreGood, Maybe
<1>3. object \in Watches
  BY <1>2 DEF Watches
<1>4. watch' = object
  BY <1>1 DEF WriteWatch
<1>5. StoreGood'
  BY <1>1, <1>3, WatchWritten DEF Maybe
<1>6. SyncsGood(AgedByWatch(object), object, att)
  BY AgesByWatch
<1>7. SyncsGood(AgedByWatch(watch'), watch', att)
  BY <1>4, <1>6
<1> QED
  BY <1>1, <1>3, <1>4, <1>5, <1>7, NoneIsNothing

LEMMA FinalizerSyncKeeps ==
  ASSUME NEW j \in Job, SyncWithFinalizer(j), AttInv
  PROVE  AttInv'
<1> DEFINE copy == [obj |-> watch', lag |-> "same"]
<1>1. /\ AddsFinalizer(j) /\ UNCHANGED <<att, cAtt>> /\ UNCHANGED bounds
      /\ Begin(j, AgedByWatch(watch'), Copy(watch'))
  BY DEF SyncWithFinalizer
<1>2. StoreGood' /\ watch' \in Watches /\ SyncsGood(AgedByWatch(watch'), watch', att)
  BY <1>1, FinalizerAdded
<1>3. Copy(watch') = copy
  BY <1>1, FinalizerAdded DEF Copy
<1>4. copy \in WatchCopies /\ copy.lag = "same" /\ copy.obj = watch'
  BY <1>2 DEF WatchCopies
<1>5. Begin(j, AgedByWatch(watch'), copy)
  BY <1>1, <1>3
<1> HIDE DEF copy
<1>6. SyncsGood(sync', watch', att) /\ queued' \in [Job -> BOOLEAN]
  BY <1>2, <1>4, <1>5, BeginIsGood
<1>7. att' = att /\ BoundsGood'
  BY <1>1, BoundsKept
<1> QED
  BY <1>2, <1>6, <1>7, InPartsNext

LEMMA HookFailureKeeps ==
  ASSUME NEW j \in Job, HookFails(j), AttInv
  PROVE  AttInv'
<1>1. /\ AddsFinalizer(j) /\ UNCHANGED <<att, cAtt>> /\ queued' = queued
      /\ sync' = AgedByWatch(watch')
  BY DEF HookFails
<1>2. StoreGood' /\ SyncsGood(sync', watch', att)
  BY <1>1, FinalizerAdded
<1>3. BoundsGood'
  BY InParts, AttachmentsAssumption DEF HookFails, Fault, BoundsGood
<1>4. queued' \in [Job -> BOOLEAN] /\ att' = att
  BY <1>1, InParts
<1> QED
  BY <1>2, <1>3, <1>4, InPartsNext

LEMMA EndKeeps ==
  ASSUME NEW j \in Job, Requeue(j), UNCHANGED <<store, caches>>, BoundsGood', AttInv
  PROVE  AttInv'
<1>1. StoreGood' /\ watch' = watch /\ att' = att
  BY StoreKept DEF store
<1>2. queued' \in [Job -> BOOLEAN]
  BY InParts DEF Requeue
<1>3. SyncsGood(sync, watch, att)
  BY InParts
<1>4. sync' = [sync EXCEPT ![j] = None]
  BY DEF Requeue
<1>5. SyncsGood(sync', watch, att)
  BY <1>3, <1>4 DEF SyncsGood, Good, Maybe
<1> QED
  BY <1>1, <1>2, <1>5, InPartsNext

(* The object of a PUT that the API server accepts is the one that is there. *)
LEMMA PutIsCurrent ==
  ASSUME NEW j \in Job, sync[j] # None, sync[j].put # None, AttInv
  PROVE  /\ sync[j] \in Syncs /\ sync[j].put \in WatchCopies /\ sync[j].put.obj \in Watches
         /\ sync[j].put.obj.uid = sync[j].uid
         /\ Fresh(sync[j].put) => sync[j].put.obj = watch
<1>1. sync[j] \in Syncs /\ Good(j, sync[j], watch, att)
  BY InParts DEF SyncsGood, Maybe
<1>2. sync[j].put \in WatchCopies
  BY <1>1 DEF Syncs, Maybe
<1> QED
  BY <1>1, <1>2 DEF WatchCopies, Good, PutCurrent, Fresh

LEMMA StoredTyped ==
  ASSUME NEW o \in Watches
  PROVE  Stored(o) \in Maybe(Watches)
BY DEF Stored, Maybe

LEMMA PutKeeps ==
  ASSUME NEW j \in Job, UpdateWatch(j), AttInv
  PROVE  AttInv'
<1> DEFINE me == sync[j].put
           sent == [me.obj EXCEPT !.fins = @ \ {j}]
           new == Stored(sent)
           syncs == AgedByWatch(new)
           next == [sync[j] EXCEPT !.put = None, !.current = FALSE]
<1>0. sync[j] # None /\ me # None /\ UNCHANGED <<att, cAtt>> /\ UNCHANGED bounds
  BY DEF UpdateWatch
<1>1. BoundsGood' /\ att' = att
  BY <1>0, BoundsKept
<1>2. sync[j] \in Syncs /\ me.obj \in Watches
  BY <1>0, PutIsCurrent
<1>3. CASE Fresh(me)
  <2>1. WriteWatch(new) /\ Proceed(j, syncs, next, queued)
    BY <1>3 DEF UpdateWatch
  <2>2. sent \in Watches
    BY <1>2 DEF Watches
  <2> HIDE DEF sent
  <2>3. new \in Maybe(Watches)
    BY <2>2, StoredTyped
  <2> HIDE DEF new
  <2>4. StoreGood' /\ watch' = new
    BY <1>0, <2>1, <2>3, WatchWritten DEF WriteWatch
  <2>5. SyncsGood(syncs, new, att)
    BY AgesByWatch
  <2>6. /\ next \in Syncs
        /\ next.put = None /\ next.current = FALSE /\ next.uid = sync[j].uid
        /\ next.todo = sync[j].todo /\ next.saw = sync[j].saw
    BY <1>2 DEF Syncs, Maybe
  <2>7. Good(j, sync[j], watch, att)
    BY InParts DEF SyncsGood
  <2> HIDE DEF next, syncs
  <2>8. Good(j, next, new, att)
    BY <1>0, <2>6, <2>7
    DEF Good, PutCurrent, SawStored, CallsListed, CallsOwn, Mine, MadeBy, NothingLeft
  <2>9. queued \in [Job -> BOOLEAN]
    BY InParts
  <2>10. SyncsGood(sync', new, att) /\ queued' \in [Job -> BOOLEAN]
    BY <2>1, <2>5, <2>6, <2>8, <2>9, Proceeds
  <2> QED
    BY <1>1, <2>4, <2>10, InPartsNext
<1>4. CASE ~Fresh(me)
  <2>1. Requeue(j) /\ UNCHANGED <<watch, cWatch>>
    BY <1>4 DEF UpdateWatch
  <2> QED
    BY <1>0, <1>1, <2>1, EndKeeps DEF store, caches
<1> QED BY <1>3, <1>4

LEMMA FailedPutKeeps ==
  ASSUME NEW j \in Job, UpdateFails(j), AttInv
  PROVE  AttInv'
<1>1. Requeue(j) /\ UNCHANGED <<store, caches>>
  BY DEF UpdateFails
<1>2. BoundsGood'
  BY InParts, AttachmentsAssumption DEF UpdateFails, Fault, BoundsGood
<1> QED
  BY <1>1, <1>2, EndKeeps

LEMMA FailedCallKeeps ==
  ASSUME NEW j \in Job, NEW c \in Due(j), CallFails(j, c), AttInv
  PROVE  AttInv'
<1>1. Errs(j, c, TRUE) /\ UNCHANGED <<watch, cWatch>>
  BY DEF CallFails
<1>2. BoundsGood'
  BY InParts, AttachmentsAssumption DEF CallFails, Fault, BoundsGood
<1> QED
  BY <1>1, <1>2, ErrsIsGood

LEMMA CreateWatchKeeps ==
  ASSUME CreateWatch, AttInv
  PROVE  AttInv'
<1> DEFINE new == [uid |-> nextUid, ver |-> First, matches |-> TRUE, fins |-> {},
                   deleting |-> FALSE]
<1>0. watch = None /\ WriteWatch(new) /\ UNCHANGED <<att, cAtt>>
      /\ queued' = queued /\ sync' = sync
  BY DEF CreateWatch
<1>1. new \in Watches
  BY AttachmentsAssumption DEF CreateWatch, Watches
<1> HIDE DEF new
<1>2. StoreGood' /\ watch' = new /\ att' = att
  BY <1>0, <1>1, WatchWritten DEF WriteWatch, Maybe
<1>3. BoundsGood'
  BY InParts, AttachmentsAssumption DEF CreateWatch, Edit, BoundsGood, Uid
<1>4. SyncsGood(sync, watch, att) /\ queued \in [Job -> BOOLEAN]
  BY InParts
<1>5. ASSUME NEW j \in Job PROVE Good(j, sync[j], new, att)
  <2> SUFFICES ASSUME sync[j] # None PROVE PutCurrent(sync[j], new)
    BY <1>4 DEF SyncsGood, Good
  <2> SUFFICES ASSUME sync[j].put # None
               PROVE  sync[j].put.obj.uid = sync[j].uid /\ sync[j].put.lag # "same"
    BY DEF PutCurrent
  <2> QED
    BY <1>0, PutIsCurrent, NoneIsNothing DEF Fresh
<1>6. SyncsGood(sync', watch', att')
  BY <1>0, <1>2, <1>4, <1>5 DEF SyncsGood
<1> QED
  BY <1>0, <1>2, <1>3, <1>4, <1>6, InPartsNext

LEMMA EditWatchKeeps ==
  ASSUME EditWatch, AttInv
  PROVE  AttInv'
<1>1. watch \in Watches
  BY InParts DEF EditWatch, StoreGood, Maybe
<1>2. \A v \in Version, m, d \in BOOLEAN : ChangedBy(v, m, d) \in Maybe(Watches)
  <2> SUFFICES ASSUME NEW v \in Version, NEW m \in BOOLEAN, NEW d \in BOOLEAN
               PROVE  ChangedBy(v, m, d) \in Maybe(Watches)
    OBVIOUS
  <2>1. [watch EXCEPT !.ver = v, !.matches = m, !.deleting = @ \/ d] \in Watches
    <3>1. (watch.deleting \/ d) \in BOOLEAN
      OBVIOUS
    <3> QED
      BY <1>1, <3>1 DEF Watches
  <2> QED
    BY <2>1, StoredTyped DEF ChangedBy
<1>3. watch.ver \in Version /\ watch.matches \in BOOLEAN
  BY <1>1 DEF Watches
<1>4. PICK object \in Maybe(Watches) : WatchBecomes(object)
  <2>1. CASE \E v \in Version \ {watch.ver} : WatchBecomes(ChangedBy(v, watch.matches, FALSE))
    BY <1>2, <1>3, <2>1
  <2>2. CASE WatchBecomes(ChangedBy(watch.ver, ~watch.matches, FALSE))
    <3>1. (~watch.matches) \in BOOLEAN
      OBVIOUS
    <3> QED
      BY <1>2, <1>3, <2>2, <3>1
  <2>3. CASE WatchBecomes(ChangedBy(watch.ver, watch.matches, TRUE))
    BY <1>2, <1>3, <2>3
  <2> QED BY <2>1, <2>2, <2>3 DEF EditWatch
<1>5. UNCHANGED <<att, cAtt>> /\ queued' = queued
  BY DEF EditWatch
<1>6. StoreGood' /\ watch' = object /\ att' = att
  BY <1>4, <1>5, WatchWritten DEF WatchBecomes, WriteWatch
<1>7. SyncsGood(sync', object, att)
  BY <1>4, AgesByWatch DEF WatchBecomes
<1>8. BoundsGood'
  BY InParts, AttachmentsAssumption DEF EditWatch, Edit, BoundsGood
<1>9. queued' \in [Job -> BOOLEAN]
  BY <1>5, InParts
<1> QED
  BY <1>6, <1>7, <1>8, <1>9, InPartsNext

-----------------------------------------------------------------------------
(* The attachments, and who else writes them.                               *)
LEMMA OthersKeep ==
  ASSUME NEW n \in Name, NEW object, MayWrite(n, object), AttBecomes(n, object),
         queued' \in [Job -> BOOLEAN], BoundsGood', AttInv
  PROVE  AttInv'
<1>1. StoreGood' /\ att' = [att EXCEPT ![n] = object]
  BY AttWritten DEF AttBecomes
<1>2. SyncsGood(sync', watch, [att EXCEPT ![n] = object]) /\ watch' = watch
  BY AgesByAtt DEF AttBecomes
<1> QED
  BY <1>1, <1>2, InPartsNext

LEMMA ForeignKeeps ==
  ASSUME NEW n \in Name, CreateForeign(n), AttInv
  PROVE  AttInv'
<1> DEFINE new == [by |-> None, fields |-> {}, deleting |-> FALSE,
                   last |-> [k \in Maybe(Uid) |-> {}]]
<1>1. AttBecomes(n, new) /\ queued' = queued
  BY DEF CreateForeign
<1>2. new \in Objects /\ new.by = None
  BY DEF Objects, Maybe
<1>3. ASSUME NEW k \in Job, sync[k] # None PROVE None # [job |-> k, uid |-> sync[k].uid]
  <2>1. sync[k].uid \in Uid
    BY <1>3 DEF AttInv, TypeOK, Maybe, Syncs
  <2> QED
    BY <2>1, AttachmentsAssumption
<1>4. MayWrite(n, new)
  BY <1>2, <1>3 DEF CreateForeign, MayWrite, MadeBy, Maybe
<1>5. BoundsGood'
  BY InParts, AttachmentsAssumption DEF CreateForeign, Edit, BoundsGood
<1>6. queued' \in [Job -> BOOLEAN]
  BY <1>1, InParts
<1> QED
  BY <1>1, <1>4, <1>5, <1>6, OthersKeep

LEMMA DrainKeeps ==
  ASSUME NEW n \in Name, Drain(n), AttInv
  PROVE  AttInv'
<1>1. /\ AttBecomes(n, [att[n] EXCEPT !.deleting = TRUE]) /\ queued' = queued
      /\ att[n] # None
  BY DEF Drain
<1>2. BoundsGood'
  BY InParts, AttachmentsAssumption DEF Drain, Edit, BoundsGood
<1>3. queued' \in [Job -> BOOLEAN]
  BY <1>1, InParts
<1> QED
  BY <1>1, <1>2, <1>3, MayMark, OthersKeep

LEMMA CollectKeeps ==
  ASSUME NEW n \in Name, Collect(n), AttInv
  PROVE  AttInv'
<1>1. /\ AttBecomes(n, [att[n] EXCEPT !.deleting = TRUE]) /\ queued' = queued
      /\ att[n] # None
  BY DEF Collect
<1>2. BoundsGood'
  BY BoundsKept DEF Collect
<1>3. queued' \in [Job -> BOOLEAN]
  BY <1>1, InParts
<1> QED
  BY <1>1, <1>2, <1>3, MayMark, OthersKeep

LEMMA WakesTyped ==
  ASSUME NEW js, Wakes(js), AttInv
  PROVE  queued' \in [Job -> BOOLEAN]
BY InParts DEF Wakes

LEMMA RemoveKeeps ==
  ASSUME NEW n \in Name, RemoveAttachment(n), AttInv
  PROVE  AttInv'
<1>1. AttBecomes(n, None) /\ BoundsGood'
  BY BoundsKept DEF RemoveAttachment
<1>2. queued' \in [Job -> BOOLEAN]
  BY WakesTyped DEF RemoveAttachment
<1>3. MayWrite(n, None)
  BY DEF MayWrite, Maybe
<1> QED
  BY <1>1, <1>2, <1>3, OthersKeep

-----------------------------------------------------------------------------
(* The watches, and a restart.                                              *)
LEMMA CopyTyped ==
  ASSUME NEW o \in Maybe(Objects)
  PROVE  /\ Copy(o) \in Maybe(Copies)
         /\ Copy(o) # None => o # None /\ Copy(o).obj = o
<1>1. o # None => [obj |-> o, lag |-> "same"] \in Copies
  BY DEF Copies, Maybe
<1> QED
  BY <1>1 DEF Copy, Maybe

LEMMA WatchEventKeeps ==
  ASSUME WatchEvent, AttInv
  PROVE  AttInv'
<1>1. /\ cWatch' = [obj |-> watch, lag |-> "same"]
      /\ watch' = watch /\ att' = att /\ cAtt' = cAtt /\ sync' = sync
  BY DEF WatchEvent, store
<1>2. StoreGood'
  BY <1>1, InParts DEF StoreGood, CacheCurrent, CacheOwner
<1>3. BoundsGood'
  BY BoundsKept DEF WatchEvent
<1>4. queued' \in [Job -> BOOLEAN]
  BY WakesTyped DEF WatchEvent
<1>5. SyncsGood(sync', watch', att')
  BY <1>1, InParts
<1> QED
  BY <1>2, <1>3, <1>4, <1>5, InPartsNext

LEMMA AttachmentEventKeeps ==
  ASSUME NEW n \in Name, AttachmentEvent(n), AttInv
  PROVE  AttInv'
<1> DEFINE old == cAtt[n]
           new == IF old # None /\ old.lag = "gone" THEN None ELSE Copy(att[n])
<1>1. /\ cAtt' = [cAtt EXCEPT ![n] = new]
      /\ Wakes(Woken((IF new = None THEN old ELSE new).obj))
      /\ watch' = watch /\ att' = att /\ cWatch' = cWatch /\ sync' = sync
      /\ UNCHANGED bounds
  BY DEF AttachmentEvent, store
<1>2. att[n] \in Maybe(Objects) /\ cAtt \in [Name -> Maybe(Copies)]
  BY InParts DEF StoreGood
<1>3. /\ new \in Maybe(Copies)
      /\ new # None => att[n] # None /\ new.obj = att[n]
  BY <1>2, CopyTyped DEF Maybe
<1> HIDE DEF new, old
<1>4. cAtt' \in [Name -> Maybe(Copies)] /\ cAtt'[n] = new
      /\ \A m \in Name : m # n => cAtt'[m] = cAtt[m]
  BY <1>1, <1>2, <1>3
<1>5. CacheOwner'
  BY <1>1, <1>3, <1>4, InParts DEF StoreGood, CacheOwner
<1>6. StoreGood'
  BY <1>1, <1>4, <1>5, InParts DEF StoreGood, CacheCurrent
<1>7. BoundsGood' /\ queued' \in [Job -> BOOLEAN]
  BY <1>1, BoundsKept, WakesTyped
<1>8. SyncsGood(sync', watch', att')
  BY <1>1, InParts
<1> QED
  BY <1>6, <1>7, <1>8, InPartsNext

LEMMA CrashKeeps ==
  ASSUME Crash, AttInv
  PROVE  AttInv'
<1>1. /\ cWatch' = [obj |-> watch, lag |-> "same"]
      /\ cAtt' = [n \in Name |-> Copy(att[n])]
      /\ watch' = watch /\ att' = att
      /\ sync' = [j \in Job |-> None]
  BY DEF Crash, store
<1>2. watch \in Maybe(Watches) /\ att \in [Name -> Maybe(Objects)]
  BY InParts DEF StoreGood
<1>3. \A n \in Name : /\ cAtt'[n] \in Maybe(Copies)
                      /\ cAtt'[n] # None => att[n] # None /\ cAtt'[n].obj = att[n]
  BY <1>1, <1>2, CopyTyped
<1>4. CacheOwner'
  BY <1>1, <1>3 DEF CacheOwner
<1>5. StoreGood'
  BY <1>1, <1>2, <1>3, <1>4 DEF StoreGood, CacheCurrent
<1>6. BoundsGood'
  BY InParts, AttachmentsAssumption DEF Crash, Fault, BoundsGood
<1>7. queued' \in [Job -> BOOLEAN]
  BY DEF Crash
<1>8. SyncsGood(sync', watch', att')
  BY <1>1 DEF SyncsGood, Good, Maybe
<1> QED
  BY <1>5, <1>6, <1>7, <1>8, InPartsNext

-----------------------------------------------------------------------------
LEMMA InvInit ==
  ASSUME Init
  PROVE  AttInv
<1>1. StoreGood
  BY DEF Init, StoreGood, CacheCurrent, CacheOwner, Maybe
<1>2. BoundsGood
  BY AttachmentsAssumption DEF Init, BoundsGood
<1>3. queued \in [Job -> BOOLEAN]
  BY DEF Init
<1>4. SyncsGood(sync, watch, att)
  BY DEF Init, SyncsGood, Good, Maybe
<1> QED
  BY <1>1, <1>2, <1>3, <1>4, InParts

LEMMA InvNext ==
  ASSUME AttInv, [Next]_vars
  PROVE  AttInv'
<1>1. CASE WatchEvent
  BY <1>1, WatchEventKeeps
<1>2. CASE \E n \in Name : AttachmentEvent(n)
  BY <1>2, AttachmentEventKeeps
<1>3. ASSUME NEW j \in Job, Worker(j) PROVE AttInv'
  <2>1. CASE SkipSync(j)
    BY <2>1, SkipKeeps
  <2>2. CASE Sync(j)
    BY <2>2, SyncKeeps
  <2>3. CASE SyncWithFinalizer(j)
    BY <2>3, FinalizerSyncKeeps
  <2>4. CASE UpdateWatch(j)
    BY <2>4, PutKeeps
  <2>5. CASE Manage(j)
    <3>1. PICK c \in Due(j) :
            DeleteAttachment(j, c) \/ CreateAttachment(j, c) \/ UpdateAttachment(j, c)
      BY <2>5 DEF Manage
    <3> QED
      BY <3>1, DeletesKeep, CreatesKeep, UpdatesKeep
  <2> QED BY <1>3, <2>1, <2>2, <2>3, <2>4, <2>5 DEF Worker
<1>4. CASE Faults
  <2>1. CASE Crash
    BY <2>1, CrashKeeps
  <2>2. ASSUME NEW j \in Job, HookFails(j) \/ UpdateFails(j) PROVE AttInv'
    BY <2>2, HookFailureKeeps, FailedPutKeeps
  <2>3. ASSUME NEW j \in Job, NEW c \in Due(j), CallFails(j, c) PROVE AttInv'
    BY <2>3, FailedCallKeeps
  <2> QED BY <1>4, <2>1, <2>2, <2>3 DEF Faults
<1>5. CASE Environment
  <2>1. CASE CreateWatch \/ EditWatch
    BY <2>1, CreateWatchKeeps, EditWatchKeeps
  <2>2. ASSUME NEW n \in Name,
               CreateForeign(n) \/ Drain(n) \/ Collect(n) \/ RemoveAttachment(n)
        PROVE  AttInv'
    BY <2>2, ForeignKeeps, DrainKeeps, CollectKeeps, RemoveKeeps
  <2> QED BY <1>5, <2>1, <2>2 DEF Environment
<1>6. CASE UNCHANGED vars
  <2>1. /\ UNCHANGED <<store, caches>> /\ UNCHANGED bounds
        /\ queued' = queued /\ sync' = sync /\ watch' = watch /\ att' = att
    BY <1>6 DEF vars, store
  <2>2. StoreGood' /\ BoundsGood'
    BY <2>1, StoreKept, BoundsKept
  <2>3. SyncsGood(sync', watch', att') /\ queued' \in [Job -> BOOLEAN]
    BY <2>1, InParts
  <2> QED
    BY <2>2, <2>3, InPartsNext
<1> QED BY <1>1, <1>2, <1>3, <1>4, <1>5, <1>6 DEF Next

LEMMA Invariant == Spec => []AttInv
<1>1. Init => AttInv
  BY InvInit
<1>2. AttInv /\ [Next]_vars => AttInv'
  BY InvNext
<1> QED BY <1>1, <1>2, PTL DEF Spec

(* Every reachable state is well typed: watched object, attachments and the *)
(* plans of the syncs at work.                                              *)
THEOREM TypeCorrect == Spec => []TypeOK
<1>1. AttInv => TypeOK
  BY DEF AttInv
<1> QED BY <1>1, Invariant, PTL

-----------------------------------------------------------------------------
(* Who writes attachments: nobody but the call a sync issues, and those who *)
(* leave the plans of all syncs as they are.                                *)
LEMMA AgingKeepsTodo ==
  ASSUME NEW n \in Name, NEW object, AttInv, NEW k \in Job, sync[k] # None
  PROVE  /\ AgedByAtt(n, object)[k] # None
         /\ AgedByAtt(n, object)[k].todo = sync[k].todo
         /\ AgedByAtt(n, object)[k].put = sync[k].put
<1>1. AgedByAtt(n, object)[k] = [sync[k] EXCEPT !.saw = Aged(@, n, object)]
  BY DEF AgedByAtt
<1>2. sync[k] \in Syncs
  BY InParts DEF SyncsGood, Maybe
<1>3. Aged(sync[k].saw, n, object) \in [Name -> Maybe(Seen)]
  BY <1>2, AgeSeen DEF Syncs, Seen, Lags
<1>4. AgedByAtt(n, object)[k] \in Syncs
  BY <1>1, <1>2, <1>3 DEF Syncs, Seen, Lags
<1> QED
  BY <1>1, <1>2, <1>4, NoneIsNothing DEF Syncs

LEMMA WritesIssues ==
  ASSUME NEW j \in Job, NEW c \in Due(j), NEW object, Writes(j, c, object), AttInv,
         NEW k \in Job, NEW d \in Due(k), Issues(k, d)
  PROVE  k = j /\ d = c
<1> DEFINE syncs == AgedByAtt(c[2], object)
           next == After(syncs[j], c, FALSE)
           new == IF next.put = None /\ next.todo = {} THEN None ELSE next
<1>1. c[2] \in Name /\ sync[j] # None /\ sync[j].put = None /\ c \in sync[j].todo
  BY DueIsPlanned
<1>2. sync[k] # None /\ d \in sync[k].todo
  BY DueIsPlanned
<1>3. sync' = [syncs EXCEPT ![j] = new]
  BY DEF Writes, Proceed
<1>4. sync'[j] = new /\ (k # j => sync'[k] = syncs[k])
  BY <1>3 DEF AgedByAtt
<1>5. k = j
  <2> SUFFICES ASSUME k # j PROVE FALSE
    OBVIOUS
  <2>1. sync'[k] = syncs[k]
    BY <1>4
  <2>2. syncs[k] # None /\ syncs[k].todo = sync[k].todo
    BY <1>1, <1>2, AgingKeepsTodo
  <2> HIDE DEF syncs
  <2> QED
    BY <1>2, <2>1, <2>2 DEF Issues
<1>6. syncs[j].todo = sync[j].todo /\ syncs[j].put = None
  BY <1>1, AgingKeepsTodo
<1>7. syncs[j] \in Syncs
  <2>1. syncs[j] = [sync[j] EXCEPT !.saw = Aged(@, c[2], object)]
    BY <1>1 DEF AgedByAtt
  <2>2. sync[j] \in Syncs
    BY DueIsPlanned
  <2>3. Aged(sync[j].saw, c[2], object) \in [Name -> Maybe(Seen)]
    BY <1>1, <2>2, AgeSeen DEF Syncs, Seen, Lags
  <2> QED
    BY <2>1, <2>2, <2>3 DEF Syncs, Seen, Lags
<1> HIDE DEF syncs
<1>8. next \in Syncs /\ next.todo = sync[j].todo \ {c} /\ next.put = None
  <2>1. c \in syncs[j].todo /\ FALSE \in BOOLEAN
    BY <1>1, <1>6
  <2>2. next \in Syncs /\ next.todo = syncs[j].todo \ {c} /\ next.put = syncs[j].put
    BY <1>7, <2>1, AfterTyped
  <2> QED
    BY <1>6, <2>2
<1> HIDE DEF next
<1>9. next # None
  BY <1>8, NoneIsNothing
<1>10. d \notin sync[j].todo \ {c}
  <2>1. CASE next.todo = {}
    BY <1>8, <2>1
  <2>2. CASE next.todo # {}
    BY <1>4, <1>5, <1>8, <1>9, <2>2 DEF Issues
  <2> QED BY <2>1, <2>2
<1> QED
  BY <1>2, <1>5, <1>10

LEMMA AttBy ==
  ASSUME AttInv, [Next]_vars, NEW j \in Job, NEW c \in Due(j), Issues(j, c),
         att'[c[2]] # att[c[2]]
  PROVE  \/ DeleteAttachment(j, c) \/ CreateAttachment(j, c) \/ UpdateAttachment(j, c)
<1>0. sync[j] # None /\ c \in sync[j].todo /\ c[2] \in Name
  BY DueIsPlanned
<1>1. ASSUME NEW k \in Job, Manage(k)
      PROVE  \/ DeleteAttachment(j, c) \/ CreateAttachment(j, c) \/ UpdateAttachment(j, c)
  <2>1. PICK d \in Due(k) :
          DeleteAttachment(k, d) \/ CreateAttachment(k, d) \/ UpdateAttachment(k, d)
    BY <1>1 DEF Manage
  <2>2. PICK object : Writes(k, d, object)
    <3>1. \A e : ~Errs(k, d, e)
      BY DEF Errs
    <3>2. CASE DeleteAttachment(k, d)
      BY <3>1, <3>2 DEF DeleteAttachment
    <3>3. CASE CreateAttachment(k, d)
      BY <3>1, <3>3 DEF CreateAttachment
    <3>4. CASE UpdateAttachment(k, d)
      BY <3>1, <3>4 DEF UpdateAttachment
    <3> QED BY <2>1, <3>2, <3>3, <3>4
  <2>3. j = k /\ c = d
    BY <2>2, WritesIssues
  <2> QED
    BY <2>1, <2>3
<1>2. ASSUME NEW k \in Job, SkipSync(k) \/ Sync(k) \/ SyncWithFinalizer(k) \/ UpdateWatch(k)
      PROVE  att' = att
  BY <1>2 DEF SkipSync, Sync, SyncWithFinalizer, UpdateWatch, store
<1>3. ASSUME Faults PROVE att' = att
  <2>1. ASSUME NEW k \in Job, HookFails(k) \/ UpdateFails(k) \/ \E d \in Due(k) : CallFails(k, d)
        PROVE  att' = att
    BY <2>1 DEF HookFails, UpdateFails, CallFails, Errs, store
  <2>2. CASE Crash
    BY <2>2 DEF Crash, store
  <2> QED BY <1>3, <2>1, <2>2 DEF Faults
<1>4. ASSUME CreateWatch \/ EditWatch PROVE att' = att
  BY <1>4 DEF CreateWatch, EditWatch
<1>5. ASSUME NEW n \in Name,
             CreateForeign(n) \/ Drain(n) \/ Collect(n) \/ RemoveAttachment(n)
      PROVE  FALSE
  <2>1. PICK object : AttBecomes(n, object)
    BY <1>5 DEF CreateForeign, Drain, Collect, RemoveAttachment
  <2>2. sync' = AgedByAtt(n, object)
    BY <2>1 DEF AttBecomes
  <2> QED
    BY <1>0, <2>2, AgingKeepsTodo DEF Issues
<1>6. ASSUME WatchEvent \/ \E n \in Name : AttachmentEvent(n) PROVE att' = att
  BY <1>6 DEF WatchEvent, AttachmentEvent, store
<1>7. ASSUME UNCHANGED vars PROVE att' = att
  BY <1>7 DEF vars, store
<1>8. CASE \E k \in Job : Worker(k)
  BY <1>1, <1>2, <1>8 DEF Worker
<1>9. CASE Environment
  BY <1>4, <1>5, <1>9 DEF Environment
<1> QED BY <1>3, <1>6, <1>7, <1>8, <1>9 DEF Next

(* A controller that is not granted any attachment writes and deletes those *)
(* of its own watch only, and the very ones that its hook was shown and     *)
(* listed explicitly.                                                       *)
THEOREM OthersAreKept == Spec => KeepsOthers
<1>1. ASSUME AttInv, [Next]_vars, NEW j \in Job, NEW c \in Due(j), Options[j] = {},
             Issues(j, c), att[c[2]] # None, att'[c[2]] # att[c[2]]
      PROVE  \/ Mine(j, sync[j], att[c[2]])
             \/ c[1] \in {3, 4} /\ sync[j].saw[c[2]].lag # "gone"
  <2>1. /\ c \in sync[j].todo /\ Good(j, sync[j], watch, att)
        /\ sync[j] # None /\ c[1] \in {1, 2, 3, 4}
    BY <1>1, DueIsPlanned
  <2>2. CASE DeleteAttachment(j, c)
    <3>1. CanDelete(j, c[2]) /\ c[1] \in {1, 4}
      BY <1>1, <2>2 DEF DeleteAttachment, Errs
    <3>2. sync[j].saw[c[2]].lag # "gone" /\ sync[j].saw[c[2]] # None
      BY <2>1, <3>1 DEF CanDelete, Good, CallsListed
    <3> QED
      BY <1>1, <2>1, <3>1, <3>2 DEF Good, CallsOwn
  <2>3. CASE CreateAttachment(j, c)
    BY <1>1, <2>3 DEF CreateAttachment, Errs
  <2>4. CASE UpdateAttachment(j, c)
    <3>1. sync[j].saw[c[2]] # None /\ c[1] \in {2, 3}
      BY <2>4 DEF UpdateAttachment
    <3>2. sync[j].saw[c[2]].lag # "gone"
      BY <1>1, <2>4 DEF UpdateAttachment, CanDelete, Errs
    <3> QED
      BY <1>1, <2>1, <3>1, <3>2 DEF Good, CallsOwn
  <2> QED BY <1>1, <2>2, <2>3, <2>4, AttBy
<1>2. ASSUME AttInv, [Next]_vars
      PROVE  [ \A j \in Job : \A c \in Due(j) :
                 Options[j] = {} /\ Issues(j, c)
                 => LET n == c[2]
                    IN \/ att[n] = None \/ att'[n] = att[n]
                       \/ Mine(j, sync[j], att[n])
                       \/ c[1] \in {3, 4} /\ sync[j].saw[n].lag # "gone" ]_vars
  BY <1>1, <1>2
<1> QED BY <1>2, Invariant, PTL DEF Spec, KeepsOthers

-----------------------------------------------------------------------------
(* Who writes a watched object that exists: who adds a finalizer, who sends *)
(* the object of its sync without its own, and users.                       *)
Adds(j) == watch' = [watch EXCEPT !.fins = @ \union {j}]

Sends(j) ==
  /\ sync[j] # None /\ sync[j].put # None /\ sync[j].put.obj = watch
  /\ watch' = Stored([watch EXCEPT !.fins = @ \ {j}])

LEMMA WatchBy ==
  ASSUME AttInv, [Next]_vars, watch # None, watch' # watch
  PROVE  EditWatch \/ \E j \in Job : Adds(j) \/ Sends(j)
<1>1. ASSUME NEW j \in Job, SyncWithFinalizer(j) \/ HookFails(j)
      PROVE  Adds(j)
  BY <1>1, FinalizerAdded DEF SyncWithFinalizer, HookFails, Adds
<1>2. ASSUME NEW j \in Job, UpdateWatch(j) PROVE Sends(j)
  <2>1. sync[j] # None /\ sync[j].put # None /\ Fresh(sync[j].put)
    BY <1>2 DEF UpdateWatch
  <2>2. sync[j].put.obj = watch
    BY <2>1, PutIsCurrent
  <2>3. watch' = Stored([sync[j].put.obj EXCEPT !.fins = @ \ {j}])
    BY <1>2, <2>1 DEF UpdateWatch, WriteWatch
  <2> QED
    BY <2>1, <2>2, <2>3 DEF Sends
<1>3. ASSUME NEW j \in Job, SkipSync(j) \/ Sync(j) \/ Manage(j) PROVE watch' = watch
  BY <1>3 DEF SkipSync, Sync, Manage, DeleteAttachment, CreateAttachment, UpdateAttachment, store
<1>4. CASE \E j \in Job : Worker(j)
  BY <1>1, <1>2, <1>3, <1>4 DEF Worker
<1>5. ASSUME Crash \/ \E j \in Job : UpdateFails(j) \/ \E c \in Due(j) : CallFails(j, c)
      PROVE  watch' = watch
  BY <1>5 DEF Crash, UpdateFails, CallFails, store
<1>6. CASE Faults
  BY <1>1, <1>5, <1>6 DEF Faults
<1>7. ASSUME \E n \in Name : CreateForeign(n) \/ Drain(n) \/ Collect(n) \/ RemoveAttachment(n)
      PROVE  watch' = watch
  BY <1>7 DEF CreateForeign, Drain, Collect, RemoveAttachment, AttBecomes
<1>8. CASE Environment
  BY <1>7, <1>8 DEF Environment, CreateWatch
<1>9. ASSUME WatchEvent \/ \E n \in Name : AttachmentEvent(n) PROVE watch' = watch
  BY <1>9 DEF WatchEvent, AttachmentEvent, store
<1>10. ASSUME UNCHANGED vars PROVE watch' = watch
  BY <1>10 DEF vars, store
<1> QED BY <1>4, <1>6, <1>8, <1>9, <1>10 DEF Next

LEMMA WatchTyped ==
  ASSUME AttInv, watch # None
  PROVE  watch \in Watches
BY InParts DEF StoreGood, Maybe

LEMMA SendsOwn ==
  ASSUME AttInv, watch # None, NEW j \in Job, Sends(j)
  PROVE  \/ watch' = None /\ watch.deleting /\ watch.fins \ {j} = {}
         \/ watch' = [watch EXCEPT !.fins = @ \ {j}]
<1>1. [watch EXCEPT !.fins = @ \ {j}].deleting = watch.deleting
      /\ [watch EXCEPT !.fins = @ \ {j}].fins = watch.fins \ {j}
  BY WatchTyped DEF Watches
<1> QED
  BY <1>1 DEF Sends, Stored

(* No step of a controller takes an edit of the watched object back, or the *)
(* finalizer of another controller.                                         *)
THEOREM EditsAreKept == Spec => EditsSurvive
<1>1. ASSUME AttInv, [Next]_vars, watch # None, watch' # None, edits' = edits
      PROVE  /\ Edited(watch') = Edited(watch)
             /\ \E j \in Job : watch'.fins \ {j} = watch.fins \ {j}
  <2>1. CASE watch' = watch
    BY <2>1, AttachmentsAssumption DEF Edited
  <2>2. CASE EditWatch
    <3>1. edits \in Nat /\ edits' = edits + 1
      BY <1>1, <2>2, InParts DEF EditWatch, Edit, BoundsGood
    <3> QED
      BY <1>1, <3>1
  <2>3. ASSUME NEW j \in Job, NEW fins, watch' = [watch EXCEPT !.fins = fins],
               fins \ {j} = watch.fins \ {j}
        PROVE  /\ Edited(watch') = Edited(watch)
               /\ \E k \in Job : watch'.fins \ {k} = watch.fins \ {k}
    <3>1. /\ watch'.ver = watch.ver /\ watch'.matches = watch.matches
          /\ watch'.deleting = watch.deleting /\ watch'.fins = fins
      BY <1>1, <2>3, WatchTyped DEF Watches
    <3> QED
      BY <2>3, <3>1 DEF Edited
  <2>4. ASSUME NEW j \in Job, Adds(j)
        PROVE  /\ Edited(watch') = Edited(watch)
               /\ \E k \in Job : watch'.fins \ {k} = watch.fins \ {k}
    <3>1. watch' = [watch EXCEPT !.fins = watch.fins \union {j}]
      BY <2>4 DEF Adds
    <3> QED
      BY <2>3, <3>1
  <2>5. ASSUME NEW j \in Job, Sends(j)
        PROVE  /\ Edited(watch') = Edited(watch)
               /\ \E k \in Job : watch'.fins \ {k} = watch.fins \ {k}
    <3>1. watch' = [watch EXCEPT !.fins = watch.fins \ {j}]
      BY <1>1, <2>5, SendsOwn
    <3>2. (watch.fins \ {j}) \ {j} = watch.fins \ {j}
      OBVIOUS
    <3> QED
      BY <2>3, <3>1, <3>2
  <2> QED BY <1>1, <2>1, <2>2, <2>4, <2>5, WatchBy
<1>2. ASSUME AttInv, [Next]_vars
      PROVE  [ watch # None /\ watch' # None /\ edits' = edits
               => /\ Edited(watch') = Edited(watch)
                  /\ \E j \in Job : watch'.fins \ {j} = watch.fins \ {j} ]_vars
  BY <1>1, <1>2
<1> QED BY <1>2, Invariant, PTL DEF Spec, EditsSurvive

(* However many controllers attach to an object, one that has listed the    *)
(* attachments as they were lets go of it only when all that it made for it *)
(* is gone.                                                                 *)
THEOREM LeavesNoAttachment == Spec => LeavesNothing
<1>1. ASSUME AttInv, [Next]_vars, NEW j \in Job, sync[j] # None, sync[j].current,
             watch # None, j \in watch.fins, watch' = None \/ j \notin watch'.fins,
             NEW n \in Name, att[n] # None
      PROVE  ~MadeBy(j, watch, att[n])
  <2>0. watch \in Watches
    BY <1>1, WatchTyped
  <2>1. watch' # watch
    BY <1>1
  <2>2. ~EditWatch
    <3> SUFFICES ASSUME EditWatch PROVE FALSE
      OBVIOUS
    <3>1. ASSUME NEW v \in Version, NEW m \in BOOLEAN, NEW d \in BOOLEAN,
                 watch' = ChangedBy(v, m, d)
          PROVE  FALSE
      <4> DEFINE gone == watch.deleting \/ d
                 new == [watch EXCEPT !.ver = v, !.matches = m, !.deleting = gone]
      <4>1. watch' = Stored(new) /\ gone \in BOOLEAN
        BY <3>1 DEF ChangedBy
      <4> HIDE DEF gone
      <4>2. new.fins = watch.fins /\ new \in Watches
        BY <2>0, <4>1 DEF Watches
      <4>3. new # None
        BY <4>2, NoneIsNothing
      <4> HIDE DEF new
      <4>4. watch' = new
        BY <1>1, <4>1, <4>2 DEF Stored
      <4> QED
        BY <1>1, <4>2, <4>3, <4>4, Zenon
    <3>2. watch.ver \in Version /\ watch.matches \in BOOLEAN
      BY <2>0 DEF Watches
    <3>3. CASE \E v \in Version : watch' = ChangedBy(v, watch.matches, FALSE)
      BY <3>1, <3>2, <3>3
    <3>4. CASE watch' = ChangedBy(watch.ver, ~watch.matches, FALSE)
      <4>1. (~watch.matches) \in BOOLEAN
        OBVIOUS
      <4> QED
        BY <3>1, <3>2, <3>4, <4>1
    <3>5. CASE watch' = ChangedBy(watch.ver, watch.matches, TRUE)
      BY <3>1, <3>2, <3>5
    <3> QED
      BY <3>3, <3>4, <3>5 DEF EditWatch, WatchBecomes, WriteWatch
  <2>3. ASSUME NEW k \in Job, Adds(k) PROVE FALSE
    <3>1. watch' = [watch EXCEPT !.fins = watch.fins \union {k}]
      BY <2>3 DEF Adds
    <3>2. watch'.fins = watch.fins \union {k} /\ watch' \in Watches
      BY <2>0, <3>1 DEF Watches
    <3> QED
      BY <1>1, <3>2, NoneIsNothing
  <2>4. ASSUME NEW k \in Job, Sends(k) PROVE k = j
    <3> SUFFICES ASSUME k # j PROVE FALSE
      OBVIOUS
    <3>1. watch' = [watch EXCEPT !.fins = watch.fins \ {k}]
      BY <1>1, <2>4, SendsOwn
    <3>2. watch'.fins = watch.fins \ {k} /\ watch' \in Watches
      BY <2>0, <3>1 DEF Watches
    <3> QED
      BY <1>1, <3>2, NoneIsNothing
  <2>5. Sends(j)
    BY <1>1, <2>1, <2>2, <2>3, <2>4, WatchBy
  <2>6. sync[j].uid = watch.uid
    BY <1>1, <2>5, PutIsCurrent DEF Sends
  <2>7. ~MadeBy(j, sync[j], att[n])
    BY <1>1 DEF AttInv, Good, NothingLeft
  <2> QED
    BY <2>6, <2>7 DEF MadeBy
<1>2. ASSUME AttInv, [Next]_vars
      PROVE  [ \A j \in Job :
                 /\ sync[j] # None /\ sync[j].current /\ watch # None /\ j \in watch.fins
                 /\ watch' = None \/ j \notin watch'.fins
                 => \A n \in Name : att[n] # None => ~MadeBy(j, watch, att[n]) ]_vars
  BY <1>1, <1>2
<1> QED BY <1>2, Invariant, PTL DEF Spec, LeavesNothing
================================================================================
