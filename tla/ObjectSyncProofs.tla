-------------------------- MODULE ObjectSyncProofs --------------------------
(***************************************************************************)
(* Proofs about ObjectSync, for any number of guests, objects and UIDs.    *)
(*                                                                         *)
(* The invariant says of each member by itself that its maps agree with    *)
(* each other and with its editor (Good), and types the queues: a packet   *)
(* carries a UID and a value, and nothing more is needed of it, because a  *)
(* handler that gets any such packet keeps the maps of its member          *)
(* consistent.  So the lemmas are about one member's operations, and the   *)
(* steps of the session follow by SoundUpdate.                             *)
(*                                                                         *)
(* Then, generateUID never repeats a UID that anyone knows, and the host's *)
(* maps are exact.  Both are about what is in flight.  A UID that no       *)
(* member knows and no packet names (Unheard) stays so unless its creator  *)
(* gives it out, since a handler learns no UID but those of its packet.    *)
(* So an OBJECT_ADD on its way to the host is the only one for its UID,    *)
(* the UID is new there, and the host never makes a second object for a    *)
(* UID it has.                                                             *)
(*                                                                         *)
(* Last, a guest and the host keep in step.  What there is to see of one   *)
(* UID at one guest is a record: the host's copy and the guest's, the two  *)
(* queues, where the guest is, and what the ghosts say (View).  Each step  *)
(* of the session moves the record in one of nine ways (Moves), and each   *)
(* way keeps the differences between the two copies explained by the       *)
(* queues and the ghosts (Explained).  Only another guest's packet needs   *)
(* more: that no OBJECT_ADD is on its way to the host for a UID that the   *)
(* host has something to say about (AddsUnsaid).                           *)
(***************************************************************************)
EXTENDS ObjectSync, TLAPS

\* The maps of one member are consistent: a tracked object is live and
\* carries the UID it is tracked under.
MapsAgree(e) ==
    \A u \in Uid : e.synced[u] # NoObj =>
        e.o2u[e.synced[u]] = u /\ e.val[e.synced[u]] # NoVal

Good(e) == e \in EditorState /\ MapsAgree(e)

\* No UID of e names o.
Unnamed(e, o) == \A u \in Uid : e.synced[u] # o

-----------------------------------------------------------------------------
(* The maps and the editor of one member                                   *)

\* trackObject on a live object that no UID names keeps the maps consistent.
LEMMA TrackGood ==
    ASSUME NEW e, Good(e), NEW u \in Uid, NEW o \in Obj,
           e.val[o] # NoVal, Unnamed(e, o)
    PROVE  Good(trackObject(e, u, o))
<1> USE ConstantsAssumption
<1>1. trackObject(e, u, o) \in EditorState
  BY DEF Good, EditorState, trackObject
<1>2. MapsAgree(trackObject(e, u, o))
  BY DEF Good, EditorState, MapsAgree, trackObject, Unnamed
<1> QED BY <1>1, <1>2 DEF Good

\* untrackObject keeps the maps consistent, and the UID names nothing after.
LEMMA UntrackGood ==
    ASSUME NEW e, Good(e), NEW u \in Uid
    PROVE  /\ Good(untrackObject(e, u))
           /\ untrackObject(e, u).val = e.val
           /\ e.synced[u] # NoObj => Unnamed(untrackObject(e, u), e.synced[u])
<1> USE ConstantsAssumption
<1>1. CASE e.synced[u] = NoObj
  BY <1>1 DEF untrackObject
<1>2. CASE e.synced[u] # NoObj
  <2>1. untrackObject(e, u) \in EditorState
    BY <1>2 DEF Good, EditorState, untrackObject
  <2>2. MapsAgree(untrackObject(e, u))
    BY <1>2 DEF Good, EditorState, MapsAgree, untrackObject
  <2>3. Unnamed(untrackObject(e, u), e.synced[u])
    BY <1>2 DEF Good, EditorState, MapsAgree, untrackObject, Unnamed
  <2> QED BY <1>2, <2>1, <2>2, <2>3 DEF Good, EditorState, untrackObject
<1> QED BY <1>1, <1>2

\* An object that carries u is unnamed once u is untracked.
LEMMA UntrackUnnames ==
    ASSUME NEW e, Good(e), NEW o \in Obj, e.o2u[o] \in Uid
    PROVE  Unnamed(untrackObject(e, e.o2u[o]), o)
BY ConstantsAssumption DEF Good, EditorState, MapsAgree, untrackObject, Unnamed

\* A freshly created object is named by no UID.
LEMMA FreshUnnamed ==
    ASSUME NEW e, Good(e), NEW o \in Fresh(e)
    PROVE  o \in Obj /\ e.val[o] = NoVal /\ Unnamed(e, o)
BY ConstantsAssumption DEF Good, EditorState, MapsAgree, Fresh, Live, Unnamed

\* Creating an object, or giving it another value, keeps the maps consistent.
LEMMA SetValueGood ==
    ASSUME NEW e, Good(e), NEW o \in Obj, NEW v \in Val
    PROVE  /\ Good(setValue(e, o, v))
           /\ setValue(e, o, v).val[o] # NoVal
           /\ setValue(e, o, v).synced = e.synced
           /\ setValue(e, o, v).next = e.next
BY ConstantsAssumption DEF Good, EditorState, MapsAgree, setValue

\* Removing an object no UID names keeps the maps consistent.
LEMMA EraseGood ==
    ASSUME NEW e, Good(e), NEW o \in Obj, Unnamed(e, o)
    PROVE  Good(setValue(e, o, NoVal))
BY ConstantsAssumption DEF Good, EditorState, MapsAgree, setValue, Unnamed

\* The owner is no concern of the maps.
LEMMA SetOwnerGood ==
    ASSUME NEW e, Good(e), NEW u \in Uid, NEW m \in Members
    PROVE  Good(setOwner(e, u, m))
BY ConstantsAssumption DEF Good, EditorState, MapsAgree, setOwner

\* numberObjects on live objects without a UID keeps the maps consistent.
LEMMA NumberGood ==
    ASSUME NEW e, Good(e), NEW m \in Members, NEW last \in 0 .. MaxUid,
           NEW ids \in SUBSET (0 .. (MaxUid - 1)),
           NEW new \in SUBSET Live(e), \A o \in new : ~isTrackedObject(e, o),
           NEW num \in Injection(new, ids),
           NEW t, t = numberObjects(e, m, num, last)
    PROVE  /\ Good(t)
           /\ t.val = e.val
           /\ \A o \in Obj : o \in new => t.o2u[o] \in Uid
           /\ \A o \in Obj : o \notin new => t.o2u[o] = e.o2u[o]
<1> USE ConstantsAssumption
<1> DEFINE S == [u \in Uid |-> IF \E o \in new : u = <<m, num[o]>>
                               THEN CHOOSE o \in new : u = <<m, num[o]>>
                               ELSE e.synced[u]]
           O == [o \in Obj |-> IF o \in new THEN <<m, num[o]>> ELSE e.o2u[o]]
<1>2. num \in [new -> ids]
  BY DEF Injection
<1>3. \A a, b \in new : a # b => num[a] # num[b]
  BY <1>2 DEF Injection, IsInjective
<1>4. \A o \in new : <<m, num[o]>> \in Uid
  BY <1>2 DEF Uid
<1>5. DOMAIN num = new
  BY <1>2
<1>e. e = [val |-> e.val, synced |-> e.synced, o2u |-> e.o2u,
           owner |-> e.owner, next |-> e.next]
  BY DEF Good, EditorState
<1>t. t = [e EXCEPT !.synced = S, !.o2u = O, !.next = last]
  BY <1>5, Zenon DEF numberObjects
<1> HIDE DEF S, O
<1>6. /\ t.synced = S /\ t.o2u = O /\ t.next = last
      /\ t.val = e.val /\ t.owner = e.owner
      /\ t = [val |-> t.val, synced |-> t.synced, o2u |-> t.o2u,
              owner |-> t.owner, next |-> t.next]
  BY <1>e, <1>t
<1> USE DEF S, O
<1>7. new \subseteq Obj /\ \A o \in new : e.val[o] # NoVal /\ e.o2u[o] = NoUid
  BY DEF Live, isTrackedObject
<1>8. \A u \in Uid : \/ \E o \in new : u = <<m, num[o]>> /\ S[u] = o
                     \/ S[u] = e.synced[u]
  OBVIOUS
<1>9. S \in [Uid -> Obj \cup {NoObj}] /\ O \in [Obj -> Uid \cup {NoUid}]
  BY <1>4, <1>7, <1>8 DEF Good, EditorState
<1>10. t \in EditorState
  BY <1>6, <1>9 DEF Good, EditorState
<1>11. ASSUME NEW u \in Uid, t.synced[u] # NoObj
       PROVE  t.o2u[t.synced[u]] = u /\ t.val[t.synced[u]] # NoVal
  <2>1. CASE \E o \in new : u = <<m, num[o]>> /\ S[u] = o
    BY <2>1, <1>6, <1>7
  <2>2. CASE S[u] = e.synced[u]
    <3>1. e.synced[u] \in Obj /\ e.o2u[e.synced[u]] = u /\ e.val[e.synced[u]] # NoVal
      BY <2>2, <1>6, <1>11 DEF Good, EditorState, MapsAgree
    <3>2. e.synced[u] \notin new
      BY <3>1, <1>7
    <3> QED BY <2>2, <3>1, <3>2, <1>6
  <2> QED BY <2>1, <2>2, <1>8, <1>6
<1>12. \A o \in Obj : o \in new => t.o2u[o] \in Uid
  BY <1>4, <1>6
<1>13. \A o \in Obj : o \notin new => t.o2u[o] = e.o2u[o]
  BY <1>6
<1>14. Good(t)
  BY <1>10, <1>11 DEF Good, MapsAgree
<1> QED BY <1>6, <1>12, <1>13, <1>14

\* trackExistingObjects keeps the maps consistent and leaves every live
\* object tracked.
LEMMA TrackExistingGood ==
    ASSUME NEW e, Good(e), NEW m \in Members,
           NEW t \in trackExistingObjects(e, m)
    PROVE  /\ Good(t)
           /\ t.val = e.val
           /\ \A o \in Live(t) : t.o2u[o] \in Uid
<1> DEFINE new == {o \in Live(e) : ~isTrackedObject(e, o)}
<1>1. PICK last \in e.next .. MaxUid :
         \E num \in Bijection(new, e.next .. (last - 1)) :
            t = numberObjects(e, m, num, last)
  BY DEF trackExistingObjects
<1>2. PICK num \in Bijection(new, e.next .. (last - 1)) :
         t = numberObjects(e, m, num, last)
  BY <1>1
<1> DEFINE ids == e.next .. (last - 1)
<1>3. num \in Injection(new, ids)
  BY DEF Bijection
<1>c. ids \in SUBSET (0 .. (MaxUid - 1)) /\ last \in 0 .. MaxUid
  BY ConstantsAssumption DEF Good, EditorState
<1>a. new \in SUBSET Live(e) /\ \A o \in new : ~isTrackedObject(e, o)
  OBVIOUS
<1>b. \A o \in Live(e) : o \notin new => isTrackedObject(e, o)
  OBVIOUS
<1> HIDE DEF new, ids
<1>4. /\ Good(t)
      /\ t.val = e.val
      /\ \A o \in Obj : o \in new => t.o2u[o] \in Uid
      /\ \A o \in Obj : o \notin new => t.o2u[o] = e.o2u[o]
  BY <1>2, <1>3, <1>a, <1>c, NumberGood
<1>5. \A o \in Live(t) : t.o2u[o] \in Uid
  BY <1>4, <1>b DEF Live, isTrackedObject, Good, EditorState
<1> QED BY <1>4, <1>5

-----------------------------------------------------------------------------
(* The hooks                                                               *)

\* The packet of a value the editor has is a string packet.
LEMMA ModifiedGood ==
    ASSUME NEW e, Good(e), NEW o \in Live(e)
    PROVE  onLocalObjectModified(e, o) \in Seq(ObjectPacket)
<1>1. CASE isTrackedObject(e, o)
  <2>1. [type |-> "OBJECT_UPDATE", uid |-> e.o2u[o], val |-> e.val[o]] \in ObjectPacket
    BY <1>1 DEF isTrackedObject, Live, Good, EditorState, ObjectPacket, StringPacket
  <2> QED BY <2>1, <1>1 DEF onLocalObjectModified
<1>2. CASE ~isTrackedObject(e, o)
  BY <1>2 DEF onLocalObjectModified
<1> QED BY <1>1, <1>2

\* A local addition keeps the maps consistent.
LEMMA LocalAddGood ==
    ASSUME NEW e, Good(e), NEW m \in Members, NEW o \in Fresh(e), NEW v \in Val,
           e.next < MaxUid,
           NEW r, r = addSpecial(e, m, o, v, "user")
    PROVE  Good(r.ed) /\ r.out \in Seq(ObjectPacket)
<1> DEFINE made == setValue(e, o, v)
           counted == [made EXCEPT !.next = @ + 1]
           u == <<m, made.next>>
           tracked == trackObject(counted, u, o)
<1>1. /\ r.ed = setOwner(tracked, u, m)
      /\ r.out = <<[type |-> "OBJECT_ADD", uid |-> u, val |-> made.val[o]]>>
  BY DEF addSpecial, onLocalObjectAdded, Result
<1>2. Good(made) /\ made.val[o] # NoVal /\ made.next = e.next /\ Unnamed(made, o)
      /\ o \in Obj
  BY FreshUnnamed, SetValueGood DEF Unnamed
<1>3. u \in Uid /\ made.next + 1 \in 0 .. MaxUid
  BY ConstantsAssumption, <1>2 DEF Good, EditorState, Uid
<1>4. made.val[o] \in Val
  BY ConstantsAssumption, <1>2 DEF Good, EditorState
<1> HIDE DEF made, u
<1>5. Good(counted) /\ counted.val[o] # NoVal /\ Unnamed(counted, o)
  BY ConstantsAssumption, <1>2, <1>3 DEF Good, EditorState, MapsAgree, Unnamed
<1> HIDE DEF counted
<1>6. Good(tracked)
  BY <1>2, <1>3, <1>5, TrackGood
<1>7. Good(r.ed)
  BY <1>1, <1>3, <1>6, SetOwnerGood
<1>8. [type |-> "OBJECT_ADD", uid |-> u, val |-> made.val[o]] \in ObjectPacket
  BY <1>3, <1>4 DEF ObjectPacket, StringPacket
<1>9. <<[type |-> "OBJECT_ADD", uid |-> u, val |-> made.val[o]]>> \in Seq(ObjectPacket)
  BY <1>8
<1>10. r.out \in Seq(ObjectPacket)
  BY <1>1, <1>9
<1> QED BY <1>7, <1>10

\* A removal, local or remote, keeps the maps consistent; the remote one
\* must be of an object that no UID names any more.
LEMMA LocalRemoveGood ==
    ASSUME NEW e, Good(e), NEW o \in Obj,
           NEW r, r = removeObject(e, o, "user")
    PROVE  Good(r.ed) /\ r.out \in Seq(ObjectPacket)
<1>1. CASE isTrackedObject(e, o)
  <2> DEFINE u == e.o2u[o]
  <2>1. u \in Uid
    BY ConstantsAssumption, <1>1 DEF isTrackedObject, Good, EditorState
  <2>2. /\ r.ed = setValue(untrackObject(e, u), o, NoVal)
        /\ r.out = <<[type |-> "OBJECT_DELETE", uid |-> u]>>
    BY <1>1 DEF removeObject, onLocalObjectDestroyed, Result
  <2>3. Good(untrackObject(e, u)) /\ Unnamed(untrackObject(e, u), o)
    BY <2>1, UntrackGood, UntrackUnnames
  <2> HIDE DEF u
  <2>4. Good(r.ed)
    BY <2>2, <2>3, EraseGood
  <2>5. [type |-> "OBJECT_DELETE", uid |-> u] \in ObjectPacket
    BY <2>1 DEF ObjectPacket, DeletePacket
  <2>6. <<[type |-> "OBJECT_DELETE", uid |-> u]>> \in Seq(ObjectPacket)
    BY <2>5
  <2>7. r.out \in Seq(ObjectPacket)
    BY <2>2, <2>6
  <2> QED BY <2>4, <2>7
<1>2. CASE ~isTrackedObject(e, o)
  <2>1. r.ed = setValue(e, o, NoVal) /\ r.out = <<>>
    BY <1>2 DEF removeObject, Result
  <2>2. Unnamed(e, o)
    BY ConstantsAssumption, <1>2 DEF isTrackedObject, Good, MapsAgree, EditorState, Unnamed
  <2>3. Good(r.ed)
    BY <2>1, <2>2, EraseGood
  <2>4. <<>> \in Seq(ObjectPacket)
    OBVIOUS
  <2>5. r.out \in Seq(ObjectPacket)
    BY <2>1, <2>4
  <2> QED BY <2>3, <2>5
<1> QED BY <1>1, <1>2

-----------------------------------------------------------------------------
(* The handlers                                                            *)

\* What every handler does: consistent maps, and nothing to send.
Kept(R) == \A r \in R : Good(r.ed) /\ r.out = <<>>

\* Recreating an object for a UID that names nothing keeps the maps consistent.
LEMMA RecreateGood ==
    ASSUME NEW e, Good(e), NEW m \in Members, NEW from \in Members,
           NEW p \in StringPacket
    PROVE  Kept(Recreate(e, m, from, p))
<1>0. p.uid \in Uid /\ p.val \in Val
  BY DEF StringPacket
<1>1. ASSUME NEW o \in Fresh(e)
      PROVE  LET r == addSpecial(e, m, o, p.val, "packet") IN
             /\ Good(setOwner(trackObject(r.ed, p.uid, o), p.uid, from))
             /\ r.out = <<>>
  <2> DEFINE made == setValue(e, o, p.val)
  <2>1. addSpecial(e, m, o, p.val, "packet") = [ed |-> made, out |-> <<>>]
    BY DEF addSpecial, Result
  <2>2. Good(made) /\ made.val[o] # NoVal /\ Unnamed(made, o) /\ o \in Obj
    BY <1>0, FreshUnnamed, SetValueGood DEF Unnamed
  <2> HIDE DEF made
  <2>3. Good(trackObject(made, p.uid, o))
    BY <1>0, <2>2, TrackGood
  <2>4. Good(setOwner(trackObject(made, p.uid, o), p.uid, from))
    BY <1>0, <2>3, SetOwnerGood
  <2> QED BY <2>1, <2>4
<1>2. ASSUME NEW r \in Recreate(e, m, from, p)
      PROVE  Good(r.ed) /\ r.out = <<>>
  <2>1. CASE r = Result(e, <<>>)
    BY <2>1 DEF Result
  <2>2. ASSUME NEW o \in Fresh(e),
               r = LET a == addSpecial(e, m, o, p.val, "packet") IN
                   Result(setOwner(trackObject(a.ed, p.uid, o), p.uid, from), a.out)
        PROVE  Good(r.ed) /\ r.out = <<>>
    BY <1>1, <2>2 DEF Result
  <2> QED BY <2>1, <2>2 DEF Recreate
<1> QED BY <1>2 DEF Kept

\* A deletion untracks the UID before the object goes, so the maps stay consistent.
LEMMA DestroyedGood ==
    ASSUME NEW e, Good(e), NEW p \in DeletePacket
    PROVE  Kept(onRemoteObjectDestroyed(e, p))
<1> USE ConstantsAssumption
<1>0. p.uid \in Uid
  BY DEF DeletePacket
<1>1. CASE e.synced[p.uid] = NoObj
  BY <1>1 DEF onRemoteObjectDestroyed, Result, Kept
<1>2. CASE e.synced[p.uid] # NoObj
  <2> DEFINE o == e.synced[p.uid]
             t == untrackObject(e, p.uid)
  <2>1. o \in Obj /\ o \in Live(e)
    BY <1>0, <1>2 DEF Good, EditorState, MapsAgree, Live
  <2>2. Good(t) /\ Unnamed(t, o)
    BY <1>0, <1>2, UntrackGood
  <2>3. onRemoteObjectDestroyed(e, p) = {removeObject(t, o, "packet")}
    BY <1>2, <2>1 DEF onRemoteObjectDestroyed
  <2> HIDE DEF o, t
  <2>4. removeObject(t, o, "packet").ed = setValue(t, o, NoVal)
        /\ removeObject(t, o, "packet").out = <<>>
    BY DEF removeObject, Result
  <2>5. Good(setValue(t, o, NoVal))
    BY <2>1, <2>2, EraseGood
  <2> QED BY <2>3, <2>4, <2>5 DEF Kept
<1> QED BY <1>1, <1>2

\* An update untracks the UID between removing and recreating its object.
LEMMA ModifiedHandled ==
    ASSUME NEW e, Good(e), NEW m \in Members, NEW from \in Members,
           NEW p \in StringPacket
    PROVE  Kept(onRemoteObjectModified(e, m, from, p))
<1>0. p.uid \in Uid
  BY DEF StringPacket
<1>1. CASE e.synced[p.uid] = NoObj
  BY <1>1 DEF onRemoteObjectModified, Result, Kept
<1>2. CASE e.synced[p.uid] # NoObj
  <2> DEFINE old == e.synced[p.uid]
             erased == setValue(e, old, NoVal)
             t == untrackObject(erased, p.uid)
  <2>1. old \in Obj /\ e.o2u[old] = p.uid
    BY ConstantsAssumption, <1>0, <1>2 DEF Good, EditorState, MapsAgree
  <2>2. /\ removeObject(e, old, "packet").ed = erased
        /\ removeObject(e, old, "packet").out = <<>>
    BY DEF removeObject, Result
  <2>3. t = setValue(untrackObject(e, p.uid), old, NoVal)
    BY ConstantsAssumption, <1>0, <1>2, <2>1
       DEF Good, EditorState, untrackObject, setValue
  <2>4. Good(t)
    BY <1>0, <1>2, <2>1, <2>3, UntrackGood, EraseGood
  <2>5. onRemoteObjectModified(e, m, from, p) =
          {Result(r.ed, <<>> \o r.out) : r \in Recreate(t, m, from, p)}
    BY <1>2, <2>2 DEF onRemoteObjectModified
  <2> HIDE DEF t
  <2>6. Kept(Recreate(t, m, from, p))
    BY <2>4, RecreateGood
  <2>7. <<>> \o <<>> = <<>>
    OBVIOUS
  <2>8. ASSUME NEW r \in Recreate(t, m, from, p)
        PROVE  Good(Result(r.ed, <<>> \o r.out).ed) /\ Result(r.ed, <<>> \o r.out).out = <<>>
    BY <2>6, <2>7 DEF Kept, Result
  <2> QED BY <2>5, <2>8 DEF Kept
<1> QED BY <1>1, <1>2

\* A batch gives each of its UIDs a new object of its own.
LEMMA BatchedHandled ==
    ASSUME NEW e, Good(e), NEW from \in Members, NEW p \in BatchPacket
    PROVE  Kept(onRemoteObjectsBatched(e, from, p))
<1> DEFINE objs == p.objs
<1>1. PICK uids \in SUBSET Uid : objs \in [uids -> Val]
  BY DEF BatchPacket
<1> SUFFICES ASSUME NEW at \in Injection(uids, Fresh(e))
             PROVE  Good(placeObjects(e, from, objs, at))
  BY <1>1 DEF onRemoteObjectsBatched, Kept, Result
<1> HIDE DEF objs
<1> DEFINE uidAt(o) == CHOOSE u \in DOMAIN at : at[u] = o
           placed == {o \in Obj : \E u \in DOMAIN at : at[u] = o}
           V == [o \in Obj |-> IF o \in placed THEN objs[uidAt(o)] ELSE e.val[o]]
           S == [u \in Uid |-> IF u \in DOMAIN at THEN at[u] ELSE e.synced[u]]
           O == [o \in Obj |-> IF o \in placed THEN uidAt(o) ELSE e.o2u[o]]
           W == [u \in Uid |-> IF u \in DOMAIN at THEN from ELSE e.owner[u]]
           t == placeObjects(e, from, objs, at)
<1>2. at \in [uids -> Fresh(e)] /\ DOMAIN at = uids
  BY DEF Injection
<1>3. \A u, w \in uids : u # w => at[u] # at[w]
  BY <1>2 DEF Injection, IsInjective
<1>4. t = [val |-> V, synced |-> S, o2u |-> O, owner |-> W, next |-> e.next]
  <2>1. t = [e EXCEPT !.val = V, !.synced = S, !.o2u = O, !.owner = W]
    BY DEF placeObjects
  <2> HIDE DEF t, V, S, O, W
  <2>2. e = [val |-> e.val, synced |-> e.synced, o2u |-> e.o2u,
             owner |-> e.owner, next |-> e.next]
    BY DEF Good, EditorState
  <2> QED BY <2>1, <2>2
<1> HIDE DEF t
<1>5. \A u \in uids : at[u] \in placed /\ uidAt(at[u]) = u
  BY <1>2, <1>3 DEF Fresh
<1>6. \A o \in placed : uidAt(o) \in uids /\ at[uidAt(o)] = o
  BY <1>2
<1>7. \A o \in placed : o \in Obj /\ Unnamed(e, o)
  BY <1>2, FreshUnnamed
<1> HIDE DEF uidAt, placed
<1>8. t \in EditorState
  <2>1. V \in [Obj -> Val \cup {NoVal}]
    BY <1>1, <1>6 DEF Good, EditorState
  <2>2. S \in [Uid -> Obj \cup {NoObj}]
    BY <1>2 DEF Good, EditorState, Fresh
  <2>3. O \in [Obj -> Uid \cup {NoUid}]
    BY <1>1, <1>6 DEF Good, EditorState
  <2>4. W \in [Uid -> Members \cup {Nobody}]
    BY DEF Good, EditorState
  <2> QED BY <1>4, <2>1, <2>2, <2>3, <2>4 DEF Good, EditorState
<1>9. ASSUME NEW u \in Uid, t.synced[u] # NoObj
      PROVE  t.o2u[t.synced[u]] = u /\ t.val[t.synced[u]] # NoVal
  <2>1. CASE u \in uids
    <3>1. t.synced[u] = at[u] /\ at[u] \in Obj
      BY <2>1, <1>2, <1>4 DEF Fresh
    <3>2. t.o2u[at[u]] = u
      BY <2>1, <3>1, <1>4, <1>5
    <3>3. t.val[at[u]] = objs[u]
      BY <2>1, <3>1, <1>4, <1>5
    <3> QED BY ConstantsAssumption, <2>1, <3>1, <3>2, <3>3, <1>1
  <2>2. CASE u \notin uids
    <3>1. /\ t.synced[u] = e.synced[u] /\ e.synced[u] \in Obj
          /\ e.o2u[e.synced[u]] = u /\ e.val[e.synced[u]] # NoVal
      BY <2>2, <1>2, <1>4, <1>9 DEF Good, EditorState, MapsAgree
    <3>2. e.synced[u] \notin placed
      BY <1>7 DEF Unnamed
    <3> QED BY <3>1, <3>2, <1>4
  <2> QED BY <2>1, <2>2
<1> QED BY <1>8, <1>9 DEF Good, MapsAgree, t

\* Every handler leaves consistent maps and sends nothing.
LEMMA HandlePacketGood ==
    ASSUME NEW e, Good(e), NEW m \in Members, NEW from \in Members,
           NEW p \in ObjectPacket
    PROVE  Kept(handlePacket(e, m, from, p))
<1>1. CASE p.type = "OBJECT_ADD"
  <2>1. p \in StringPacket
    BY <1>1 DEF ObjectPacket, DeletePacket, BatchPacket
  <2> QED BY <1>1, <2>1, RecreateGood DEF handlePacket, onRemoteObjectAdded
<1>2. CASE p.type = "OBJECT_DELETE"
  <2>1. p \in DeletePacket
    BY <1>2 DEF ObjectPacket, StringPacket, BatchPacket
  <2> QED BY <1>2, <2>1, DestroyedGood DEF handlePacket
<1>3. CASE p.type = "OBJECT_UPDATE"
  <2>1. p \in StringPacket
    BY <1>3 DEF ObjectPacket, DeletePacket, BatchPacket
  <2> QED BY <1>3, <2>1, ModifiedHandled DEF handlePacket
<1>4. CASE p.type = "OBJECT_BATCH"
  <2>1. p \in BatchPacket
    BY <1>4 DEF ObjectPacket, DeletePacket, StringPacket
  <2> QED BY <1>4, <2>1, BatchedHandled DEF handlePacket
<1> QED BY <1>1, <1>2, <1>3, <1>4
        DEF ObjectPacket, StringPacket, DeletePacket, BatchPacket

-----------------------------------------------------------------------------
(* The full state                                                          *)

\* A full state is made of batches of live objects under their UIDs.
LEMMA BatchesGood ==
    ASSUME NEW e, Good(e), \A o \in Live(e) : e.o2u[o] \in Uid,
           NEW b \in Batches(e)
    PROVE  b \in Seq(ObjectPacket)
<1> DEFINE all == {e.o2u[o] : o \in Live(e)}
<1>1. PICK c \in Cuts(all) : b = [i \in DOMAIN c |-> batchOf(e, c[i])]
  BY DEF Batches
<1> HIDE DEF all
<1>2. PICK n \in Nat : c \in [1 .. n -> SUBSET all]
  BY DEF Cuts
<1> USE DEF all
<1>3. ASSUME NEW i \in 1 .. n
      PROVE  batchOf(e, c[i]) \in ObjectPacket
  <2>1. c[i] \in SUBSET all
    BY <1>2
  <2>2. c[i] \in SUBSET Uid
    BY <2>1
  <2>3. \A u \in c[i] : e.val[CHOOSE o \in Live(e) : e.o2u[o] = u] \in Val
    BY <2>1 DEF Live, Good, EditorState
  <2>4. [u \in c[i] |-> e.val[CHOOSE o \in Live(e) : e.o2u[o] = u]] \in [c[i] -> Val]
    BY <2>3
  <2> QED BY <2>2, <2>4 DEF batchOf, ObjectPacket, BatchPacket
<1>4. b \in [1 .. n -> ObjectPacket]
  BY <1>1, <1>2, <1>3
<1> QED BY <1>2, <1>4

\* sendFullState keeps the host's maps consistent and sends object packets.
LEMMA FullStateGood ==
    ASSUME NEW e, Good(e), Host \in Members, NEW r \in sendFullState(e)
    PROVE  Good(r.ed) /\ r.out \in Seq(ObjectPacket)
<1>1. PICK t \in trackExistingObjects(e, Host) :
         \E b \in Batches(t) : r = Result(t, b)
  BY DEF sendFullState
<1>2. PICK b \in Batches(t) : r = Result(t, b)
  BY <1>1
<1>3. Good(t) /\ \A o \in Live(t) : t.o2u[o] \in Uid
  BY TrackExistingGood
<1>4. b \in Seq(ObjectPacket)
  BY <1>3, BatchesGood
<1>5. r.ed = t /\ r.out = b
  BY <1>2 DEF Result
<1> QED BY <1>3, <1>4, <1>5

-----------------------------------------------------------------------------
(* The inductive invariant                                                 *)

Sound(eds) == eds \in [Members -> EditorState] /\ \A m \in Members : MapsAgree(eds[m])

SentByGuests == ObjectPacket \cup ControlPacket

IInv ==
    /\ Sound(ed)
    /\ phase \in [Members -> Phases]
    /\ timer \in [Guests -> BOOLEAN]
    /\ connected \in SUBSET Guests
    /\ up \in [Guests -> Seq(SentByGuests)]
    /\ down \in [Guests -> Seq(ObjectPacket)]

\* In a sound session every member's maps are consistent.
LEMMA SoundGood ==
    ASSUME NEW eds, Sound(eds), NEW m \in Members
    PROVE  Good(eds[m])
BY DEF Sound, Good

\* A step that changes one member's editor need only be looked at there.
LEMMA SoundUpdate ==
    ASSUME NEW eds, Sound(eds), NEW m \in Members, NEW e, Good(e)
    PROVE  Sound([eds EXCEPT ![m] = e])
BY DEF Sound, Good

\* clearAll leaves consistent maps.
LEMMA EmptiedGood == Good(Emptied)
BY ConstantsAssumption DEF Good, EditorState, MapsAgree, Emptied

\* Sending object packets keeps the types of the queues.
LEMMA QueueTypes ==
    ASSUME NEW q \in Seq(SentByGuests), NEW d \in Seq(ObjectPacket),
           NEW s \in Seq(ObjectPacket)
    PROVE  /\ q \o s \in Seq(SentByGuests)
           /\ d \o s \in Seq(ObjectPacket)
<1>1. ObjectPacket \subseteq SentByGuests
  BY DEF SentByGuests
<1>2. s \in Seq(SentByGuests)
  BY <1>1
<1> QED BY <1>2

\* sendPacket keeps the types of the queues in both directions.
LEMMA SendPacketTypes ==
    ASSUME IInv, NEW m \in Members, NEW s \in Seq(ObjectPacket), sendPacket(m, s)
    PROVE  /\ up' \in [Guests -> Seq(SentByGuests)]
           /\ down' \in [Guests -> Seq(ObjectPacket)]
<1>1. CASE m = Host
  <2>1. down' = Broadcast(s) /\ up' = up
    BY <1>1 DEF sendPacket
  <2> QED BY <2>1, QueueTypes DEF IInv, Broadcast
<1>2. CASE m # Host
  <2>1. m \in Guests
    BY <1>2 DEF Members
  <2>2. up' = [up EXCEPT ![m] = up[m] \o s] /\ down' = down
    BY <1>2 DEF sendPacket
  <2>3. up[m] \in Seq(SentByGuests)
    BY <2>1 DEF IInv
  <2>4. up[m] \o s \in Seq(SentByGuests)
    BY <2>3, QueueTypes DEF IInv
  <2> QED BY <2>1, <2>2, <2>4 DEF IInv
<1> QED BY <1>1, <1>2

\* What the ghosts are.
GhostTypes == {missed, strays, apart} \subseteq [Guests -> SUBSET Uid]

\* The type invariant and the two map invariants follow from IInv.
LEMMA IInvImplies == IInv => (GhostTypes => TypeOK) /\ SyncedInverse /\ SyncedLive
<1> SUFFICES ASSUME IInv PROVE (GhostTypes => TypeOK) /\ SyncedInverse /\ SyncedLive
  OBVIOUS
<1>1. GhostTypes => TypeOK
  BY DEF IInv, GhostTypes, TypeOK, Sound, SentByGuests
<1>2. SyncedInverse
  BY DEF IInv, SyncedInverse, Sound, MapsAgree, Tracked
<1>3. SyncedLive
  BY ConstantsAssumption DEF IInv, SyncedLive, Sound, MapsAgree, Tracked, Live, EditorState
<1> QED BY <1>1, <1>2, <1>3

\* The invariant holds before anyone hosts or joins.
LEMMA InitIInv == Init => IInv
<1> SUFFICES ASSUME Init PROVE IInv
  OBVIOUS
<1>1. PICK level \in [Obj -> Val \cup {NoVal}] :
         ed = [m \in Members |-> IF m = Host THEN [Emptied EXCEPT !.val = level]
                                            ELSE Emptied]
  BY DEF Init
<1>2. Good([Emptied EXCEPT !.val = level])
  BY ConstantsAssumption DEF Good, EditorState, MapsAgree, Emptied
<1>3. Sound(ed)
  BY <1>1, <1>2, EmptiedGood DEF Sound, Good
<1> QED BY <1>3 DEF Init, IInv, Phases, SentByGuests

\* A session step keeps the invariant.
LEMMA SessionIInv ==
    ASSUME IInv, NEW g \in Guests,
           Join(g) \/ EndTransition(g) \/ requestFullState(g)
    PROVE  IInv'
<1>0. g \in Members
  BY DEF Members
<1>1. ASSUME NEW t \in {"CONNECT", "REQUEST_FULL_STATE", "DISCONNECT"}
      PROVE  [type |-> t] \in SentByGuests
  BY DEF SentByGuests, ControlPacket
<1>2. CASE Join(g)
  <2>1. <<[type |-> "CONNECT"]>> \in Seq(SentByGuests)
    BY <1>1
  <2> QED BY <1>0, <1>2, <2>1 DEF Join, IInv, Phases
<1>3. CASE EndTransition(g)
  BY <1>0, <1>3 DEF EndTransition, IInv, Phases
<1>4. CASE requestFullState(g)
  <2>1. Append(up[g], [type |-> "REQUEST_FULL_STATE"]) \in Seq(SentByGuests)
    BY <1>1 DEF IInv
  <2> QED BY <1>0, <1>4, <2>1 DEF requestFullState, IInv, Phases
<1> QED BY <1>2, <1>3, <1>4

\* Ending a session keeps the invariant.
LEMMA EndIInv ==
    ASSUME IInv, NEW g \in Guests, Leave(g) \/ LoseHost(g)
    PROVE  IInv'
<1>0. g \in Members
  BY DEF Members
<1>1. ASSUME NEW n \in 0 .. Len(up[g])
      PROVE  Append(SubSeq(up[g], 1, n), [type |-> "DISCONNECT"]) \in Seq(SentByGuests)
  <2>1. [type |-> "DISCONNECT"] \in SentByGuests
    BY DEF SentByGuests, ControlPacket
  <2>2. up[g] \in Seq(SentByGuests)
    BY DEF IInv
  <2>3. SubSeq(up[g], 1, n) \in Seq(SentByGuests)
    BY <2>2
  <2> QED BY <2>1, <2>3
<1>2. <<>> \in Seq(ObjectPacket)
  OBVIOUS
<1>3. CASE Leave(g)
  <2>1. Sound(ed)'
    BY <1>0, <1>3, EmptiedGood, SoundUpdate DEF Leave, IInv
  <2>2. up' \in [Guests -> Seq(SentByGuests)]
    BY <1>1, <1>3 DEF Leave, IInv
  <2>3. down' \in [Guests -> Seq(ObjectPacket)]
    BY <1>2, <1>3 DEF Leave, IInv
  <2> QED BY <1>0, <1>3, <2>1, <2>2, <2>3 DEF Leave, IInv, Phases
<1>4. CASE LoseHost(g)
  <2>2. up' \in [Guests -> Seq(SentByGuests)]
    BY <1>1, <1>4 DEF LoseHost, IInv
  <2>3. down' \in [Guests -> Seq(ObjectPacket)]
    BY <1>2, <1>4 DEF LoseHost, IInv
  <2> QED BY <1>0, <1>4, <2>2, <2>3 DEF LoseHost, IInv, Phases
<1> QED BY <1>3, <1>4

\* A user's edit keeps the invariant.
LEMMA EditIInv ==
    ASSUME IInv, NEW m \in Members, Edit(m)
    PROVE  IInv'
<1>0. Good(ed[m])
  BY SoundGood DEF IInv
<1>1. CASE AddObject(m)
  <2>1. PICK o \in Fresh(ed[m]) : \E v \in Val :
           LET r == addSpecial(ed[m], m, o, v, "user") IN
           /\ ed' = [ed EXCEPT ![m] = r.ed]
           /\ sendPacket(m, r.out)
    BY <1>1 DEF AddObject
  <2>2. PICK v \in Val :
           LET r == addSpecial(ed[m], m, o, v, "user") IN
           /\ ed' = [ed EXCEPT ![m] = r.ed]
           /\ sendPacket(m, r.out)
    BY <2>1
  <2>3. PICK r : /\ r = addSpecial(ed[m], m, o, v, "user")
                 /\ ed' = [ed EXCEPT ![m] = r.ed]
                 /\ sendPacket(m, r.out)
    BY <2>2
  <2>4. ed[m].next < MaxUid
    BY <1>1 DEF AddObject
  <2>5. Good(r.ed) /\ r.out \in Seq(ObjectPacket)
    BY <1>0, <2>3, <2>4, LocalAddGood
  <2>6. Sound(ed)'
    BY <2>3, <2>5, SoundUpdate DEF IInv
  <2> QED BY <1>1, <2>3, <2>5, <2>6, SendPacketTypes DEF AddObject, IInv
<1>2. CASE RemoveObject(m)
  <2>1. PICK o \in Live(ed[m]) :
           LET r == removeObject(ed[m], o, "user") IN
           /\ ed' = [ed EXCEPT ![m] = r.ed]
           /\ sendPacket(m, r.out)
    BY <1>2 DEF RemoveObject
  <2>2. PICK r : /\ r = removeObject(ed[m], o, "user")
                 /\ ed' = [ed EXCEPT ![m] = r.ed]
                 /\ sendPacket(m, r.out)
    BY <2>1
  <2>3. Good(r.ed) /\ r.out \in Seq(ObjectPacket)
    BY <1>0, <2>2, LocalRemoveGood DEF Live
  <2>4. Sound(ed)'
    BY <2>2, <2>3, SoundUpdate DEF IInv
  <2> QED BY <1>2, <2>2, <2>3, <2>4, SendPacketTypes DEF RemoveObject, IInv
<1>3. CASE transformObjectCall(m)
  <2>1. PICK o \in Live(ed[m]) : \E v \in Val :
           LET edited == setValue(ed[m], o, v) IN
           /\ ed' = [ed EXCEPT ![m] = edited]
           /\ sendPacket(m, onLocalObjectModified(edited, o))
    BY <1>3 DEF transformObjectCall
  <2>2. PICK v \in Val :
           /\ ed' = [ed EXCEPT ![m] = setValue(ed[m], o, v)]
           /\ sendPacket(m, onLocalObjectModified(setValue(ed[m], o, v), o))
    BY <2>1
  <2>3. Good(setValue(ed[m], o, v)) /\ o \in Live(setValue(ed[m], o, v))
    BY <1>0, SetValueGood DEF Live
  <2>4. onLocalObjectModified(setValue(ed[m], o, v), o) \in Seq(ObjectPacket)
    BY <2>3, ModifiedGood
  <2>5. Sound(ed)'
    BY <2>2, <2>3, SoundUpdate DEF IInv
  <2> QED BY <1>3, <2>2, <2>4, <2>5, SendPacketTypes DEF transformObjectCall, IInv
<1>4. CASE rotateObjects(m)
  <2>1. PICK o \in Live(ed[m]) : \E v \in Val :
           /\ ed' = [ed EXCEPT ![m] = setValue(ed[m], o, v)]
           /\ sendPacket(m, onLocalObjectModified(ed[m], o))
    BY <1>4 DEF rotateObjects
  <2>2. PICK v \in Val :
           /\ ed' = [ed EXCEPT ![m] = setValue(ed[m], o, v)]
           /\ sendPacket(m, onLocalObjectModified(ed[m], o))
    BY <2>1
  <2>3. Good(setValue(ed[m], o, v))
    BY <1>0, SetValueGood DEF Live
  <2>4. onLocalObjectModified(ed[m], o) \in Seq(ObjectPacket)
    BY <1>0, ModifiedGood
  <2>5. Sound(ed)'
    BY <2>2, <2>3, SoundUpdate DEF IInv
  <2> QED BY <1>4, <2>2, <2>4, <2>5, SendPacketTypes DEF rotateObjects, IInv
<1>5. CASE updateButtons(m)
  <2>1. PICK o \in Live(ed[m]) : sendPacket(m, onLocalObjectModified(ed[m], o))
    BY <1>5 DEF updateButtons
  <2>2. onLocalObjectModified(ed[m], o) \in Seq(ObjectPacket)
    BY <1>0, ModifiedGood
  <2> QED BY <1>5, <2>1, <2>2, SendPacketTypes DEF updateButtons, IInv
<1> QED BY <1>1, <1>2, <1>3, <1>4, <1>5 DEF Edit

\* The host is a member.
LEMMA HostIsMember == Host \in Members
BY DEF Members

\* The answer to a CONNECT or a REQUEST_FULL_STATE keeps the invariant's parts.
LEMMA AnswerTypes ==
    ASSUME IInv, NEW g \in Guests, up[g] # <<>>, AnswerWithFullState(g)
    PROVE  /\ Sound(ed)'
           /\ up' \in [Guests -> Seq(SentByGuests)]
           /\ down' \in [Guests -> Seq(ObjectPacket)]
<1>1. PICK r \in sendFullState(ed[Host]) :
        /\ ed' = [ed EXCEPT ![Host] = r.ed]
        /\ up' = [up EXCEPT ![g] = Tail(@)]
        /\ down' = IF InSession(g) THEN [down EXCEPT ![g] = @ \o r.out] ELSE down
  BY DEF AnswerWithFullState
<1>2. Good(r.ed) /\ r.out \in Seq(ObjectPacket)
  BY HostIsMember, SoundGood, FullStateGood DEF IInv
<1>3. Sound(ed)'
  BY <1>1, <1>2, HostIsMember, SoundUpdate DEF IInv
<1>4. Tail(up[g]) \in Seq(SentByGuests)
  BY DEF IInv
<1>5. down[g] \o r.out \in Seq(ObjectPacket)
  BY <1>2, QueueTypes DEF IInv
<1> QED BY <1>1, <1>3, <1>4, <1>5 DEF IInv

\* The head of a queue to the host is an object packet when its type says so.
LEMMA HeadOfUp ==
    ASSUME IInv, NEW g \in Guests, up[g] # <<>>,
           Head(up[g]).type \in {"OBJECT_ADD", "OBJECT_DELETE", "OBJECT_UPDATE"}
    PROVE  Head(up[g]) \in ObjectPacket
<1>1. Head(up[g]) \in SentByGuests
  BY DEF IInv
<1>2. Head(up[g]) \notin ControlPacket
  BY DEF ControlPacket
<1> QED BY <1>1, <1>2 DEF SentByGuests

\* The host applies a guest's edit and sends nothing.
LEMMA HostReceivesSilent ==
    ASSUME IInv, NEW g \in Guests, HostReceives(g)
    PROVE  Sound(ed)' /\ down' = down
<1>1. PICK r \in handlePacket(ed[Host], Host, g, Head(up[g])) :
          /\ ed' = [ed EXCEPT ![Host] = r.ed]
          /\ down' = Broadcast(r.out)
  BY DEF HostReceives
<1>2. Head(up[g]) \in ObjectPacket
  BY HeadOfUp DEF HostReceives
<1>3. g \in Members
  BY DEF Members
<1>4. Good(r.ed) /\ r.out = <<>>
  BY <1>2, <1>3, HostIsMember, SoundGood, HandlePacketGood DEF IInv, Kept
<1>5. Sound(ed)'
  BY <1>1, <1>4, HostIsMember, SoundUpdate DEF IInv
<1>6. \A h \in Guests : down[h] \o <<>> = down[h]
  BY DEF IInv
<1>7. down' = down
  BY <1>1, <1>4, <1>6 DEF Broadcast, IInv
<1> QED BY <1>5, <1>7

\* A guest applies the host's packet and sends nothing.
LEMMA GuestReceivesSilent ==
    ASSUME IInv, NEW g \in Guests, GuestReceives(g)
    PROVE  Sound(ed)' /\ up' = up
<1>1. PICK r \in handlePacket(ed[g], g, Host, Head(down[g])) :
          /\ ed' = [ed EXCEPT ![g] = r.ed]
          /\ up' = [up EXCEPT ![g] = @ \o r.out]
  BY DEF GuestReceives
<1>2. Head(down[g]) \in ObjectPacket
  BY DEF GuestReceives, IInv
<1>3. g \in Members
  BY DEF Members
<1>4. Good(r.ed) /\ r.out = <<>>
  BY <1>2, <1>3, HostIsMember, SoundGood, HandlePacketGood DEF IInv, Kept
<1>5. Sound(ed)'
  BY <1>1, <1>3, <1>4, SoundUpdate DEF IInv
<1>6. up[g] \o <<>> = up[g]
  BY DEF IInv
<1>7. up' = up
  BY <1>1, <1>4, <1>6 DEF IInv
<1> QED BY <1>5, <1>7

\* Polling one event keeps the invariant.
LEMMA PollIInv ==
    ASSUME IInv, NEW g \in Guests, Poll(g)
    PROVE  IInv'
<1>1. CASE PollConnect(g)
  BY <1>1, AnswerTypes DEF PollConnect, Polls, IInv
<1>2. CASE PollRequest(g)
  BY <1>2, AnswerTypes DEF PollRequest, Polls, IInv
<1>3. CASE PollDisconnect(g)
  <2>1. Tail(up[g]) \in Seq(SentByGuests)
    BY <1>3 DEF PollDisconnect, Polls, IInv
  <2> QED BY <1>3, <2>1 DEF PollDisconnect, IInv
<1>4. CASE HostReceives(g)
  <2>1. Tail(up[g]) \in Seq(SentByGuests)
    BY <1>4 DEF HostReceives, IInv
  <2> QED BY <1>4, <2>1, HostReceivesSilent DEF HostReceives, IInv
<1>5. CASE GuestReceives(g)
  <2>1. Tail(down[g]) \in Seq(ObjectPacket)
    BY <1>5 DEF GuestReceives, IInv
  <2> QED BY <1>5, <2>1, GuestReceivesSilent DEF GuestReceives, IInv
<1>6. CASE GuestDrops(g)
  <2>1. Tail(down[g]) \in Seq(ObjectPacket)
    BY <1>6 DEF GuestDrops, IInv
  <2> QED BY <1>6, <2>1 DEF GuestDrops, IInv
<1> QED BY <1>1, <1>2, <1>3, <1>4, <1>5, <1>6 DEF Poll

\* Starting to host keeps the invariant.
LEMMA StartIInv ==
    ASSUME IInv, StartHosting
    PROVE  IInv'
<1>1. PICK e \in trackExistingObjects(ed[Host], Host) : ed' = [ed EXCEPT ![Host] = e]
  BY DEF StartHosting
<1>2. Good(e)
  BY HostIsMember, SoundGood, TrackExistingGood DEF IInv
<1>3. Sound(ed)'
  BY <1>1, <1>2, HostIsMember, SoundUpdate DEF IInv
<1> QED BY <1>3, HostIsMember DEF StartHosting, IInv, Phases

\* Every step keeps the invariant.
LEMMA NextIInv == IInv /\ [Next]_vars => IInv'
<1> SUFFICES ASSUME IInv, [Next]_vars PROVE IInv'
  OBVIOUS
<1>1. CASE StartHosting
  BY <1>1, StartIInv
<1>2. ASSUME NEW g \in Guests, Session(g)
      PROVE  IInv'
  BY <1>2, SessionIInv, EndIInv, PollIInv DEF Session
<1>3. ASSUME NEW m \in Members, Edit(m)
      PROVE  IInv'
  BY <1>3, EditIInv
<1>4. CASE UNCHANGED vars
  BY <1>4 DEF vars, IInv, Sound
<1> QED BY <1>1, <1>2, <1>3, <1>4 DEF Next

\* Every step keeps the ghosts' types.
LEMMA NextGhosts == GhostTypes /\ [Next]_vars => GhostTypes'
<1> SUFFICES ASSUME GhostTypes, [Next]_vars PROVE GhostTypes'
  OBVIOUS
<1>1. ASSUME UNCHANGED ghosts PROVE GhostTypes'
  BY <1>1 DEF ghosts, GhostTypes
<1>2. ASSUME NEW p PROVE About(p) \subseteq Uid
  BY DEF About
<1>3. ASSUME NEW g \in Guests, NEW p, Dropped(g, p) PROVE GhostTypes'
  BY <1>2, <1>3 DEF Dropped, GhostTypes
<1>4. ASSUME NEW g \in Guests, NEW p, Handled(g, p) PROVE GhostTypes'
  <2>1. \A S : {u \in About(p) : S} \subseteq Uid
    BY <1>2
  <2> QED BY <1>2, <1>4, <2>1 DEF Handled, GhostTypes
<1>5. ASSUME NEW g \in Guests, NEW p, Forwards(g, p) PROVE GhostTypes'
  BY <1>2, <1>5 DEF Forwards, GhostTypes
<1>6. ASSUME NEW m, NEW o, NEW b \in BOOLEAN, Tells(m, o, b) PROVE GhostTypes'
  BY <1>6 DEF Tells, GhostTypes
<1>7. CASE StartHosting
  BY <1>1, <1>7 DEF StartHosting
<1>8. ASSUME NEW g \in Guests, Session(g) PROVE GhostTypes'
  <2>1. CASE Join(g) \/ EndTransition(g) \/ requestFullState(g) \/ Leave(g) \/ LoseHost(g)
    BY <1>1, <2>1 DEF Join, EndTransition, requestFullState, Leave, LoseHost
  <2>2. CASE PollConnect(g) \/ PollRequest(g)
    <3>1. AnswerWithFullState(g)
      BY <2>2 DEF PollConnect, PollRequest
    <3> QED BY <3>1 DEF AnswerWithFullState, GhostTypes
  <2>3. CASE PollDisconnect(g)
    BY <1>1, <2>3 DEF PollDisconnect
  <2>4. CASE HostReceives(g) \/ GuestReceives(g) \/ GuestDrops(g)
    BY <1>3, <1>4, <1>5, <2>4 DEF HostReceives, GuestReceives, GuestDrops
  <2> QED BY <1>8, <2>1, <2>2, <2>3, <2>4 DEF Session, Poll
<1>9. ASSUME NEW m \in Members, Edit(m) PROVE GhostTypes'
  BY <1>1, <1>6, <1>9 DEF Edit, AddObject, RemoveObject, transformObjectCall, rotateObjects,
                          updateButtons
<1>10. CASE UNCHANGED vars
  BY <1>1, <1>10 DEF vars
<1> QED BY <1>7, <1>8, <1>9, <1>10 DEF Next

-----------------------------------------------------------------------------
(* Theorems                                                                *)

\* IInv, the inductive form of the three invariants, holds in every session.
THEOREM Invariance == Spec => []IInv
BY InitIInv, NextIInv, PTL DEF Spec

\* Every variable keeps its type: no packet without a UID is ever sent, no
\* counter passes its bound, and a map only holds UIDs and objects.
THEOREM TypeCorrect == Spec => []TypeOK
<1>1. Init => GhostTypes
  BY DEF Init, GhostTypes
<1>2. Spec => []GhostTypes
  BY <1>1, NextGhosts, PTL DEF Spec
<1> QED BY <1>2, Invariance, IInvImplies, PTL

\* m_syncedObjects and m_objectToUID agree on every tracked object.
THEOREM MapsAreInverse == Spec => []SyncedInverse
BY Invariance, IInvImplies, PTL

\* No member ever tracks an object that has left its editor, so the
\* removal in onRemoteObjectModified is always of a live object.
THEOREM NoDanglingObject == Spec => []SyncedLive
BY Invariance, IInvImplies, PTL

\* Applying a packet never sends one: m_applyingRemoteChanges stops the hooks.
THEOREM NothingEchoes == Spec => NoEcho
<1>1. IInv /\ [Next]_vars =>
        [\A g \in Guests : /\ HostReceives(g) => down' = down
                           /\ GuestReceives(g) => up' = up]_vars
  BY HostReceivesSilent, GuestReceivesSilent
<1> QED BY <1>1, Invariance, PTL DEF Spec, NoEcho

-----------------------------------------------------------------------------
(* What is in flight                                                       *)

\* u is in one of e's maps.
Knows(e, u) == e.synced[u] # NoObj \/ \E o \in Obj : e.o2u[o] = u

Unheard(u) ==
    /\ \A n \in Members : ~Knows(ed[n], u)
    /\ \A g \in Guests : ~Says(up[g], u) /\ ~Says(down[g], u)

\* u is to be given out yet.
Future(u) == phase[u[1]] # "gone" /\ u[2] >= ed[u[1]].next

FutureUnheard == \A u \in Uid : Future(u) => Unheard(u)

\* Each tracked object is live and the one its UID names.
HalfExact(e) ==
    \A o \in Obj : isTrackedObject(e, o) => o \in Live(e) /\ e.synced[e.o2u[o]] = o

\* And each live object is tracked.
Exact(e) == HalfExact(e) /\ \A o \in Live(e) : isTrackedObject(e, o)

\* In the queue q of guest g to the host an OBJECT_ADD is the only one for its
\* UID, and news to the host, whose state is e.
AddsNew(q, g, e) ==
    \A i \in DOMAIN q : q[i].type = "OBJECT_ADD" =>
        /\ q[i].uid[1] = g
        /\ e.synced[q[i].uid] = NoObj
        /\ \A j \in DOMAIN q : j # i /\ q[j].type = "OBJECT_ADD" => q[j].uid # q[i].uid

AddsAreNew == \A g \in Guests : AddsNew(up[g], g, ed[Host])

\* t tracks no guest's UID that e does not.
NoGuestUid(e, t) ==
    \A w \in Uid : w[1] # Host /\ e.synced[w] = NoObj => t.synced[w] = NoObj

HostStarts ==
    /\ phase[Host] \in {"out", "editor"}
    /\ phase[Host] = "out" =>
          /\ \A u \in Uid : ed[Host].synced[u] = NoObj
          /\ \A o \in Obj : ed[Host].o2u[o] = NoUid

UInv == IInv /\ FutureUnheard
HInv == UInv /\ HostStarts /\ AddsAreNew /\ (phase[Host] = "editor" => Exact(ed[Host]))

-----------------------------------------------------------------------------
(* What the operations of one member learn and say                         *)

\* trackObject teaches its UID, untrackObject and the editor's part none.
LEMMA MapsLearn ==
    ASSUME NEW e, Good(e), NEW u \in Uid, NEW w \in Uid, NEW o \in Obj,
           NEW v \in Val \cup {NoVal}, NEW m \in Members
    PROVE  /\ ~Knows(e, u) => /\ w # u => ~Knows(trackObject(e, w, o), u)
                              /\ ~Knows(untrackObject(e, w), u)
                              /\ ~Knows(setValue(e, o, v), u)
                              /\ ~Knows(setOwner(e, w, m), u)
           /\ trackObject(e, w, o).next = e.next
           /\ untrackObject(e, w).next = e.next
           /\ setValue(e, o, v).next = e.next
           /\ setOwner(e, w, m).next = e.next
<1> USE ConstantsAssumption
<1>1. ~Knows(e, u) /\ w # u => ~Knows(trackObject(e, w, o), u)
  BY DEF Good, EditorState, Knows, trackObject
<1>2. ~Knows(e, u) => ~Knows(untrackObject(e, w), u)
  BY DEF Good, EditorState, Knows, untrackObject
<1>3. ~Knows(e, u) => ~Knows(setValue(e, o, v), u) /\ ~Knows(setOwner(e, w, m), u)
  BY DEF Good, EditorState, Knows, setValue, setOwner
<1>4. /\ trackObject(e, w, o).next = e.next
      /\ untrackObject(e, w).next = e.next
      /\ setValue(e, o, v).next = e.next
      /\ setOwner(e, w, m).next = e.next
  BY DEF Good, EditorState, trackObject, untrackObject, setValue, setOwner
<1> QED BY <1>1, <1>2, <1>3, <1>4

\* The object made for a packet has the packet's UID.
LEMMA RecreateLearns ==
    ASSUME NEW e, Good(e), NEW m \in Members, NEW from \in Members,
           NEW p \in StringPacket, NEW u \in Uid, ~Knows(e, u), p.uid # u,
           NEW r \in Recreate(e, m, from, p)
    PROVE  ~Knows(r.ed, u) /\ r.ed.next = e.next
<1>0. p.uid \in Uid /\ p.val \in Val
  BY DEF StringPacket
<1>1. CASE r = Result(e, <<>>)
  BY <1>1 DEF Result
<1>2. ASSUME NEW o \in Fresh(e),
             r = LET a == addSpecial(e, m, o, p.val, "packet") IN
                 Result(setOwner(trackObject(a.ed, p.uid, o), p.uid, from), a.out)
      PROVE  ~Knows(r.ed, u) /\ r.ed.next = e.next
  <2> DEFINE made == setValue(e, o, p.val)
  <2>1. r.ed = setOwner(trackObject(made, p.uid, o), p.uid, from)
    BY <1>2 DEF addSpecial, Result
  <2>2. Good(made) /\ made.val[o] # NoVal /\ Unnamed(made, o) /\ o \in Obj
    BY <1>0, FreshUnnamed, SetValueGood DEF Unnamed
  <2>3. ~Knows(made, u) /\ made.next = e.next
    BY <1>0, <2>2, MapsLearn
  <2> HIDE DEF made
  <2>4. Good(trackObject(made, p.uid, o))
    BY <1>0, <2>2, TrackGood
  <2>5. ~Knows(trackObject(made, p.uid, o), u) /\ trackObject(made, p.uid, o).next = e.next
    BY <1>0, <2>2, <2>3, MapsLearn
  <2> QED BY <1>0, <2>1, <2>2, <2>4, <2>5, MapsLearn
<1> QED BY <1>1, <1>2 DEF Recreate

\* A deletion teaches nothing.
LEMMA DestroyedLearns ==
    ASSUME NEW e, Good(e), NEW p \in DeletePacket, NEW u \in Uid,
           NEW r \in onRemoteObjectDestroyed(e, p)
    PROVE  r.ed.next = e.next /\ (~Knows(e, u) => ~Knows(r.ed, u))
<1>0. p.uid \in Uid
  BY DEF DeletePacket
<1>1. CASE e.synced[p.uid] = NoObj
  BY <1>1 DEF onRemoteObjectDestroyed, Result
<1>2. CASE e.synced[p.uid] # NoObj
  <2> DEFINE o == e.synced[p.uid]
             t == untrackObject(e, p.uid)
  <2>1. o \in Obj /\ Good(t)
    BY <1>0, <1>2, UntrackGood, ConstantsAssumption DEF Good, EditorState
  <2>2. t.next = e.next /\ (~Knows(e, u) => ~Knows(t, u))
    BY <1>0, <2>1, MapsLearn, HostIsMember
  <2>3. r.ed = t \/ r.ed = setValue(t, o, NoVal)
    BY <1>2 DEF onRemoteObjectDestroyed, removeObject, Result
  <2> HIDE DEF o, t
  <2> QED BY <1>0, <2>1, <2>2, <2>3, MapsLearn, HostIsMember
<1> QED BY <1>1, <1>2

\* An update of a UID with an object removes it, untracks the UID and makes
\* the object again.
LEMMA ModifiedRecreates ==
    ASSUME NEW e, Good(e), NEW m \in Members, NEW from \in Members,
           NEW p \in StringPacket, e.synced[p.uid] # NoObj,
           NEW r \in onRemoteObjectModified(e, m, from, p),
           NEW t, t = setValue(untrackObject(e, p.uid), e.synced[p.uid], NoVal)
    PROVE  Good(t) /\ \E q \in Recreate(t, m, from, p) : r.ed = q.ed
<1> DEFINE old == e.synced[p.uid]
           removed == removeObject(e, old, "packet")
           bare == untrackObject(removed.ed, p.uid)
<1>0. p.uid \in Uid
  BY DEF StringPacket
<1>1. old \in Obj /\ e.o2u[old] = p.uid
  BY ConstantsAssumption, <1>0 DEF Good, EditorState, MapsAgree
<1>2. bare = t
  BY ConstantsAssumption, <1>0, <1>1
     DEF Good, EditorState, untrackObject, setValue, removeObject, Result
<1>3. Good(t)
  BY <1>0, <1>1, UntrackGood, EraseGood
<1>4. onRemoteObjectModified(e, m, from, p) =
        {Result(q.ed, removed.out \o q.out) : q \in Recreate(bare, m, from, p)}
  BY DEF onRemoteObjectModified
<1> HIDE DEF removed, bare, old
<1>5. PICK q \in Recreate(bare, m, from, p) : r = Result(q.ed, removed.out \o q.out)
  BY <1>4
<1> QED BY <1>2, <1>3, <1>5 DEF Result

\* An update teaches nothing: it is about a UID that is known.
LEMMA ModifiedLearns ==
    ASSUME NEW e, Good(e), NEW m \in Members, NEW from \in Members,
           NEW p \in StringPacket, NEW u \in Uid, ~Knows(e, u),
           NEW r \in onRemoteObjectModified(e, m, from, p)
    PROVE  ~Knows(r.ed, u) /\ r.ed.next = e.next
<1>0. p.uid \in Uid
  BY DEF StringPacket
<1>1. CASE e.synced[p.uid] = NoObj
  BY <1>1 DEF onRemoteObjectModified, Result
<1>2. CASE e.synced[p.uid] # NoObj
  <2> DEFINE old == e.synced[p.uid]
             a == untrackObject(e, p.uid)
             t == setValue(a, old, NoVal)
  <2>1. old \in Obj
    BY ConstantsAssumption, <1>0, <1>2 DEF Good, EditorState
  <2>2. Good(t) /\ \E q \in Recreate(t, m, from, p) : r.ed = q.ed
    BY <1>2, ModifiedRecreates
  <2>3. Good(a) /\ ~Knows(a, u) /\ a.next = e.next
    BY <1>0, <2>1, UntrackGood, MapsLearn, HostIsMember
  <2> HIDE DEF a, old
  <2>4. ~Knows(t, u) /\ t.next = e.next
    BY <1>0, <2>1, <2>3, MapsLearn, HostIsMember
  <2>5. p.uid # u
    BY <1>2 DEF Knows
  <2> HIDE DEF t
  <2> QED BY <2>2, <2>4, <2>5, RecreateLearns
<1> QED BY <1>1, <1>2

\* A batch teaches the UIDs it has.
LEMMA BatchedLearns ==
    ASSUME NEW e, Good(e), NEW from \in Members, NEW p \in BatchPacket,
           NEW r \in onRemoteObjectsBatched(e, from, p)
    PROVE  /\ r.ed.next = e.next
           /\ \A u \in Uid : ~Knows(e, u) /\ u \notin DOMAIN p.objs => ~Knows(r.ed, u)
<1> DEFINE objs == p.objs
<1>1. PICK uids \in SUBSET Uid : objs \in [uids -> Val]
  BY DEF BatchPacket
<1>2. PICK at \in Injection(uids, Fresh(e)) : r.ed = placeObjects(e, from, objs, at)
  BY <1>1 DEF onRemoteObjectsBatched, Result
<1>3. uids = DOMAIN p.objs
  BY <1>1
<1> HIDE DEF objs
<1> DEFINE uidAt(o) == CHOOSE w \in DOMAIN at : at[w] = o
           placed == {o \in Obj : \E w \in DOMAIN at : at[w] = o}
           V == [o \in Obj |-> IF o \in placed THEN objs[uidAt(o)] ELSE e.val[o]]
           S == [w \in Uid |-> IF w \in DOMAIN at THEN at[w] ELSE e.synced[w]]
           O == [o \in Obj |-> IF o \in placed THEN uidAt(o) ELSE e.o2u[o]]
           W == [w \in Uid |-> IF w \in DOMAIN at THEN from ELSE e.owner[w]]
           t == placeObjects(e, from, objs, at)
<1>4. DOMAIN at = uids
  BY DEF Injection
<1>5. t = [val |-> V, synced |-> S, o2u |-> O, owner |-> W, next |-> e.next]
  <2>1. t = [e EXCEPT !.val = V, !.synced = S, !.o2u = O, !.owner = W]
    BY DEF placeObjects
  <2> HIDE DEF t, V, S, O, W
  <2>2. e = [val |-> e.val, synced |-> e.synced, o2u |-> e.o2u,
             owner |-> e.owner, next |-> e.next]
    BY DEF Good, EditorState
  <2> QED BY <2>1, <2>2
<1> HIDE DEF t
<1>6. \A o \in placed : uidAt(o) \in uids
  BY <1>4
<1> HIDE DEF uidAt, placed
<1>7. ASSUME NEW u \in Uid, ~Knows(e, u), u \notin uids
      PROVE  t.synced[u] = NoObj /\ \A o \in Obj : t.o2u[o] # u
  BY <1>4, <1>5, <1>6, <1>7 DEF Knows
<1>8. t.next = e.next
  BY <1>5
<1> QED BY <1>2, <1>3, <1>7, <1>8 DEF Knows, t

\* A handler learns no UID but the ones its packet mentions, and never counts.
LEMMA HandlerLearns ==
    ASSUME NEW e, Good(e), NEW m \in Members, NEW from \in Members,
           NEW p \in ObjectPacket, NEW u \in Uid, ~Knows(e, u), ~Mentions(p, u),
           NEW r \in handlePacket(e, m, from, p)
    PROVE  ~Knows(r.ed, u) /\ r.ed.next = e.next
<1>1. CASE p.type = "OBJECT_ADD"
  <2>1. p \in StringPacket /\ p.uid # u
    BY <1>1 DEF ObjectPacket, DeletePacket, BatchPacket, Mentions
  <2> QED BY <1>1, <2>1, RecreateLearns DEF handlePacket, onRemoteObjectAdded
<1>2. CASE p.type = "OBJECT_DELETE"
  <2>1. p \in DeletePacket
    BY <1>2 DEF ObjectPacket, StringPacket, BatchPacket
  <2> QED BY <1>2, <2>1, DestroyedLearns DEF handlePacket
<1>3. CASE p.type = "OBJECT_UPDATE"
  <2>1. p \in StringPacket
    BY <1>3 DEF ObjectPacket, DeletePacket, BatchPacket
  <2> QED BY <1>3, <2>1, ModifiedLearns DEF handlePacket
<1>4. CASE p.type = "OBJECT_BATCH"
  <2>1. p \in BatchPacket /\ u \notin DOMAIN p.objs
    BY <1>4 DEF ObjectPacket, DeletePacket, StringPacket, Mentions
  <2> QED BY <1>4, <2>1, BatchedLearns DEF handlePacket
<1> QED BY <1>1, <1>2, <1>3, <1>4
        DEF ObjectPacket, StringPacket, DeletePacket, BatchPacket

\* A new object's UID is the next one, in the maps and in the packet.
LEMMA AddLearns ==
    ASSUME NEW e, Good(e), NEW m \in Members, NEW o \in Fresh(e), NEW v \in Val,
           e.next < MaxUid, NEW u \in Uid, ~Knows(e, u), u # <<m, e.next>>,
           NEW r, r = addSpecial(e, m, o, v, "user")
    PROVE  /\ ~Knows(r.ed, u) /\ ~Says(r.out, u) /\ r.ed.next = e.next + 1
           /\ \A i \in DOMAIN r.out : r.out[i].uid = <<m, e.next>>
<1> DEFINE made == setValue(e, o, v)
           counted == [made EXCEPT !.next = @ + 1]
           w == <<m, made.next>>
           tracked == trackObject(counted, w, o)
           packet == [type |-> "OBJECT_ADD", uid |-> w, val |-> made.val[o]]
<1>1. r.ed = setOwner(tracked, w, m) /\ r.out = <<packet>>
  BY DEF addSpecial, onLocalObjectAdded, Result
<1>2. /\ Good(made) /\ made.val[o] # NoVal /\ made.next = e.next
      /\ Unnamed(made, o) /\ o \in Obj /\ ~Knows(made, u)
  BY FreshUnnamed, SetValueGood, MapsLearn DEF Unnamed
<1>3. w \in Uid /\ w # u /\ made.next + 1 \in 0 .. MaxUid
  BY ConstantsAssumption, <1>2 DEF Good, EditorState, Uid
<1> HIDE DEF made
<1>4. packet.uid = w /\ packet.type = "OBJECT_ADD" /\ w = <<m, e.next>>
  BY <1>2
<1> HIDE DEF w
<1>5. Good(counted) /\ counted.val[o] # NoVal /\ Unnamed(counted, o)
      /\ ~Knows(counted, u) /\ counted.next = e.next + 1
  BY ConstantsAssumption, <1>2, <1>3 DEF Good, EditorState, MapsAgree, Unnamed, Knows
<1> HIDE DEF counted
<1>6. Good(tracked) /\ ~Knows(tracked, u) /\ tracked.next = e.next + 1
  BY <1>2, <1>3, <1>5, TrackGood, MapsLearn
<1> HIDE DEF tracked, packet
<1>7. ~Knows(r.ed, u) /\ r.ed.next = e.next + 1
  BY <1>1, <1>2, <1>3, <1>6, MapsLearn
<1>8. ~Mentions(packet, u)
  BY <1>3, <1>4 DEF Mentions
<1> QED BY <1>1, <1>4, <1>7, <1>8 DEF Says

\* A removal says a UID that the maps have.
LEMMA RemoveLearns ==
    ASSUME NEW e, Good(e), NEW o \in Obj, NEW u \in Uid, ~Knows(e, u),
           NEW r, r = removeObject(e, o, "user")
    PROVE  ~Knows(r.ed, u) /\ ~Says(r.out, u) /\ r.ed.next = e.next
<1>1. CASE isTrackedObject(e, o)
  <2> DEFINE w == e.o2u[o]
             t == untrackObject(e, w)
             packet == [type |-> "OBJECT_DELETE", uid |-> w]
  <2>1. w \in Uid /\ w # u
    BY ConstantsAssumption, <1>1 DEF isTrackedObject, Good, EditorState, Knows
  <2>2. r.ed = setValue(t, o, NoVal) /\ r.out = <<packet>>
    BY <1>1 DEF removeObject, onLocalObjectDestroyed, Result
  <2>3. packet.uid = w /\ packet.type = "OBJECT_DELETE"
    OBVIOUS
  <2> HIDE DEF w
  <2>4. Good(t) /\ ~Knows(t, u) /\ t.next = e.next
    BY <2>1, UntrackGood, MapsLearn, HostIsMember
  <2> HIDE DEF t
  <2>5. ~Knows(r.ed, u) /\ r.ed.next = e.next
    BY <2>1, <2>2, <2>4, MapsLearn, HostIsMember
  <2> HIDE DEF packet
  <2>6. ~Mentions(packet, u)
    BY <2>1, <2>3 DEF Mentions
  <2> QED BY <2>2, <2>5, <2>6 DEF Says
<1>2. CASE ~isTrackedObject(e, o)
  <2>1. r.ed = setValue(e, o, NoVal) /\ r.out = <<>>
    BY <1>2 DEF removeObject, Result
  <2>2. ~Knows(r.ed, u) /\ r.ed.next = e.next
    BY <2>1, MapsLearn, HostIsMember
  <2> QED BY <2>1, <2>2 DEF Says
<1> QED BY <1>1, <1>2

\* The news of an edit says a UID that the maps have.
LEMMA ModifiedSays ==
    ASSUME NEW e, Good(e), NEW o \in Obj, NEW u \in Uid, ~Knows(e, u)
    PROVE  ~Says(onLocalObjectModified(e, o), u)
<1> DEFINE packet == [type |-> "OBJECT_UPDATE", uid |-> e.o2u[o], val |-> e.val[o]]
<1>1. CASE isTrackedObject(e, o)
  <2>1. packet.uid # u /\ packet.type = "OBJECT_UPDATE"
    BY DEF Knows
  <2>2. onLocalObjectModified(e, o) = <<packet>>
    BY <1>1 DEF onLocalObjectModified
  <2> HIDE DEF packet
  <2>3. ~Mentions(packet, u)
    BY <2>1 DEF Mentions
  <2> QED BY <2>2, <2>3 DEF Says
<1>2. CASE ~isTrackedObject(e, o)
  BY <1>2 DEF onLocalObjectModified, Says
<1> QED BY <1>1, <1>2

\* trackExistingObjects gives out the UIDs from the counter on, and counts them.
LEMMA TrackExistingLearns ==
    ASSUME NEW e, Good(e), NEW m \in Members, NEW t \in trackExistingObjects(e, m)
    PROVE  /\ t.next \in e.next .. MaxUid
           /\ \A u \in Uid : ~Knows(e, u) /\ (u[1] = m => u[2] >= t.next) => ~Knows(t, u)
<1> DEFINE new == {o \in Live(e) : ~isTrackedObject(e, o)}
<1>1. PICK last \in e.next .. MaxUid :
         \E num \in Bijection(new, e.next .. (last - 1)) :
            t = numberObjects(e, m, num, last)
  BY DEF trackExistingObjects
<1>2. PICK num \in Bijection(new, e.next .. (last - 1)) :
         t = numberObjects(e, m, num, last)
  BY <1>1
<1>3. num \in [new -> e.next .. (last - 1)] /\ DOMAIN num = new
  BY DEF Bijection, Injection
<1> DEFINE S == [u \in Uid |-> IF \E o \in DOMAIN num : u = <<m, num[o]>>
                               THEN CHOOSE o \in DOMAIN num : u = <<m, num[o]>>
                               ELSE e.synced[u]]
           O == [o \in Obj |-> IF o \in DOMAIN num THEN <<m, num[o]>> ELSE e.o2u[o]]
<1>4. t = [e EXCEPT !.synced = S, !.o2u = O, !.next = last]
  BY <1>2, Zenon DEF numberObjects
<1> HIDE DEF S, O
<1>5. e = [val |-> e.val, synced |-> e.synced, o2u |-> e.o2u,
           owner |-> e.owner, next |-> e.next]
  BY DEF Good, EditorState
<1>6. t.synced = S /\ t.o2u = O /\ t.next = last
  BY <1>4, <1>5
<1>7. e.next \in Nat /\ last \in Nat
  BY ConstantsAssumption DEF Good, EditorState
<1>8. ASSUME NEW u \in Uid, ~Knows(e, u), u[1] = m => u[2] >= t.next
      PROVE  ~Knows(t, u)
  <2>1. \A o \in DOMAIN num : u # <<m, num[o]>>
    BY <1>3, <1>6, <1>7, <1>8 DEF Uid
  <2>2. S[u] = e.synced[u] /\ \A o \in Obj : O[o] # u
    BY <2>1, <1>8 DEF S, O, Knows
  <2> QED BY <2>2, <1>6, <1>8 DEF Knows
<1> QED BY <1>6, <1>8

\* A full state says the UIDs the host has when it sends.
LEMMA FullStateLearns ==
    ASSUME NEW e, Good(e), NEW r \in sendFullState(e)
    PROVE  /\ r.ed \in trackExistingObjects(e, Host)
           /\ r.ed.next \in e.next .. MaxUid
           /\ \A u \in Uid : ~Knows(e, u) /\ (u[1] = Host => u[2] >= r.ed.next) =>
                 ~Knows(r.ed, u) /\ ~Says(r.out, u)
<1>1. PICK t \in trackExistingObjects(e, Host) :
         \E b \in Batches(t) : r = Result(t, b)
  BY DEF sendFullState
<1>2. PICK b \in Batches(t) : r = Result(t, b)
  BY <1>1
<1>3. r.ed = t /\ r.out = b
  BY <1>2 DEF Result
<1>4. /\ t.next \in e.next .. MaxUid
      /\ \A u \in Uid : ~Knows(e, u) /\ (u[1] = Host => u[2] >= t.next) => ~Knows(t, u)
  BY TrackExistingLearns, HostIsMember
<1> DEFINE all == {t.o2u[o] : o \in Live(t)}
<1>5. PICK c \in Cuts(all) : b = [i \in DOMAIN c |-> batchOf(t, c[i])]
  BY DEF Batches
<1> HIDE DEF all
<1>6. \A i \in DOMAIN c : c[i] \in SUBSET all
  <2>1. PICK n \in Nat : c \in [1 .. n -> SUBSET all]
    BY DEF Cuts
  <2> QED BY <2>1
<1>7. ASSUME NEW u \in Uid, ~Knows(t, u) PROVE ~Says(b, u)
  <2>1. u \notin all
    BY <1>7 DEF Knows, Live, all
  <2>2. \A i \in DOMAIN c : u \notin c[i]
    BY <2>1, <1>6
  <2>3. \A i \in DOMAIN c : batchOf(t, c[i]).type = "OBJECT_BATCH"
                            /\ DOMAIN batchOf(t, c[i]).objs = c[i]
    BY DEF batchOf
  <2>4. \A i \in DOMAIN c : ~Mentions(batchOf(t, c[i]), u)
    BY <2>2, <2>3 DEF Mentions
  <2> QED BY <1>5, <2>4 DEF Says
<1> QED BY <1>1, <1>3, <1>4, <1>7

\* Making an object for a packet leaves the counter alone.
LEMMA RecreateCounts ==
    ASSUME NEW e, Good(e), NEW m \in Members, NEW from \in Members,
           NEW p \in StringPacket, NEW r \in Recreate(e, m, from, p)
    PROVE  r.ed.next = e.next
<1>1. CASE r = Result(e, <<>>)
  BY <1>1 DEF Result
<1>2. ASSUME NEW o \in Fresh(e),
             r = LET a == addSpecial(e, m, o, p.val, "packet") IN
                 Result(setOwner(trackObject(a.ed, p.uid, o), p.uid, from), a.out)
      PROVE  r.ed.next = e.next
  BY <1>2 DEF addSpecial, Result, setValue, trackObject, setOwner, Good, EditorState
<1> QED BY <1>1, <1>2 DEF Recreate

\* No handler counts: only generateUID and trackExistingObjects do.
LEMMA HandlerCounts ==
    ASSUME NEW e, Good(e), NEW m \in Members, NEW from \in Members,
           NEW p \in ObjectPacket, NEW r \in handlePacket(e, m, from, p)
    PROVE  r.ed.next = e.next
<1>1. CASE p.type = "OBJECT_ADD"
  <2>1. p \in StringPacket
    BY <1>1 DEF ObjectPacket, DeletePacket, BatchPacket
  <2> QED BY <1>1, <2>1, RecreateCounts DEF handlePacket, onRemoteObjectAdded
<1>2. CASE p.type = "OBJECT_DELETE"
  <2>1. p \in DeletePacket /\ p.uid \in Uid
    BY <1>2 DEF ObjectPacket, StringPacket, DeletePacket, BatchPacket
  <2> QED BY <1>2, <2>1, DestroyedLearns DEF handlePacket
<1>3. CASE p.type = "OBJECT_UPDATE"
  <2>1. p \in StringPacket /\ p.uid \in Uid
    BY <1>3 DEF ObjectPacket, StringPacket, DeletePacket, BatchPacket
  <2>2. r \in onRemoteObjectModified(e, m, from, p)
    BY <1>3 DEF handlePacket
  <2>3. CASE e.synced[p.uid] = NoObj
    BY <2>2, <2>3 DEF onRemoteObjectModified, Result
  <2>4. CASE e.synced[p.uid] # NoObj
    <3> DEFINE old == e.synced[p.uid]
               t == setValue(untrackObject(e, p.uid), old, NoVal)
    <3>1. r.ed.next = t.next
      BY <2>1, <2>2, <2>4, ModifiedRecreates, RecreateCounts
    <3>2. t.next = e.next
      BY DEF untrackObject, setValue, Good, EditorState
    <3> QED BY <3>1, <3>2
  <2> QED BY <2>3, <2>4
<1>4. CASE p.type = "OBJECT_BATCH"
  <2>1. p \in BatchPacket
    BY <1>4 DEF ObjectPacket, DeletePacket, StringPacket
  <2> QED BY <1>4, <2>1, BatchedLearns DEF handlePacket
<1> QED BY <1>1, <1>2, <1>3, <1>4
        DEF ObjectPacket, StringPacket, DeletePacket, BatchPacket

-----------------------------------------------------------------------------
(* Queues                                                                  *)

\* Queues grow and shrink at their ends.
LEMMA QueuesSay ==
    ASSUME NEW u \in Uid, NEW q \in Seq(SentByGuests), ~Says(q, u)
    PROVE  /\ \A s \in Seq(SentByGuests) : ~Says(s, u) => ~Says(q \o s, u)
           /\ q # <<>> => ~Says(Tail(q), u)
           /\ \A c \in ControlPacket :
                 /\ ~Says(<<c>>, u) /\ ~Says(Append(q, c), u)
                 /\ \A n \in 0 .. Len(q) : ~Says(Append(SubSeq(q, 1, n), c), u)
<1>1. ASSUME NEW s \in Seq(SentByGuests), ~Says(s, u) PROVE ~Says(q \o s, u)
  <2>1. ASSUME NEW i \in DOMAIN (q \o s) PROVE ~Mentions((q \o s)[i], u)
    <3>1. CASE i <= Len(q)
      BY <3>1 DEF Says
    <3>2. CASE i > Len(q)
      <4>1. i - Len(q) \in DOMAIN s /\ (q \o s)[i] = s[i - Len(q)]
        BY <3>2
      <4> QED BY <4>1, <1>1 DEF Says
    <3> QED BY <3>1, <3>2
  <2> QED BY <2>1 DEF Says
<1>2. ASSUME q # <<>> PROVE ~Says(Tail(q), u)
  <2>1. ASSUME NEW i \in DOMAIN Tail(q) PROVE ~Mentions(Tail(q)[i], u)
    <3>1. i + 1 \in DOMAIN q /\ Tail(q)[i] = q[i + 1]
      BY <1>2
    <3> QED BY <3>1 DEF Says
  <2> QED BY <2>1 DEF Says
<1>3. ASSUME NEW c \in ControlPacket
      PROVE  /\ ~Says(<<c>>, u) /\ ~Says(Append(q, c), u)
             /\ \A n \in 0 .. Len(q) : ~Says(Append(SubSeq(q, 1, n), c), u)
  <2>1. ~Mentions(c, u)
    BY DEF ControlPacket, Mentions
  <2>2. c \in SentByGuests
    BY DEF SentByGuests
  <2>3. ~Says(Append(q, c), u)
    <3>1. ASSUME NEW i \in DOMAIN Append(q, c) PROVE ~Mentions(Append(q, c)[i], u)
      <4>1. CASE i <= Len(q)
        BY <4>1, <2>2 DEF Says
      <4>2. CASE i > Len(q)
        BY <4>2, <2>1, <2>2
      <4> QED BY <4>1, <4>2, <2>2
    <3> QED BY <3>1 DEF Says
  <2>4. ASSUME NEW n \in 0 .. Len(q) PROVE ~Says(Append(SubSeq(q, 1, n), c), u)
    <3> DEFINE cut == SubSeq(q, 1, n)
    <3>1. cut \in Seq(SentByGuests) /\ Len(cut) = n /\ \A i \in 1 .. n : cut[i] = q[i]
      OBVIOUS
    <3> HIDE DEF cut
    <3>2. ASSUME NEW i \in DOMAIN Append(cut, c) PROVE ~Mentions(Append(cut, c)[i], u)
      <4>1. CASE i <= n
        BY <4>1, <3>1, <2>2 DEF Says
      <4>2. CASE i > n
        BY <4>2, <3>1, <2>1, <2>2
      <4> QED BY <4>1, <4>2, <3>1, <2>2
    <3> QED BY <3>2 DEF Says, cut
  <2> QED BY <2>1, <2>3, <2>4 DEF Says
<1> QED BY <1>1, <1>2, <1>3

\* sendPacket says what it is given.
LEMMA SendPacketSays ==
    ASSUME IInv, NEW m \in Members, NEW s \in Seq(ObjectPacket), sendPacket(m, s),
           NEW u \in Uid, Unheard(u), ~Says(s, u)
    PROVE  \A g \in Guests : ~Says(up'[g], u) /\ ~Says(down'[g], u)
<1>1. ObjectPacket \subseteq SentByGuests
  BY DEF SentByGuests
<1>2. s \in Seq(SentByGuests) /\ \A g \in Guests : down[g] \in Seq(SentByGuests)
  BY <1>1 DEF IInv
<1>3. \A g \in Guests : up[g] \in Seq(SentByGuests) /\ ~Says(up[g], u) /\ ~Says(down[g], u)
  BY DEF IInv, Unheard
<1>4. \A g \in Guests : ~Says(up[g] \o s, u) /\ ~Says(down[g] \o s, u)
  BY <1>2, <1>3, QueuesSay
<1>5. CASE m = Host
  BY <1>3, <1>4, <1>5 DEF sendPacket, Broadcast
<1>6. CASE m # Host
  BY <1>3, <1>4, <1>6 DEF sendPacket, IInv
<1> QED BY <1>5, <1>6

\* A step in one member's editor teaches u to nobody if it does not there.
LEMMA OneEditor ==
    ASSUME IInv, NEW m \in Members, NEW e, ed' = [ed EXCEPT ![m] = e],
           NEW u \in Uid, Unheard(u), ~Knows(e, u)
    PROVE  \A n \in Members : ~Knows(ed'[n], u)
BY DEF IInv, Sound, Unheard

\* UIDs and counters are numbers.
LEMMA UidTypes ==
    ASSUME IInv, NEW u \in Uid
    PROVE  /\ u[1] \in Members /\ u[2] \in Nat /\ u[2] < MaxUid /\ u = <<u[1], u[2]>>
           /\ \A m \in Members : ed[m].next \in 0 .. MaxUid
BY ConstantsAssumption DEF IInv, Sound, EditorState, Uid

-----------------------------------------------------------------------------
(* No step makes a UID heard of that its creator has still to give out     *)

\* An edit gives out the next UID at most.
LEMMA EditUnheard ==
    ASSUME UInv, NEW m \in Members, Edit(m), NEW u \in Uid, Future(u)'
    PROVE  Unheard(u)'
<1> USE DEF UInv
<1>0. Good(ed[m]) /\ ed \in [Members -> EditorState] /\ phase' = phase
  BY SoundGood DEF IInv, Sound, Edit, AddObject, RemoveObject, transformObjectCall,
                   rotateObjects, updateButtons
<1>1. CASE AddObject(m)
  <2>0. PICK o \in Fresh(ed[m]), v \in Val :
           \E r : r = addSpecial(ed[m], m, o, v, "user") /\ ed' = [ed EXCEPT ![m] = r.ed] /\ sendPacket(m, r.out)
    BY <1>1 DEF AddObject
  <2>1. PICK r : r = addSpecial(ed[m], m, o, v, "user") /\ ed' = [ed EXCEPT ![m] = r.ed] /\ sendPacket(m, r.out)
    BY <2>0
  <2>2. ed[m].next < MaxUid
    BY <1>1 DEF AddObject
  <2>3. r.out \in Seq(ObjectPacket)
    BY <1>0, <2>1, <2>2, LocalAddGood
  <2>4. r.ed.next = ed[m].next + 1
    BY <1>0, <2>1 DEF addSpecial, onLocalObjectAdded, Result, setValue,
                      trackObject, setOwner, Good, EditorState
  <2>5. Future(u) /\ u # <<m, ed[m].next>>
    BY <1>0, <2>1, <2>4, UidTypes DEF Future
  <2>6. Unheard(u) /\ ~Knows(ed[m], u)
    BY <2>5 DEF FutureUnheard, Unheard
  <2>7. ~Knows(r.ed, u) /\ ~Says(r.out, u)
    BY <1>0, <2>1, <2>2, <2>5, <2>6, AddLearns
  <2> QED BY <2>1, <2>3, <2>6, <2>7, OneEditor, SendPacketSays DEF Unheard
<1>2. CASE RemoveObject(m)
  <2>0. PICK o \in Live(ed[m]) :
           \E r : r = removeObject(ed[m], o, "user") /\ ed' = [ed EXCEPT ![m] = r.ed] /\ sendPacket(m, r.out)
    BY <1>2 DEF RemoveObject
  <2>1. PICK r : r = removeObject(ed[m], o, "user") /\ ed' = [ed EXCEPT ![m] = r.ed] /\ sendPacket(m, r.out)
    BY <2>0
  <2>2. o \in Obj /\ r.out \in Seq(ObjectPacket)
    BY <1>0, <2>1, LocalRemoveGood DEF Live
  <2>3. \A w \in Uid : ~Knows(ed[m], w) =>
           ~Knows(r.ed, w) /\ ~Says(r.out, w) /\ r.ed.next = ed[m].next
    BY <1>0, <2>1, <2>2, RemoveLearns
  <2>4. r.ed.next = ed[m].next
    BY <1>0, <2>1 DEF removeObject, onLocalObjectDestroyed, untrackObject, setValue, Result,
                      Good, EditorState
  <2>5. Future(u)
    BY <1>0, <2>1, <2>4, UidTypes DEF Future
  <2>6. Unheard(u) /\ ~Knows(ed[m], u)
    BY <2>5 DEF FutureUnheard, Unheard
  <2> QED BY <2>1, <2>2, <2>3, <2>6, OneEditor, SendPacketSays DEF Unheard
<1>3. CASE transformObjectCall(m)
  <2>1. PICK o \in Live(ed[m]), v \in Val :
           /\ ed' = [ed EXCEPT ![m] = setValue(ed[m], o, v)]
           /\ sendPacket(m, onLocalObjectModified(setValue(ed[m], o, v), o))
    BY <1>3 DEF transformObjectCall
  <2> DEFINE e == setValue(ed[m], o, v)
  <2>2. o \in Obj /\ Good(e) /\ o \in Live(e) /\ e.next = ed[m].next
    BY <1>0, SetValueGood DEF Live
  <2>3. onLocalObjectModified(e, o) \in Seq(ObjectPacket)
    BY <2>2, ModifiedGood
  <2>4. Future(u)
    BY <1>0, <2>1, <2>2, UidTypes DEF Future
  <2>5. Unheard(u) /\ ~Knows(ed[m], u)
    BY <2>4 DEF FutureUnheard, Unheard
  <2>6. ~Knows(e, u)
    BY <1>0, <2>2, <2>5, MapsLearn
  <2> HIDE DEF e
  <2>7. ~Says(onLocalObjectModified(e, o), u)
    BY <2>2, <2>6, ModifiedSays
  <2>8. ed' = [ed EXCEPT ![m] = e] /\ sendPacket(m, onLocalObjectModified(e, o))
    BY <2>1 DEF e
  <2> QED BY <2>3, <2>5, <2>6, <2>7, <2>8, OneEditor, SendPacketSays DEF Unheard
<1>4. CASE rotateObjects(m)
  <2>1. PICK o \in Live(ed[m]), v \in Val :
           /\ ed' = [ed EXCEPT ![m] = setValue(ed[m], o, v)]
           /\ sendPacket(m, onLocalObjectModified(ed[m], o))
    BY <1>4 DEF rotateObjects
  <2> DEFINE e == setValue(ed[m], o, v)
  <2>2. o \in Obj /\ e.next = ed[m].next
    BY <1>0, SetValueGood DEF Live
  <2>3. onLocalObjectModified(ed[m], o) \in Seq(ObjectPacket)
    BY <1>0, ModifiedGood
  <2>4. Future(u)
    BY <1>0, <2>1, <2>2, UidTypes DEF Future
  <2>5. Unheard(u) /\ ~Knows(ed[m], u)
    BY <2>4 DEF FutureUnheard, Unheard
  <2>6. ~Knows(e, u)
    BY <1>0, <2>2, <2>5, MapsLearn
  <2>7. ~Says(onLocalObjectModified(ed[m], o), u)
    BY <1>0, <2>2, <2>5, ModifiedSays
  <2> QED BY <2>1, <2>3, <2>5, <2>6, <2>7, OneEditor, SendPacketSays DEF Unheard
<1>5. CASE updateButtons(m)
  <2>1. PICK o \in Live(ed[m]) : sendPacket(m, onLocalObjectModified(ed[m], o))
    BY <1>5 DEF updateButtons
  <2>2. ed' = ed /\ o \in Obj
    BY <1>5 DEF updateButtons, Live
  <2>3. onLocalObjectModified(ed[m], o) \in Seq(ObjectPacket)
    BY <1>0, ModifiedGood
  <2>4. Unheard(u) /\ ~Knows(ed[m], u)
    BY <1>0, <2>2 DEF Future, FutureUnheard, Unheard
  <2>5. ~Says(onLocalObjectModified(ed[m], o), u)
    BY <1>0, <2>2, <2>4, ModifiedSays
  <2> QED BY <2>1, <2>2, <2>3, <2>4, <2>5, SendPacketSays DEF Unheard
<1> QED BY <1>1, <1>2, <1>3, <1>4, <1>5 DEF Edit

\* What starts or ends a session says nothing of a UID.
LEMMA SessionUnheard ==
    ASSUME UInv, NEW g \in Guests, NEW u \in Uid, Future(u)',
           Join(g) \/ EndTransition(g) \/ requestFullState(g) \/ Leave(g) \/ LoseHost(g)
    PROVE  Unheard(u)'
<1> USE DEF UInv
<1>0. g \in Members /\ ed \in [Members -> EditorState] /\ up[g] \in Seq(SentByGuests)
      /\ phase \in [Members -> Phases] /\ u[1] \in Members
  BY UidTypes DEF Members, IInv, Sound
<1>1. ASSUME NEW t \in {"CONNECT", "REQUEST_FULL_STATE", "DISCONNECT"}
      PROVE  [type |-> t] \in ControlPacket
  BY DEF ControlPacket
<1>2. Future(u)
  BY <1>0, UidTypes DEF Future, Join, EndTransition, requestFullState, Leave, LoseHost, InSession, Phases
<1>3. Unheard(u) /\ ~Says(up[g], u)
  BY <1>2 DEF FutureUnheard, Unheard
<1>4. CASE Join(g)
  BY <1>0, <1>1, <1>3, <1>4, QueuesSay DEF Join, Unheard, IInv
<1>5. CASE EndTransition(g)
  BY <1>3, <1>5 DEF EndTransition, Unheard
<1>6. CASE requestFullState(g)
  BY <1>0, <1>1, <1>3, <1>6, QueuesSay DEF requestFullState, Unheard, IInv
<1>7. ~Says(<<>>, u)
  BY DEF Says
<1>10. ASSUME \E n \in 0 .. Len(up[g]) :
                up' = [up EXCEPT ![g] = Append(SubSeq(@, 1, n), [type |-> "DISCONNECT"])]
       PROVE  \A h \in Guests : ~Says(up'[h], u)
  <2>1. \A n \in 0 .. Len(up[g]) : ~Says(Append(SubSeq(up[g], 1, n), [type |-> "DISCONNECT"]), u)
    BY <1>0, <1>1, <1>3, QueuesSay
  <2> QED BY <1>3, <1>10, <2>1 DEF IInv, Unheard
<1>8. CASE Leave(g)
  <2>1. ~Knows(Emptied, u)
    BY ConstantsAssumption DEF Emptied, Knows
  <2>2. \A n \in Members : ~Knows(ed'[n], u)
    BY <1>0, <1>3, <1>8, <2>1, OneEditor DEF Leave
  <2>3. \A h \in Guests : ~Says(up'[h], u)
    BY <1>8, <1>10 DEF Leave
  <2>4. \A h \in Guests : ~Says(down'[h], u)
    BY <1>3, <1>7, <1>8 DEF Leave, Unheard, IInv
  <2> QED BY <2>2, <2>3, <2>4 DEF Unheard
<1>9. CASE LoseHost(g)
  <2>1. \A h \in Guests : ~Says(up'[h], u)
    BY <1>9, <1>10 DEF LoseHost
  <2>2. \A h \in Guests : ~Says(down'[h], u)
    BY <1>3, <1>7, <1>9 DEF LoseHost, Unheard, IInv
  <2> QED BY <1>3, <1>9, <2>1, <2>2 DEF Unheard, LoseHost
<1> QED BY <1>4, <1>5, <1>6, <1>8, <1>9

\* Starting to host gives out UIDs and counts them.
LEMMA StartUnheard ==
    ASSUME UInv, StartHosting, NEW u \in Uid, Future(u)'
    PROVE  Unheard(u)'
<1> USE DEF UInv
<1>1. PICK e \in trackExistingObjects(ed[Host], Host) : ed' = [ed EXCEPT ![Host] = e]
  BY DEF StartHosting
<1>2. Good(ed[Host]) /\ ed \in [Members -> EditorState] /\ phase \in [Members -> Phases]
  BY HostIsMember, SoundGood DEF IInv, Sound
<1>3. /\ e.next \in ed[Host].next .. MaxUid
      /\ ~Knows(ed[Host], u) /\ (u[1] = Host => u[2] >= e.next) => ~Knows(e, u)
  BY <1>2, HostIsMember, TrackExistingLearns
<1>4. Future(u) /\ (u[1] = Host => u[2] >= e.next)
  BY <1>1, <1>2, <1>3, HostIsMember, UidTypes DEF Future, StartHosting, Phases
<1>5. Unheard(u) /\ ~Knows(ed[Host], u)
  BY <1>4, HostIsMember DEF FutureUnheard, Unheard
<1>6. \A n \in Members : ~Knows(ed'[n], u)
  BY <1>1, <1>3, <1>4, <1>5, HostIsMember, OneEditor
<1> QED BY <1>5, <1>6 DEF StartHosting, Unheard

\* So does a full state, and it says no others.
LEMMA AnswerUnheard ==
    ASSUME UInv, NEW g \in Guests, up[g] # <<>>, AnswerWithFullState(g), phase' = phase,
           NEW u \in Uid, Future(u)'
    PROVE  Unheard(u)'
<1> USE DEF UInv
<1>1. PICK r \in sendFullState(ed[Host]) :
        /\ ed' = [ed EXCEPT ![Host] = r.ed]
        /\ up' = [up EXCEPT ![g] = Tail(up[g])]
        /\ down' = IF InSession(g) THEN [down EXCEPT ![g] = down[g] \o r.out] ELSE down
  BY DEF AnswerWithFullState
<1>2. Good(ed[Host]) /\ ed \in [Members -> EditorState]
  BY HostIsMember, SoundGood DEF IInv, Sound
<1>3. /\ r.ed.next \in ed[Host].next .. MaxUid
      /\ ~Knows(ed[Host], u) /\ (u[1] = Host => u[2] >= r.ed.next) =>
            ~Knows(r.ed, u) /\ ~Says(r.out, u)
  BY <1>2, FullStateLearns
<1>4. Future(u) /\ (u[1] = Host => u[2] >= r.ed.next)
  BY <1>1, <1>2, <1>3, HostIsMember, UidTypes DEF Future
<1>5. Unheard(u) /\ ~Knows(ed[Host], u)
  BY <1>4, HostIsMember DEF FutureUnheard, Unheard
<1>6. \A n \in Members : ~Knows(ed'[n], u)
  BY <1>1, <1>3, <1>4, <1>5, HostIsMember, OneEditor
<1>7. up[g] \in Seq(SentByGuests) /\ ~Says(up[g], u) /\ ~Says(down[g], u)
  BY <1>5 DEF IInv, Unheard
<1>8. ~Says(Tail(up[g]), u)
  BY <1>7, QueuesSay
<1>9. ~Says(down[g] \o r.out, u)
  <2>1. r.out \in Seq(ObjectPacket) /\ down[g] \in Seq(ObjectPacket)
    BY <1>2, HostIsMember, FullStateGood DEF IInv
  <2>2. ObjectPacket \subseteq SentByGuests
    BY DEF SentByGuests
  <2>3. r.out \in Seq(SentByGuests) /\ down[g] \in Seq(SentByGuests)
    BY <2>1, <2>2
  <2> QED BY <1>3, <1>4, <1>5, <1>7, <2>3, QueuesSay
<1> QED BY <1>1, <1>5, <1>6, <1>8, <1>9 DEF Unheard, IInv

\* A packet teaches what it says, so what was heard of before it was applied.
LEMMA PollUnheard ==
    ASSUME UInv, NEW g \in Guests, Poll(g), NEW u \in Uid, Future(u)'
    PROVE  Unheard(u)'
<1> USE DEF UInv
<1>0. g \in Members /\ ed \in [Members -> EditorState] /\ Good(ed[g]) /\ Good(ed[Host])
      /\ up[g] \in Seq(SentByGuests) /\ down[g] \in Seq(ObjectPacket)
  BY HostIsMember, SoundGood DEF IInv, Sound, Members
<1>1. CASE PollConnect(g)
  BY <1>1, AnswerUnheard DEF PollConnect, Polls
<1>2. CASE PollRequest(g)
  BY <1>2, AnswerUnheard DEF PollRequest, Polls
<1>3. ObjectPacket \subseteq SentByGuests
  BY DEF SentByGuests
<1>4. down[g] \in Seq(SentByGuests)
  BY <1>0, <1>3
<1>5. CASE PollDisconnect(g)
  <2>1. Unheard(u)
    BY <1>5 DEF PollDisconnect, Future, FutureUnheard
  <2>2. ~Says(Tail(up[g]), u)
    BY <1>0, <1>5, <2>1, QueuesSay DEF PollDisconnect, Polls, Unheard
  <2> QED BY <1>5, <2>1, <2>2 DEF PollDisconnect, Unheard, IInv
<1>6. CASE GuestDrops(g)
  <2>1. Unheard(u)
    BY <1>6 DEF GuestDrops, Future, FutureUnheard
  <2>2. ~Says(Tail(down[g]), u)
    BY <1>4, <1>6, <2>1, QueuesSay DEF GuestDrops, Unheard
  <2> QED BY <1>6, <2>1, <2>2 DEF GuestDrops, Unheard, IInv
<1>7. CASE HostReceives(g)
  <2> DEFINE p == Head(up[g])
  <2>1. PICK r \in handlePacket(ed[Host], Host, g, p) : ed' = [ed EXCEPT ![Host] = r.ed]
    BY <1>7 DEF HostReceives
  <2>2. p \in ObjectPacket /\ up[g] # <<>> /\ p = up[g][1] /\ 1 \in DOMAIN up[g]
    BY <1>0, <1>7, HeadOfUp DEF HostReceives
  <2>3. down' = down /\ up' = [up EXCEPT ![g] = Tail(up[g])] /\ phase' = phase
    BY <1>7, HostReceivesSilent DEF HostReceives
  <2> HIDE DEF p
  <2>4. \A w \in Uid : ~Knows(ed[Host], w) /\ ~Mentions(p, w) =>
           ~Knows(r.ed, w) /\ r.ed.next = ed[Host].next
    BY <1>0, <2>1, <2>2, HostIsMember, HandlerLearns
  <2>5. r.ed.next = ed[Host].next
    BY <1>0, <2>1, <2>2, HostIsMember, HandlerCounts
  <2>6. Unheard(u)
    BY <1>0, <2>1, <2>3, <2>5, HostIsMember, UidTypes DEF Future, FutureUnheard
  <2>7. ~Knows(r.ed, u) /\ ~Says(Tail(up[g]), u)
    BY <1>0, <2>2, <2>4, <2>6, HostIsMember, QueuesSay DEF Unheard, Says
  <2> QED BY <2>1, <2>3, <2>6, <2>7, HostIsMember, OneEditor DEF Unheard, IInv
<1>8. CASE GuestReceives(g)
  <2> DEFINE p == Head(down[g])
  <2>1. PICK r \in handlePacket(ed[g], g, Host, p) : ed' = [ed EXCEPT ![g] = r.ed]
    BY <1>8 DEF GuestReceives
  <2>2. p \in ObjectPacket /\ down[g] # <<>> /\ p = down[g][1] /\ 1 \in DOMAIN down[g]
    BY <1>0, <1>8 DEF GuestReceives
  <2>3. up' = up /\ down' = [down EXCEPT ![g] = Tail(down[g])] /\ phase' = phase
    BY <1>8, GuestReceivesSilent DEF GuestReceives
  <2> HIDE DEF p
  <2>4. \A w \in Uid : ~Knows(ed[g], w) /\ ~Mentions(p, w) =>
           ~Knows(r.ed, w) /\ r.ed.next = ed[g].next
    BY <1>0, <2>1, <2>2, HostIsMember, HandlerLearns
  <2>5. r.ed.next = ed[g].next
    BY <1>0, <2>1, <2>2, HostIsMember, HandlerCounts
  <2>6. Unheard(u)
    BY <1>0, <2>1, <2>3, <2>5, UidTypes DEF Future, FutureUnheard
  <2>7. ~Knows(r.ed, u) /\ ~Says(Tail(down[g]), u)
    BY <1>0, <1>4, <2>2, <2>4, <2>6, QueuesSay DEF Unheard, Says
  <2> QED BY <1>0, <2>1, <2>3, <2>6, <2>7, OneEditor DEF Unheard, IInv
<1> QED BY <1>1, <1>2, <1>5, <1>6, <1>7, <1>8 DEF Poll

\* Nobody has heard of anything at the start.
LEMMA InitUInv == Init => UInv
<1> SUFFICES ASSUME Init PROVE UInv
  OBVIOUS
<1>1. IInv
  BY InitIInv
<1>2. ASSUME NEW u \in Uid PROVE Unheard(u)
  <2>1. \A m \in Members : ed[m].synced = Emptied.synced /\ ed[m].o2u = Emptied.o2u
    BY DEF Init, Emptied
  <2>2. \A n \in Members : ~Knows(ed[n], u)
    BY <2>1, ConstantsAssumption DEF Knows, Emptied
  <2>3. \A g \in Guests : up[g] = <<>> /\ down[g] = <<>>
    BY DEF Init
  <2> QED BY <2>2, <2>3 DEF Unheard, Says
<1> QED BY <1>1, <1>2 DEF UInv, FutureUnheard

\* Every step keeps the UIDs to come unheard of.
LEMMA NextUInv == UInv /\ [Next]_vars => UInv'
<1> SUFFICES ASSUME UInv, [Next]_vars PROVE UInv'
  OBVIOUS
<1>1. IInv'
  BY NextIInv DEF UInv
<1>2. ASSUME NEW u \in Uid, Future(u)' PROVE Unheard(u)'
  <2>1. CASE StartHosting
    BY <1>2, <2>1, StartUnheard
  <2>2. ASSUME NEW g \in Guests, Session(g) PROVE Unheard(u)'
    BY <1>2, <2>2, SessionUnheard, PollUnheard DEF Session
  <2>3. ASSUME NEW m \in Members, Edit(m) PROVE Unheard(u)'
    BY <1>2, <2>3, EditUnheard
  <2>4. CASE UNCHANGED vars
    BY <1>2, <2>4 DEF vars, UInv, FutureUnheard, Future, Unheard
  <2> QED BY <2>1, <2>2, <2>3, <2>4 DEF Next
<1> QED BY <1>1, <1>2 DEF UInv, FutureUnheard

\* The UID that generateUID is about to give out is in nobody's maps and in
\* no packet.
THEOREM UidsAreNew == Spec => []NextUidIsNew
<1>1. UInv => NextUidIsNew
  <2> SUFFICES ASSUME UInv, NEW m \in Members, NEW k \in ed[m].next .. (MaxUid - 1),
                      phase[m] # "gone"
               PROVE  /\ \A n \in Members : ed[n].synced[<<m, k>>] = NoObj
                      /\ \A g \in Guests : \A q \in {up[g], down[g]} :
                            \A i \in DOMAIN q : ~Mentions(q[i], <<m, k>>)
    BY DEF NextUidIsNew
  <2>1. ed[m].next \in 0 .. MaxUid
    BY DEF UInv, IInv, Sound, EditorState
  <2>2. <<m, k>> \in Uid /\ Future(<<m, k>>)
    BY <2>1, ConstantsAssumption DEF Uid, Future
  <2> QED BY <2>2 DEF UInv, FutureUnheard, Unheard, Knows, Says
<1> QED BY <1>1, InitUInv, NextUInv, PTL DEF Spec

-----------------------------------------------------------------------------
(* The host's maps are exact after each of its operations                  *)

\* Making an object for a UID that names nothing.
LEMMA RecreateExact ==
    ASSUME NEW e, Good(e), Exact(e), NEW m \in Members, NEW from \in Members,
           NEW p \in StringPacket, e.synced[p.uid] = NoObj,
           NEW r \in Recreate(e, m, from, p)
    PROVE  Exact(r.ed) /\ \A w \in Uid : w # p.uid => r.ed.synced[w] = e.synced[w]
<1> USE ConstantsAssumption
<1>0. p.uid \in Uid /\ p.val \in Val
  BY DEF StringPacket
<1>1. CASE r = Result(e, <<>>)
  BY <1>1 DEF Result
<1>2. ASSUME NEW o \in Fresh(e),
             r = LET a == addSpecial(e, m, o, p.val, "packet") IN
                 Result(setOwner(trackObject(a.ed, p.uid, o), p.uid, from), a.out)
      PROVE  Exact(r.ed) /\ \A w \in Uid : w # p.uid => r.ed.synced[w] = e.synced[w]
  <2> DEFINE t == r.ed
  <2>1. /\ t.val = [e.val EXCEPT ![o] = p.val]
        /\ t.synced = [e.synced EXCEPT ![p.uid] = o]
        /\ t.o2u = [e.o2u EXCEPT ![o] = p.uid]
    BY <1>2 DEF addSpecial, Result, setValue, trackObject, setOwner, Good, EditorState
  <2>2. /\ e.val \in [Obj -> Val \cup {NoVal}]
        /\ e.synced \in [Uid -> Obj \cup {NoObj}] /\ e.o2u \in [Obj -> Uid \cup {NoUid}]
    BY DEF Good, EditorState
  <2> HIDE DEF t
  <2>3. ASSUME NEW x \in Obj PROVE /\ isTrackedObject(t, x) => x \in Live(t) /\ t.synced[t.o2u[x]] = x
                                   /\ x \in Live(t) => isTrackedObject(t, x)
    <3>1. CASE x = o
      BY <1>0, <2>1, <2>2, <3>1 DEF isTrackedObject, Live, Fresh
    <3>2. CASE x # o
      BY <1>0, <2>1, <2>2, <3>2 DEF isTrackedObject, Live, Exact, HalfExact
    <3> QED BY <3>1, <3>2
  <2>4. Exact(t)
    BY <2>3 DEF Exact, HalfExact, Live
  <2> QED BY <1>0, <2>1, <2>2, <2>4 DEF t
<1> QED BY <1>1, <1>2 DEF Recreate

\* Taking an object and its UID away.
LEMMA TakeAwayExact ==
    ASSUME NEW e, Good(e), HalfExact(e), NEW u \in Uid, e.synced[u] # NoObj,
           NEW t, t = setValue(untrackObject(e, u), e.synced[u], NoVal)
    PROVE  /\ HalfExact(t) /\ (Exact(e) => Exact(t))
           /\ t.synced[u] = NoObj
           /\ \A w \in Uid : w # u => t.synced[w] = e.synced[w]
<1> USE ConstantsAssumption
<1> DEFINE o == e.synced[u]
<1>1. o \in Obj /\ e.o2u[o] = u /\ e.val[o] # NoVal
  BY DEF Good, EditorState, MapsAgree
<1>2. /\ t.val = [e.val EXCEPT ![o] = NoVal]
      /\ t.synced = [e.synced EXCEPT ![u] = NoObj]
      /\ t.o2u = [e.o2u EXCEPT ![o] = NoUid]
  BY <1>1 DEF untrackObject, setValue, Good, EditorState
<1>3. /\ e.val \in [Obj -> Val \cup {NoVal}]
      /\ e.synced \in [Uid -> Obj \cup {NoObj}] /\ e.o2u \in [Obj -> Uid \cup {NoUid}]
  BY DEF Good, EditorState
<1> HIDE DEF o
<1>4. ASSUME NEW x \in Obj
      PROVE  /\ isTrackedObject(t, x) => x \in Live(t) /\ t.synced[t.o2u[x]] = x
             /\ x \in Live(t) /\ Exact(e) => isTrackedObject(t, x)
  <2>1. CASE x = o
    BY <1>1, <1>2, <1>3, <2>1 DEF isTrackedObject, Live
  <2>2. CASE x # o
    BY <1>1, <1>2, <1>3, <2>2 DEF isTrackedObject, Live, HalfExact, Exact, o
  <2> QED BY <2>1, <2>2
<1>5. HalfExact(t) /\ (Exact(e) => Exact(t))
  BY <1>4 DEF Exact, HalfExact, Live
<1> QED BY <1>2, <1>3, <1>5

\* A handler at the host: a UID that is new to it comes from an OBJECT_ADD.
LEMMA HandlerExact ==
    ASSUME NEW e, Good(e), Exact(e), NEW from \in Members, NEW p \in ObjectPacket,
           p.type \in {"OBJECT_ADD", "OBJECT_DELETE", "OBJECT_UPDATE"},
           p.type = "OBJECT_ADD" => e.synced[p.uid] = NoObj,
           NEW r \in handlePacket(e, Host, from, p)
    PROVE  /\ Exact(r.ed)
           /\ \A w \in Uid : e.synced[w] = NoObj /\ (p.type = "OBJECT_ADD" => w # p.uid) =>
                 r.ed.synced[w] = NoObj
<1>1. CASE p.type = "OBJECT_ADD"
  <2>1. p \in StringPacket
    BY <1>1 DEF ObjectPacket, DeletePacket, BatchPacket
  <2> QED BY <1>1, <2>1, HostIsMember, RecreateExact DEF handlePacket, onRemoteObjectAdded
<1>2. CASE p.type = "OBJECT_DELETE"
  <2>1. p.uid \in Uid
    BY <1>2 DEF ObjectPacket, StringPacket, DeletePacket, BatchPacket
  <2>2. r \in onRemoteObjectDestroyed(e, p)
    BY <1>2 DEF handlePacket
  <2>3. CASE e.synced[p.uid] = NoObj
    BY <2>2, <2>3 DEF onRemoteObjectDestroyed, Result
  <2>4. CASE e.synced[p.uid] # NoObj
    <3>1. e.synced[p.uid] \in Live(e)
      BY <2>1, <2>4 DEF Good, EditorState, MapsAgree, Live
    <3>2. r.ed = setValue(untrackObject(e, p.uid), e.synced[p.uid], NoVal)
      BY <2>2, <2>4, <3>1 DEF onRemoteObjectDestroyed, removeObject, Result
    <3> QED BY <2>1, <2>4, <3>2, TakeAwayExact DEF Exact
  <2> QED BY <2>3, <2>4
<1>3. CASE p.type = "OBJECT_UPDATE"
  <2>1. p \in StringPacket /\ p.uid \in Uid
    BY <1>3 DEF ObjectPacket, StringPacket, DeletePacket, BatchPacket
  <2>2. r \in onRemoteObjectModified(e, Host, from, p)
    BY <1>3 DEF handlePacket
  <2>3. CASE e.synced[p.uid] = NoObj
    BY <2>2, <2>3 DEF onRemoteObjectModified, Result
  <2>4. CASE e.synced[p.uid] # NoObj
    <3> DEFINE t == setValue(untrackObject(e, p.uid), e.synced[p.uid], NoVal)
    <3>1. Good(t) /\ \E q \in Recreate(t, Host, from, p) : r.ed = q.ed
      BY <2>1, <2>2, <2>4, HostIsMember, ModifiedRecreates
    <3>2. /\ Exact(t) /\ t.synced[p.uid] = NoObj
          /\ \A w \in Uid : w # p.uid => t.synced[w] = e.synced[w]
      BY <2>1, <2>4, TakeAwayExact DEF Exact
    <3> HIDE DEF t
    <3>3. Exact(r.ed) /\ \A w \in Uid : w # p.uid => r.ed.synced[w] = t.synced[w]
      BY <2>1, <3>1, <3>2, HostIsMember, RecreateExact
    <3> QED BY <2>4, <3>2, <3>3
  <2> QED BY <2>3, <2>4
<1> QED BY <1>1, <1>2, <1>3

\* The host's user adds an object under a UID that is new.
LEMMA AddExact ==
    ASSUME NEW e, Good(e), Exact(e), NEW o \in Fresh(e), NEW v \in Val,
           e.next < MaxUid, ~Knows(e, <<Host, e.next>>),
           NEW r, r = addSpecial(e, Host, o, v, "user")
    PROVE  Exact(r.ed) /\ NoGuestUid(e, r.ed)
<1> USE ConstantsAssumption
<1> DEFINE w == <<Host, e.next>>
           t == r.ed
<1>1. w \in Uid /\ e.synced[w] = NoObj
  BY HostIsMember DEF Good, EditorState, Uid, Knows
<1>2. /\ t.val = [e.val EXCEPT ![o] = v]
      /\ t.synced = [e.synced EXCEPT ![w] = o]
      /\ t.o2u = [e.o2u EXCEPT ![o] = w]
  BY DEF addSpecial, onLocalObjectAdded, Result, setValue, trackObject, setOwner, Good, EditorState
<1>3. /\ e.val \in [Obj -> Val \cup {NoVal}]
      /\ e.synced \in [Uid -> Obj \cup {NoObj}] /\ e.o2u \in [Obj -> Uid \cup {NoUid}]
  BY DEF Good, EditorState
<1>4. w[1] = Host
  OBVIOUS
<1> HIDE DEF t, w
<1>5. ASSUME NEW x \in Obj PROVE /\ isTrackedObject(t, x) => x \in Live(t) /\ t.synced[t.o2u[x]] = x
                                 /\ x \in Live(t) => isTrackedObject(t, x)
  <2>1. CASE x = o
    BY <1>1, <1>2, <1>3, <2>1 DEF isTrackedObject, Live, Fresh
  <2>2. CASE x # o
    BY <1>1, <1>2, <1>3, <2>2 DEF isTrackedObject, Live, Exact, HalfExact
  <2> QED BY <2>1, <2>2
<1>6. Exact(t)
  BY <1>5 DEF Exact, HalfExact, Live
<1>7. NoGuestUid(e, t)
  BY <1>2, <1>3, <1>4 DEF NoGuestUid
<1> QED BY <1>6, <1>7 DEF t

\* The host's user removes an object.
LEMMA RemoveExact ==
    ASSUME NEW e, Good(e), Exact(e), NEW o \in Live(e),
           NEW r, r = removeObject(e, o, "user")
    PROVE  Exact(r.ed) /\ NoGuestUid(e, r.ed)
<1>1. o \in Obj /\ isTrackedObject(e, o) /\ e.o2u[o] \in Uid /\ e.synced[e.o2u[o]] = o
  BY DEF Exact, HalfExact, Live, isTrackedObject, Good, EditorState
<1>2. r.ed = setValue(untrackObject(e, e.o2u[o]), e.synced[e.o2u[o]], NoVal)
  BY <1>1 DEF removeObject, onLocalObjectDestroyed, Result
<1>3. e.synced[e.o2u[o]] # NoObj
  BY <1>1, ConstantsAssumption
<1> QED BY <1>1, <1>2, <1>3, TakeAwayExact DEF Exact, NoGuestUid

\* The host's user changes an object.
LEMMA ChangeExact ==
    ASSUME NEW e, Good(e), Exact(e), NEW o \in Live(e), NEW v \in Val
    PROVE  Exact(setValue(e, o, v)) /\ NoGuestUid(e, setValue(e, o, v))
<1> DEFINE t == setValue(e, o, v)
<1>1. /\ t.val = [e.val EXCEPT ![o] = v] /\ t.synced = e.synced /\ t.o2u = e.o2u
      /\ e.val \in [Obj -> Val \cup {NoVal}] /\ o \in Obj
  BY DEF setValue, Live, Good, EditorState
<1> HIDE DEF t
<1>2. Live(t) = Live(e)
  BY <1>1, ConstantsAssumption DEF Live
<1>3. Exact(t) /\ NoGuestUid(e, t)
  BY <1>1, <1>2 DEF Exact, HalfExact, isTrackedObject, NoGuestUid
<1> QED BY <1>3 DEF t

\* trackExistingObjects leaves exact maps where every tracked object was the
\* one its UID names, when the UIDs to come are new.
LEMMA TrackExistingExact ==
    ASSUME NEW e, Good(e), HalfExact(e),
           \A k \in e.next .. (MaxUid - 1) : ~Knows(e, <<Host, k>>),
           NEW t \in trackExistingObjects(e, Host)
    PROVE  Exact(t) /\ NoGuestUid(e, t)
<1> USE ConstantsAssumption
<1> DEFINE new == {o \in Live(e) : ~isTrackedObject(e, o)}
<1>1. PICK last \in e.next .. MaxUid :
         \E num \in Bijection(new, e.next .. (last - 1)) :
            t = numberObjects(e, Host, num, last)
  BY DEF trackExistingObjects
<1>2. PICK num \in Bijection(new, e.next .. (last - 1)) :
         t = numberObjects(e, Host, num, last)
  BY <1>1
<1>3. num \in [new -> e.next .. (last - 1)] /\ DOMAIN num = new
  BY DEF Bijection, Injection
<1>4. \A a, b \in new : a # b => num[a] # num[b]
  BY <1>3 DEF Bijection, Injection, IsInjective
<1>n. e.next \in Nat /\ last \in 0 .. MaxUid
  BY DEF Good, EditorState
<1>5. \A a \in new : <<Host, num[a]>> \in Uid /\ ~Knows(e, <<Host, num[a]>>)
  BY <1>3, <1>n, HostIsMember DEF Uid
<1> DEFINE S == [u \in Uid |-> IF \E o \in DOMAIN num : u = <<Host, num[o]>>
                               THEN CHOOSE o \in DOMAIN num : u = <<Host, num[o]>>
                               ELSE e.synced[u]]
           O == [o \in Obj |-> IF o \in DOMAIN num THEN <<Host, num[o]>> ELSE e.o2u[o]]
<1>6. t = [e EXCEPT !.synced = S, !.o2u = O, !.next = last]
  BY <1>2, Zenon DEF numberObjects
<1> HIDE DEF S, O
<1>7. e = [val |-> e.val, synced |-> e.synced, o2u |-> e.o2u,
           owner |-> e.owner, next |-> e.next]
  BY DEF Good, EditorState
<1>8. t.synced = S /\ t.o2u = O /\ t.val = e.val
  BY <1>6, <1>7
<1>9. e.o2u \in [Obj -> Uid \cup {NoUid}] /\ new \subseteq Obj
  BY DEF Good, EditorState, Live
<1>10. \A a \in new : S[<<Host, num[a]>>] = a
  BY <1>3, <1>4, <1>5 DEF S
<1>11. ASSUME NEW x \in Obj, x \notin new, isTrackedObject(e, x)
       PROVE  S[e.o2u[x]] = x
  <2>1. e.o2u[x] \in Uid /\ e.synced[e.o2u[x]] = x /\ Knows(e, e.o2u[x])
    BY <1>9, <1>11 DEF HalfExact, isTrackedObject, Knows
  <2>2. \A o \in DOMAIN num : e.o2u[x] # <<Host, num[o]>>
    BY <1>3, <1>5, <2>1
  <2> QED BY <2>1, <2>2 DEF S
<1>12. \A x \in Obj : O[x] = IF x \in new THEN <<Host, num[x]>> ELSE e.o2u[x]
  BY <1>3 DEF O
<1>13. Live(t) = Live(e)
  BY <1>8 DEF Live
<1>14. ASSUME NEW x \in Obj
       PROVE  /\ isTrackedObject(t, x) => x \in Live(t) /\ t.synced[t.o2u[x]] = x
              /\ x \in Live(t) => isTrackedObject(t, x)
  <2>1. CASE x \in new
    BY <2>1, <1>5, <1>8, <1>10, <1>12, <1>13 DEF isTrackedObject
  <2>2. CASE x \notin new
    <3>1. t.o2u[x] = e.o2u[x]
      BY <2>2, <1>8, <1>12
    <3> QED BY <2>2, <3>1, <1>8, <1>11, <1>13 DEF isTrackedObject, HalfExact
  <2> QED BY <2>1, <2>2
<1>15. Exact(t)
  BY <1>14 DEF Exact, HalfExact, Live
<1>16. NoGuestUid(e, t)
  <2> SUFFICES ASSUME NEW u \in Uid, u[1] # Host, e.synced[u] = NoObj PROVE S[u] = NoObj
    BY <1>8 DEF NoGuestUid
  <2>1. \A o \in DOMAIN num : u # <<Host, num[o]>>
    OBVIOUS
  <2> QED BY <2>1 DEF S
<1> QED BY <1>15, <1>16

-----------------------------------------------------------------------------
(* A guest's additions are new to the host                                 *)

\* At the ends of a queue to the host.
LEMMA QueuesAdd ==
    ASSUME NEW g, NEW e, NEW q \in Seq(SentByGuests), AddsNew(q, g, e)
    PROVE  /\ q # <<>> => AddsNew(Tail(q), g, e)
           /\ \A c \in ControlPacket :
                 /\ AddsNew(<<c>>, g, e) /\ AddsNew(Append(q, c), g, e)
                 /\ \A n \in 0 .. Len(q) : AddsNew(Append(SubSeq(q, 1, n), c), g, e)
           /\ \A p \in ObjectPacket :
                 (p.type = "OBJECT_ADD" => p.uid[1] = g /\ e.synced[p.uid] = NoObj /\ ~Says(q, p.uid)) =>
                    AddsNew(Append(q, p), g, e)
<1>1. ASSUME q # <<>> PROVE AddsNew(Tail(q), g, e)
  <2>1. \A i \in DOMAIN Tail(q) : i + 1 \in DOMAIN q /\ Tail(q)[i] = q[i + 1]
    BY <1>1
  <2>2. \A i, j \in DOMAIN Tail(q) : i # j => i + 1 # j + 1
    OBVIOUS
  <2> QED BY <2>1, <2>2 DEF AddsNew
<1>2. ASSUME NEW c \in ControlPacket, NEW n \in 0 .. Len(q)
      PROVE  AddsNew(Append(SubSeq(q, 1, n), c), g, e)
  <2> DEFINE cut == Append(SubSeq(q, 1, n), c)
  <2>1. c \in SentByGuests /\ c.type # "OBJECT_ADD"
    BY DEF SentByGuests, ControlPacket
  <2>2. \A i \in DOMAIN cut : (i \in DOMAIN q /\ cut[i] = q[i]) \/ cut[i] = c
    BY <2>1
  <2> HIDE DEF cut
  <2>3. AddsNew(cut, g, e)
    BY <2>1, <2>2 DEF AddsNew
  <2> QED BY <2>3 DEF cut
<1>3. ASSUME NEW c \in ControlPacket
      PROVE  AddsNew(<<c>>, g, e) /\ AddsNew(Append(q, c), g, e)
  <2>1. c \in SentByGuests /\ c.type # "OBJECT_ADD"
    BY DEF SentByGuests, ControlPacket
  <2>2. \A i \in DOMAIN Append(q, c) : (i \in DOMAIN q /\ Append(q, c)[i] = q[i]) \/ Append(q, c)[i] = c
    BY <2>1
  <2> QED BY <2>1, <2>2 DEF AddsNew
<1>4. ASSUME NEW p \in ObjectPacket,
             p.type = "OBJECT_ADD" => p.uid[1] = g /\ e.synced[p.uid] = NoObj /\ ~Says(q, p.uid)
      PROVE  AddsNew(Append(q, p), g, e)
  <2> DEFINE more == Append(q, p)
  <2>1. p \in SentByGuests
    BY DEF SentByGuests
  <2>2. /\ DOMAIN more = 1 .. Len(q) + 1 /\ more[Len(q) + 1] = p
        /\ \A i \in 1 .. Len(q) : more[i] = q[i] /\ i \in DOMAIN q
        /\ Len(q) \in Nat
    BY <2>1
  <2> HIDE DEF more
  <2>3. p.type = "OBJECT_ADD" =>
           \A i \in DOMAIN q : q[i].type = "OBJECT_ADD" => q[i].uid # p.uid
    BY <1>4 DEF Says, Mentions
  <2>4. ASSUME NEW i \in DOMAIN more, more[i].type = "OBJECT_ADD"
        PROVE  /\ more[i].uid[1] = g /\ e.synced[more[i].uid] = NoObj
               /\ \A j \in DOMAIN more : j # i /\ more[j].type = "OBJECT_ADD" =>
                     more[j].uid # more[i].uid
    <3>1. CASE i = Len(q) + 1
      BY <1>4, <2>2, <2>3, <2>4, <3>1
    <3>2. CASE i # Len(q) + 1
      <4>1. i \in 1 .. Len(q) /\ more[i] = q[i] /\ i \in DOMAIN q
        BY <2>2, <3>2
      <4>2. \A j \in DOMAIN more : j = Len(q) + 1 \/ (j \in DOMAIN q /\ more[j] = q[j])
        BY <2>2
      <4> QED BY <2>2, <2>3, <2>4, <4>1, <4>2 DEF AddsNew
    <3> QED BY <3>1, <3>2
  <2> QED BY <2>4 DEF AddsNew, more
<1> QED BY <1>1, <1>2, <1>3, <1>4

\* The host may come to track UIDs of its own, or one that is in no addition.
LEMMA HostAdds ==
    ASSUME NEW g \in Guests, NEW e, NEW t, NEW q \in Seq(SentByGuests), AddsNew(q, g, e),
           NoGuestUid(e, t)
    PROVE  AddsNew(q, g, t)
<1>1. \A i \in DOMAIN q : q[i].type = "OBJECT_ADD" => q[i].uid \in Uid
  <2> SUFFICES ASSUME NEW i \in DOMAIN q, q[i].type = "OBJECT_ADD" PROVE q[i].uid \in Uid
    OBVIOUS
  <2>1. q[i] \in SentByGuests
    OBVIOUS
  <2> QED BY <2>1 DEF SentByGuests, ObjectPacket, StringPacket, DeletePacket, BatchPacket, ControlPacket
<1>2. g # Host
  BY ConstantsAssumption
<1> QED BY <1>1, <1>2 DEF AddsNew, NoGuestUid

\* What an edit sends: nothing, or a packet, an addition being of the next UID.
OneNews(s, m, k) ==
    s = <<>> \/ \E p \in ObjectPacket : /\ s = <<p>>
                                        /\ p.type = "OBJECT_ADD" => p.uid = <<m, k>>

\* A guest's edit, told to the host.
LEMMA GuestTells ==
    ASSUME HInv, NEW m \in Guests, NEW s, OneNews(s, m, ed[m].next), sendPacket(m, s),
           \A p \in ObjectPacket : s = <<p>> /\ p.type = "OBJECT_ADD" =>
               ed[m].next < MaxUid /\ phase[m] # "gone",
           ed'[Host] = ed[Host]
    PROVE  AddsAreNew'
<1>1. up' = [up EXCEPT ![m] = up[m] \o s] /\ m # Host
  BY ConstantsAssumption DEF sendPacket
<1>2. up \in [Guests -> Seq(SentByGuests)] /\ up[m] \in Seq(SentByGuests)
  BY DEF HInv, UInv, IInv
<1>3. AddsNew(up[m], m, ed[Host])
  BY DEF HInv, AddsAreNew
<1>4. CASE s = <<>>
  <2>1. up[m] \o s = up[m]
    BY <1>2, <1>4
  <2> QED BY <1>1, <1>2, <1>3, <2>1 DEF HInv, AddsAreNew
<1>5. CASE s # <<>>
  <2>1. PICK p \in ObjectPacket : s = <<p>> /\ (p.type = "OBJECT_ADD" => p.uid = <<m, ed[m].next>>)
    BY <1>5 DEF OneNews
  <2>2. p \in SentByGuests
    BY DEF SentByGuests
  <2>3. up[m] \o s = Append(up[m], p)
    BY <1>2, <2>1, <2>2
  <2>4. ASSUME p.type = "OBJECT_ADD"
        PROVE  p.uid[1] = m /\ ed[Host].synced[p.uid] = NoObj /\ ~Says(up[m], p.uid)
    <3>1. m \in Members /\ ed[m].next \in 0 .. MaxUid /\ ed[m].next < MaxUid
      BY <2>1, <2>4 DEF Members, HInv, UInv, IInv, Sound, EditorState
    <3>2. p.uid \in Uid /\ Future(p.uid)
      <4>1. p.uid = <<m, ed[m].next>> /\ phase[m] # "gone"
        BY <2>1, <2>4
      <4>2. p.uid \in Uid
        BY <3>1, <4>1, ConstantsAssumption DEF Uid
      <4> QED BY <3>1, <4>1, <4>2 DEF Future
    <3>3. Unheard(p.uid)
      BY <3>2 DEF HInv, UInv, FutureUnheard
    <3> QED BY <2>1, <2>4, <3>3, HostIsMember DEF Unheard, Knows
  <2>5. AddsNew(Append(up[m], p), m, ed[Host])
    BY <1>2, <1>3, <2>4, QueuesAdd
  <2> QED BY <1>1, <1>2, <2>3, <2>5 DEF HInv, AddsAreNew
<1> QED BY <1>4, <1>5

-----------------------------------------------------------------------------
(* Every step keeps the host's maps exact                                  *)

HostExactState == phase[Host] = "editor" => Exact(ed[Host])

\* A step of the host leaves the queues from the guests alone, or shortens them.
LEMMA HostStep ==
    ASSUME HInv, NEW e, ed' = [ed EXCEPT ![Host] = e], NoGuestUid(ed[Host], e),
           \/ up' = up
           \/ \E g \in Guests : up[g] # <<>> /\ up' = [up EXCEPT ![g] = Tail(up[g])]
    PROVE  AddsAreNew'
<1>1. /\ up \in [Guests -> Seq(SentByGuests)] /\ ed'[Host] = e
      /\ \A g \in Guests : up[g] \in Seq(SentByGuests) /\ AddsNew(up[g], g, ed[Host])
  BY HostIsMember DEF HInv, UInv, IInv, Sound, AddsAreNew
<1>2. \A g \in Guests : up'[g] = up[g] \/ (up[g] # <<>> /\ up'[g] = Tail(up[g]))
  BY <1>1
<1>3. ASSUME NEW g \in Guests PROVE AddsNew(up'[g], g, ed[Host]) /\ up'[g] \in Seq(SentByGuests)
  <2>1. CASE up'[g] = up[g]
    BY <1>1, <2>1
  <2>2. CASE up[g] # <<>> /\ up'[g] = Tail(up[g])
    BY <1>1, <2>2, QueuesAdd
  <2> QED BY <1>2, <2>1, <2>2
<1>4. \A g \in Guests : AddsNew(up'[g], g, e)
  BY <1>3, HostAdds
<1> QED BY <1>1, <1>4 DEF AddsAreNew

\* An edit of the host's user.
LEMMA HostEdits ==
    ASSUME HInv, Edit(Host)
    PROVE  HostExactState' /\ AddsAreNew'
<1> DEFINE e == ed[Host]
<1>1. phase[Host] = "editor" /\ phase' = phase /\ Exact(e) /\ Good(e)
  BY HostIsMember, SoundGood
     DEF Edit, AddObject, RemoveObject, transformObjectCall, rotateObjects, updateButtons,
         MayEdit, HInv, UInv, IInv
<1>2. SUFFICES \E t : ed' = [ed EXCEPT ![Host] = t] /\ Exact(t) /\ NoGuestUid(e, t) /\ up' = up
  <2>1. PICK t : ed' = [ed EXCEPT ![Host] = t] /\ Exact(t) /\ NoGuestUid(e, t) /\ up' = up
    BY <1>2
  <2>2. ed'[Host] = t
    BY <2>1, HostIsMember DEF HInv, UInv, IInv, Sound
  <2> QED BY <2>1, <2>2, HostStep DEF HostExactState
<1>3. \A s : sendPacket(Host, s) => up' = up
  BY DEF sendPacket
<1>4. CASE AddObject(Host)
  <2>0. PICK o \in Fresh(e), v \in Val :
           \E r : r = addSpecial(e, Host, o, v, "user") /\ ed' = [ed EXCEPT ![Host] = r.ed] /\ sendPacket(Host, r.out)
    BY <1>4 DEF AddObject
  <2>1. PICK r : r = addSpecial(e, Host, o, v, "user") /\ ed' = [ed EXCEPT ![Host] = r.ed] /\ sendPacket(Host, r.out)
    BY <2>0
  <2>2. e.next < MaxUid /\ e.next \in 0 .. MaxUid
    BY <1>1, <1>4 DEF AddObject, Good, EditorState
  <2>3. <<Host, e.next>> \in Uid /\ Future(<<Host, e.next>>)
    BY <1>1, <2>2, ConstantsAssumption, HostIsMember DEF Uid, Future
  <2>4. ~Knows(e, <<Host, e.next>>)
    BY <2>3, HostIsMember DEF HInv, UInv, FutureUnheard, Unheard
  <2>5. Exact(r.ed) /\ NoGuestUid(e, r.ed)
    BY <1>1, <2>1, <2>2, <2>4, AddExact
  <2> QED BY <1>3, <2>1, <2>5
<1>5. CASE RemoveObject(Host)
  <2>0. PICK o \in Live(e) :
           \E r : r = removeObject(e, o, "user") /\ ed' = [ed EXCEPT ![Host] = r.ed] /\ sendPacket(Host, r.out)
    BY <1>5 DEF RemoveObject
  <2>1. PICK r : r = removeObject(e, o, "user") /\ ed' = [ed EXCEPT ![Host] = r.ed] /\ sendPacket(Host, r.out)
    BY <2>0
  <2> QED BY <1>1, <1>3, <2>1, RemoveExact
<1>6. CASE transformObjectCall(Host)
  <2>1. PICK o \in Live(e), v \in Val :
           /\ ed' = [ed EXCEPT ![Host] = setValue(e, o, v)]
           /\ sendPacket(Host, onLocalObjectModified(setValue(e, o, v), o))
    BY <1>6 DEF transformObjectCall
  <2> QED BY <1>1, <1>3, <2>1, ChangeExact
<1>7. CASE rotateObjects(Host)
  <2>1. PICK o \in Live(e), v \in Val :
           /\ ed' = [ed EXCEPT ![Host] = setValue(e, o, v)]
           /\ sendPacket(Host, onLocalObjectModified(e, o))
    BY <1>7 DEF rotateObjects
  <2> QED BY <1>1, <1>3, <2>1, ChangeExact
<1>8. CASE updateButtons(Host)
  <2>1. ed' = ed /\ \E o \in Live(e) : sendPacket(Host, onLocalObjectModified(e, o))
    BY <1>8 DEF updateButtons
  <2>2. ed' = [ed EXCEPT ![Host] = e]
    BY <2>1 DEF HInv, UInv, IInv, Sound
  <2> QED BY <1>1, <1>3, <2>1, <2>2 DEF NoGuestUid
<1> QED BY <1>4, <1>5, <1>6, <1>7, <1>8 DEF Edit

\* An edit of a guest's user.
LEMMA GuestEdits ==
    ASSUME HInv, NEW m \in Guests, Edit(m)
    PROVE  HostExactState' /\ AddsAreNew'
<1> DEFINE e == ed[m]
<1>1. /\ phase[m] = "editor" /\ phase' = phase /\ Good(e) /\ m \in Members /\ m # Host
      /\ ed \in [Members -> EditorState]
  BY SoundGood, ConstantsAssumption
     DEF Edit, AddObject, RemoveObject, transformObjectCall, rotateObjects, updateButtons,
         MayEdit, HInv, UInv, IInv, Members, Sound
<1>2. SUFFICES /\ ed'[Host] = ed[Host]
               /\ \E s : /\ sendPacket(m, s) /\ OneNews(s, m, e.next)
                         /\ \A p \in ObjectPacket : s = <<p>> /\ p.type = "OBJECT_ADD" => e.next < MaxUid
  BY <1>1, <1>2, GuestTells DEF HostExactState, HInv
<1>3. ASSUME NEW t, Good(t), NEW o \in Live(t), NEW s, s = onLocalObjectModified(t, o)
      PROVE  s = <<>> \/ \E p \in ObjectPacket : s = <<p>> /\ p.type = "OBJECT_UPDATE"
  <2>1. CASE isTrackedObject(t, o)
    <3> DEFINE p == [type |-> "OBJECT_UPDATE", uid |-> t.o2u[o], val |-> t.val[o]]
    <3>1. p \in ObjectPacket /\ p.type = "OBJECT_UPDATE"
      BY <1>3, <2>1 DEF isTrackedObject, Live, Good, EditorState, ObjectPacket, StringPacket
    <3>2. s = <<p>>
      BY <1>3, <2>1 DEF onLocalObjectModified
    <3> QED BY <3>1, <3>2
  <2>2. CASE ~isTrackedObject(t, o)
    BY <1>3, <2>2 DEF onLocalObjectModified
  <2> QED BY <2>1, <2>2
<1>4. \A s : (s = <<>> \/ \E p \in ObjectPacket : s = <<p>> /\ p.type # "OBJECT_ADD") =>
          /\ OneNews(s, m, e.next)
          /\ \A p \in ObjectPacket : s = <<p>> /\ p.type = "OBJECT_ADD" => e.next < MaxUid
  BY DEF OneNews
<1>5. CASE AddObject(m)
  <2>0. PICK o \in Fresh(e), v \in Val :
           \E r : r = addSpecial(e, m, o, v, "user") /\ ed' = [ed EXCEPT ![m] = r.ed] /\ sendPacket(m, r.out)
    BY <1>5 DEF AddObject
  <2>1. PICK r : r = addSpecial(e, m, o, v, "user") /\ ed' = [ed EXCEPT ![m] = r.ed] /\ sendPacket(m, r.out)
    BY <2>0
  <2>2. e.next < MaxUid
    BY <1>5 DEF AddObject
  <2> DEFINE made == setValue(e, o, v)
             p == [type |-> "OBJECT_ADD", uid |-> <<m, made.next>>, val |-> made.val[o]]
  <2>3. o \in Obj /\ made.next = e.next /\ made.val[o] \in Val /\ e.next \in 0 .. MaxUid
    BY <1>1 DEF Fresh, setValue, Good, EditorState
  <2>4. r.out = <<p>>
    BY <2>1 DEF addSpecial, onLocalObjectAdded, Result
  <2> HIDE DEF made
  <2>5. p \in ObjectPacket /\ p.uid = <<m, e.next>>
    BY <1>1, <2>2, <2>3, ConstantsAssumption DEF ObjectPacket, StringPacket, Uid
  <2> HIDE DEF p
  <2>6. OneNews(r.out, m, e.next)
    BY <2>4, <2>5 DEF OneNews
  <2>7. ed'[Host] = ed[Host]
    BY <1>1, <2>1, HostIsMember
  <2> QED BY <2>1, <2>2, <2>6, <2>7
<1>6. CASE RemoveObject(m)
  <2>0. PICK o \in Live(e) :
           \E r : r = removeObject(e, o, "user") /\ ed' = [ed EXCEPT ![m] = r.ed] /\ sendPacket(m, r.out)
    BY <1>6 DEF RemoveObject
  <2>1. PICK r : r = removeObject(e, o, "user") /\ ed' = [ed EXCEPT ![m] = r.ed] /\ sendPacket(m, r.out)
    BY <2>0
  <2>2. r.out = <<>> \/ \E p \in ObjectPacket : r.out = <<p>> /\ p.type # "OBJECT_ADD"
    <3>1. CASE isTrackedObject(e, o)
      <4> DEFINE p == [type |-> "OBJECT_DELETE", uid |-> e.o2u[o]]
      <4>1. p \in ObjectPacket /\ p.type # "OBJECT_ADD"
        BY <1>1, <3>1 DEF isTrackedObject, Live, Good, EditorState, ObjectPacket, DeletePacket
      <4>2. r.out = <<p>>
        BY <2>1, <3>1 DEF removeObject, onLocalObjectDestroyed, Result
      <4> QED BY <4>1, <4>2
    <3>2. CASE ~isTrackedObject(e, o)
      BY <2>1, <3>2 DEF removeObject, Result
    <3> QED BY <3>1, <3>2
  <2>3. /\ OneNews(r.out, m, e.next)
        /\ \A p \in ObjectPacket : r.out = <<p>> /\ p.type = "OBJECT_ADD" => e.next < MaxUid
    BY <1>4, <2>2
  <2>4. ed'[Host] = ed[Host]
    BY <1>1, <2>1, HostIsMember
  <2> QED BY <2>1, <2>3, <2>4
<1>7. CASE transformObjectCall(m)
  <2>1. PICK o \in Live(e), v \in Val :
           /\ ed' = [ed EXCEPT ![m] = setValue(e, o, v)]
           /\ sendPacket(m, onLocalObjectModified(setValue(e, o, v), o))
    BY <1>7 DEF transformObjectCall
  <2>2. Good(setValue(e, o, v)) /\ o \in Live(setValue(e, o, v))
    BY <1>1, SetValueGood DEF Live
  <2> QED BY <1>1, <1>3, <1>4, <2>1, <2>2
<1>8. CASE rotateObjects(m)
  <2>1. PICK o \in Live(e), v \in Val :
           /\ ed' = [ed EXCEPT ![m] = setValue(e, o, v)]
           /\ sendPacket(m, onLocalObjectModified(e, o))
    BY <1>8 DEF rotateObjects
  <2> QED BY <1>1, <1>3, <1>4, <2>1
<1>9. CASE updateButtons(m)
  <2>1. ed' = ed /\ \E o \in Live(e) : sendPacket(m, onLocalObjectModified(e, o))
    BY <1>9 DEF updateButtons
  <2> QED BY <1>1, <1>3, <1>4, <2>1
<1> QED BY <1>5, <1>6, <1>7, <1>8, <1>9 DEF Edit

\* Joining, asking, leaving: no addition is sent, the host's editor is not touched.
LEMMA SessionExact ==
    ASSUME HInv, NEW g \in Guests,
           Join(g) \/ EndTransition(g) \/ requestFullState(g) \/ Leave(g) \/ LoseHost(g)
    PROVE  HostExactState' /\ AddsAreNew'
<1>1. /\ g # Host /\ ed \in [Members -> EditorState] /\ phase \in [Members -> Phases]
      /\ up \in [Guests -> Seq(SentByGuests)] /\ up[g] \in Seq(SentByGuests)
      /\ AddsNew(up[g], g, ed[Host])
  BY ConstantsAssumption DEF HInv, UInv, IInv, Sound, AddsAreNew
<1>2. ed'[Host] = ed[Host] /\ phase'[Host] = phase[Host]
  BY <1>1, HostIsMember DEF Join, EndTransition, requestFullState, Leave, LoseHost
<1>3. ASSUME NEW t \in {"CONNECT", "REQUEST_FULL_STATE", "DISCONNECT"}
      PROVE  [type |-> t] \in ControlPacket
  BY DEF ControlPacket
<1>4. SUFFICES \E q : up' = [up EXCEPT ![g] = q] /\ AddsNew(q, g, ed[Host])
  BY <1>1, <1>2, <1>4 DEF HInv, HostExactState, AddsAreNew
<1>5. CASE EndTransition(g)
  BY <1>1, <1>5 DEF EndTransition
<1>6. CASE Join(g)
  BY <1>1, <1>3, <1>6, QueuesAdd DEF Join
<1>7. CASE requestFullState(g)
  BY <1>1, <1>3, <1>7, QueuesAdd DEF requestFullState
<1>8. CASE Leave(g) \/ LoseHost(g)
  <2>1. PICK n \in 0 .. Len(up[g]) :
           up' = [up EXCEPT ![g] = Append(SubSeq(up[g], 1, n), [type |-> "DISCONNECT"])]
    BY <1>8 DEF Leave, LoseHost
  <2> QED BY <1>1, <1>3, <2>1, QueuesAdd
<1> QED BY <1>5, <1>6, <1>7, <1>8

\* What the host numbers is to come, so it is new.
LEMMA HostNumbers ==
    ASSUME HInv, HalfExact(ed[Host]), NEW t \in trackExistingObjects(ed[Host], Host)
    PROVE  Exact(t) /\ NoGuestUid(ed[Host], t)
<1> DEFINE e == ed[Host]
<1>1. Good(e) /\ phase[Host] # "gone"
  BY HostIsMember, SoundGood DEF HInv, UInv, IInv, HostStarts
<1>2. ASSUME NEW k \in e.next .. (MaxUid - 1) PROVE ~Knows(e, <<Host, k>>)
  <2>1. <<Host, k>> \in Uid /\ Future(<<Host, k>>)
    BY <1>1, ConstantsAssumption, HostIsMember DEF Uid, Future, Good, EditorState
  <2> QED BY <2>1, HostIsMember DEF HInv, UInv, FutureUnheard, Unheard
<1> QED BY <1>1, <1>2, TrackExistingExact

\* Starting to host: nothing was tracked.
LEMMA StartExact ==
    ASSUME HInv, StartHosting
    PROVE  HostExactState' /\ AddsAreNew'
<1>1. PICK t \in trackExistingObjects(ed[Host], Host) : ed' = [ed EXCEPT ![Host] = t]
  BY DEF StartHosting
<1>2. HalfExact(ed[Host])
  BY DEF HInv, HostStarts, StartHosting, HalfExact, isTrackedObject
<1>3. Exact(t) /\ NoGuestUid(ed[Host], t)
  BY <1>2, HostNumbers
<1>4. ed'[Host] = t
  BY <1>1, HostIsMember DEF HInv, UInv, IInv, Sound
<1> QED BY <1>1, <1>3, <1>4, HostStep DEF StartHosting, HostExactState

\* Answering with a full state.
LEMMA AnswerExact ==
    ASSUME HInv, NEW g \in Guests, phase[Host] = "editor", up[g] # <<>>,
           AnswerWithFullState(g)
    PROVE  HostExactState' /\ AddsAreNew'
<1>1. PICK r \in sendFullState(ed[Host]) :
         ed' = [ed EXCEPT ![Host] = r.ed] /\ up' = [up EXCEPT ![g] = Tail(up[g])]
  BY DEF AnswerWithFullState
<1>2. Good(ed[Host]) /\ HalfExact(ed[Host])
  BY HostIsMember, SoundGood DEF HInv, UInv, IInv, Exact
<1>3. r.ed \in trackExistingObjects(ed[Host], Host)
  BY <1>2, FullStateLearns
<1>4. Exact(r.ed) /\ NoGuestUid(ed[Host], r.ed)
  BY <1>2, <1>3, HostNumbers
<1>5. ed'[Host] = r.ed
  BY <1>1, HostIsMember DEF HInv, UInv, IInv, Sound
<1> QED BY <1>1, <1>4, <1>5, HostStep DEF HostExactState

\* The host applies a guest's packet: a new UID leaves the queues with it.
LEMMA HostReceivesExact ==
    ASSUME HInv, NEW g \in Guests, HostReceives(g)
    PROVE  HostExactState' /\ AddsAreNew'
<1> DEFINE e == ed[Host]
           p == Head(up[g])
<1>1. PICK r \in handlePacket(e, Host, g, p) : ed' = [ed EXCEPT ![Host] = r.ed]
  BY DEF HostReceives
<1>2. /\ phase[Host] = "editor" /\ up' = [up EXCEPT ![g] = Tail(up[g])]
      /\ p.type \in {"OBJECT_ADD", "OBJECT_DELETE", "OBJECT_UPDATE"}
  BY DEF HostReceives
<1>3. /\ g \in Members /\ Good(e) /\ Exact(e) /\ AddsNew(up[g], g, e)
      /\ up \in [Guests -> Seq(SentByGuests)] /\ up[g] \in Seq(SentByGuests)
  BY <1>2, HostIsMember, SoundGood DEF Members, HInv, UInv, IInv, AddsAreNew
<1>4. p \in ObjectPacket /\ up[g] # <<>> /\ p = up[g][1] /\ 1 \in DOMAIN up[g]
  BY <1>3, HeadOfUp DEF HostReceives, HInv, UInv
<1>5. ed'[Host] = r.ed
  BY <1>1, HostIsMember DEF HInv, UInv, IInv, Sound
<1> HIDE DEF e, p
<1>6. p.type = "OBJECT_ADD" => p.uid[1] = g /\ e.synced[p.uid] = NoObj
  BY <1>3, <1>4 DEF AddsNew
<1>7. /\ Exact(r.ed)
      /\ \A w \in Uid : e.synced[w] = NoObj /\ (p.type = "OBJECT_ADD" => w # p.uid) =>
            r.ed.synced[w] = NoObj
  BY <1>1, <1>2, <1>3, <1>4, <1>6, HandlerExact
<1>8. ASSUME NEW h \in Guests PROVE AddsNew(up'[h], h, r.ed)
  <2> DEFINE q == up'[h]
  <2>1. q \in Seq(SentByGuests) /\ AddsNew(q, h, e)
    <3>1. CASE h = g
      BY <1>2, <1>3, <1>4, <3>1, QueuesAdd
    <3>2. CASE h # g
      BY <1>2, <1>3, <3>2 DEF HInv, AddsAreNew, e
    <3> QED BY <3>1, <3>2
  <2>2. ASSUME NEW i \in DOMAIN q, q[i].type = "OBJECT_ADD"
        PROVE  q[i].uid \in Uid /\ (p.type = "OBJECT_ADD" => q[i].uid # p.uid)
    <3>1. q[i] \in SentByGuests
      BY <2>1, <2>2
    <3>2. q[i].uid \in Uid /\ q[i].uid[1] = h
      BY <2>1, <2>2, <3>1
         DEF AddsNew, SentByGuests, ObjectPacket, StringPacket, DeletePacket, BatchPacket, ControlPacket
    <3>3. CASE h # g
      BY <1>6, <3>2, <3>3
    <3>4. CASE h = g
      <4>1. q = Tail(up[g])
        BY <1>2, <1>3, <3>4
      <4>2. i + 1 \in DOMAIN up[g] /\ q[i] = up[g][i + 1] /\ i + 1 # 1
        BY <1>3, <1>4, <2>2, <4>1
      <4> QED BY <1>3, <1>4, <2>2, <3>2, <4>2 DEF AddsNew
    <3> QED BY <3>3, <3>4
  <2> HIDE DEF q
  <2>3. AddsNew(q, h, r.ed)
    BY <1>7, <2>1, <2>2 DEF AddsNew
  <2> QED BY <2>3 DEF q
<1> QED BY <1>5, <1>7, <1>8 DEF AddsAreNew, HostExactState

\* One event of poll.
LEMMA PollExact ==
    ASSUME HInv, NEW g \in Guests, Poll(g)
    PROVE  HostExactState' /\ AddsAreNew'
<1>1. CASE PollConnect(g)
  BY <1>1, AnswerExact DEF PollConnect, Polls
<1>2. CASE PollRequest(g)
  BY <1>2, AnswerExact DEF PollRequest, Polls
<1>3. CASE PollDisconnect(g)
  <2>1. ed' = [ed EXCEPT ![Host] = ed[Host]]
    BY <1>3 DEF PollDisconnect, HInv, UInv, IInv, Sound
  <2>2. AddsAreNew'
    BY <1>3, <2>1, HostStep DEF PollDisconnect, Polls, NoGuestUid
  <2> QED BY <1>3, <2>2 DEF PollDisconnect, HInv, HostExactState
<1>4. CASE HostReceives(g)
  BY <1>4, HostReceivesExact
<1>5. CASE GuestReceives(g)
  <2>1. PICK t : ed' = [ed EXCEPT ![g] = t]
    BY <1>5 DEF GuestReceives
  <2>2. ed'[Host] = ed[Host]
    BY <2>1, HostIsMember, ConstantsAssumption DEF HInv, UInv, IInv, Sound
  <2>3. up' = up /\ phase' = phase
    BY <1>5, GuestReceivesSilent DEF GuestReceives, HInv, UInv
  <2> QED BY <2>2, <2>3 DEF HInv, AddsAreNew, HostExactState
<1>6. CASE GuestDrops(g)
  BY <1>6 DEF GuestDrops, HInv, AddsAreNew, HostExactState
<1> QED BY <1>1, <1>2, <1>3, <1>4, <1>5, <1>6 DEF Poll

\* Before it hosts, nothing happens to the host's editor.
LEMMA StepStarts ==
    ASSUME HInv, [Next]_vars
    PROVE  HostStarts'
<1>1. phase \in [Members -> Phases] /\ ed \in [Members -> EditorState]
  BY DEF HInv, UInv, IInv, Sound
<1>2. ASSUME phase'[Host] = phase[Host], ed'[Host] = ed[Host] \/ phase[Host] = "editor"
      PROVE  HostStarts'
  BY <1>2 DEF HInv, HostStarts
<1>3. CASE StartHosting
  BY <1>1, <1>3, HostIsMember DEF StartHosting, HostStarts
<1>4. CASE UNCHANGED vars
  BY <1>2, <1>4 DEF vars
<1>5. ASSUME NEW m \in Members, Edit(m) PROVE HostStarts'
  <2>1. phase' = phase /\ phase[m] = "editor" /\ \E t : ed' = ed \/ ed' = [ed EXCEPT ![m] = t]
    BY <1>5 DEF Edit, AddObject, RemoveObject, transformObjectCall, rotateObjects, updateButtons, MayEdit
  <2> QED BY <1>1, <1>2, <2>1, HostIsMember
<1>6. ASSUME NEW g \in Guests, Session(g) PROVE HostStarts'
  <2>1. g # Host
    BY ConstantsAssumption
  <2>2. CASE Join(g) \/ EndTransition(g) \/ requestFullState(g) \/ Leave(g) \/ LoseHost(g)
    BY <1>1, <1>2, <2>1, <2>2, HostIsMember
       DEF Join, EndTransition, requestFullState, Leave, LoseHost
  <2>3. CASE PollConnect(g) \/ PollRequest(g) \/ HostReceives(g)
    BY <1>2, <2>3 DEF PollConnect, PollRequest, HostReceives, Polls
  <2>4. CASE PollDisconnect(g) \/ GuestDrops(g)
    BY <1>2, <2>4 DEF PollDisconnect, GuestDrops
  <2>5. CASE GuestReceives(g)
    <3>1. PICK t : ed' = [ed EXCEPT ![g] = t]
      BY <2>5 DEF GuestReceives
    <3>2. ed'[Host] = ed[Host]
      BY <1>1, <2>1, <3>1, HostIsMember
    <3> QED BY <1>2, <2>5, <3>2 DEF GuestReceives
  <2> QED BY <1>6, <2>2, <2>3, <2>4, <2>5 DEF Session, Poll
<1> QED BY <1>3, <1>4, <1>5, <1>6 DEF Next

\* At the start the host tracks nothing and nothing is in flight.
LEMMA InitHInv == Init => HInv
<1> SUFFICES ASSUME Init PROVE HInv
  OBVIOUS
<1>1. UInv
  BY InitUInv
<1>2. phase[Host] = "out"
  BY HostIsMember DEF Init
<1>3. ed[Host].synced = Emptied.synced /\ ed[Host].o2u = Emptied.o2u
  BY HostIsMember DEF Init, Emptied
<1>4. HostStarts
  BY <1>2, <1>3 DEF HostStarts, Emptied
<1>5. AddsAreNew
  BY DEF Init, AddsAreNew, AddsNew
<1> QED BY <1>1, <1>2, <1>4, <1>5 DEF HInv

\* Every step keeps the host's maps exact.
LEMMA NextHInv == HInv /\ [Next]_vars => HInv'
<1> SUFFICES ASSUME HInv, [Next]_vars PROVE HInv'
  OBVIOUS
<1>1. UInv' /\ HostStarts'
  BY NextUInv, StepStarts DEF HInv
<1>2. HostExactState' /\ AddsAreNew'
  <2>1. CASE StartHosting
    BY <2>1, StartExact
  <2>2. ASSUME NEW g \in Guests, Session(g) PROVE HostExactState' /\ AddsAreNew'
    BY <2>2, SessionExact, PollExact DEF Session
  <2>3. ASSUME NEW m \in Members, Edit(m) PROVE HostExactState' /\ AddsAreNew'
    BY <2>3, HostEdits, GuestEdits DEF Members
  <2>4. CASE UNCHANGED vars
    BY <2>4 DEF vars, HInv, HostExactState, AddsAreNew
  <2> QED BY <2>1, <2>2, <2>3, <2>4 DEF Next
<1> QED BY <1>1, <1>2 DEF HInv, HostExactState

\* While it hosts, each object of the host's level is tracked, under a UID
\* that names it, so no edit of its user goes unsent; and it tracks no other.
THEOREM HostStaysExact == Spec => []HostExact
<1>1. HInv => HostExact
  BY DEF HInv, Exact, HalfExact, HostExact, Live
<1> QED BY <1>1, InitHInv, NextHInv, PTL DEF Spec

-----------------------------------------------------------------------------
(* What a member has under a UID                                           *)

\* A member has what it tracks.
LEMMA CopyTracked ==
    ASSUME NEW e, Good(e), NEW u \in Uid
    PROVE  /\ Copy(e, u) \in Val \cup {NoVal}
           /\ Copy(e, u) = NoVal <=> e.synced[u] = NoObj
           /\ Copy(e, u) = NoVal <=> u \notin Tracked(e)
<1>1. CASE e.synced[u] = NoObj
  BY <1>1 DEF Copy, Tracked
<1>2. CASE e.synced[u] # NoObj
  <2>1. e.synced[u] \in Obj /\ e.val[e.synced[u]] # NoVal
    BY <1>2 DEF Good, EditorState, MapsAgree
  <2>2. Copy(e, u) = e.val[e.synced[u]]
    BY <1>2 DEF Copy
  <2>3. Copy(e, u) \in Val \cup {NoVal}
    BY <2>1, <2>2 DEF Good, EditorState
  <2> QED BY <1>2, <2>1, <2>2, <2>3 DEF Tracked
<1> QED BY <1>1, <1>2

\* Copies are read from two maps.
LEMMA CopySame ==
    ASSUME NEW e, Good(e), NEW t, NEW u \in Uid, t.synced[u] = e.synced[u],
           e.synced[u] # NoObj => t.val[e.synced[u]] = e.val[e.synced[u]]
    PROVE  Copy(t, u) = Copy(e, u)
BY DEF Copy

\* Who is not in the editor has nothing.
LEMMA CopyEmptied ==
    ASSUME NEW u \in Uid PROVE Copy(Emptied, u) = NoVal
BY DEF Copy, Emptied

\* Making an object for a packet gives its UID the packet's value, if the
\* string makes an object, and leaves the other UIDs what they had.
LEMMA RecreateCopies ==
    ASSUME NEW e, Good(e), NEW m \in Members, NEW from \in Members,
           NEW p \in StringPacket, NEW r \in Recreate(e, m, from, p), NEW u \in Uid
    PROVE  /\ u # p.uid => Copy(r.ed, u) = Copy(e, u)
           /\ u = p.uid => \/ Copy(r.ed, u) = p.val
                           \/ p.val \in Truncated /\ Copy(r.ed, u) = Copy(e, u)
<1> USE ConstantsAssumption
<1>0. p.uid \in Uid /\ p.val \in Val
  BY DEF StringPacket
<1>1. CASE r = Result(e, <<>>) /\ p.val \in Truncated
  BY <1>1 DEF Result
<1>2. ASSUME NEW o \in Fresh(e),
             r = LET a == addSpecial(e, m, o, p.val, "packet") IN
                 Result(setOwner(trackObject(a.ed, p.uid, o), p.uid, from), a.out)
      PROVE  /\ u # p.uid => Copy(r.ed, u) = Copy(e, u)
             /\ u = p.uid => Copy(r.ed, u) = p.val
  <2> DEFINE t == r.ed
  <2>1. /\ t.val = [e.val EXCEPT ![o] = p.val]
        /\ t.synced = [e.synced EXCEPT ![p.uid] = o]
    BY <1>2 DEF addSpecial, Result, setValue, trackObject, setOwner, Good, EditorState
  <2>2. /\ e.val \in [Obj -> Val \cup {NoVal}]
        /\ e.synced \in [Uid -> Obj \cup {NoObj}] /\ o \in Obj /\ o # NoObj
    BY DEF Good, EditorState, Fresh
  <2>3. e.synced[u] # o
    BY FreshUnnamed DEF Unnamed
  <2> HIDE DEF t
  <2>4. CASE u = p.uid
    BY <1>0, <2>1, <2>2, <2>4 DEF Copy, t
  <2>5. CASE u # p.uid
    <3>1. t.synced[u] = e.synced[u]
      BY <1>0, <2>1, <2>2, <2>5
    <3>2. e.synced[u] # NoObj => t.val[e.synced[u]] = e.val[e.synced[u]]
      BY <2>1, <2>2, <2>3
    <3> QED BY <2>5, <3>1, <3>2, CopySame DEF t
  <2> QED BY <2>4, <2>5
<1> QED BY <1>1, <1>2 DEF Recreate

\* Removing the object of a UID takes that UID's and no other.
LEMMA TakeAwayCopies ==
    ASSUME NEW e, Good(e), NEW w \in Uid, e.synced[w] # NoObj,
           NEW t, t = setValue(untrackObject(e, w), e.synced[w], NoVal),
           NEW u \in Uid
    PROVE  Copy(t, u) = IF u = w THEN NoVal ELSE Copy(e, u)
<1> USE ConstantsAssumption
<1> DEFINE o == e.synced[w]
<1>1. o \in Obj /\ e.o2u[o] = w
  BY DEF Good, EditorState, MapsAgree
<1>2. /\ t.val = [e.val EXCEPT ![o] = NoVal]
      /\ t.synced = [e.synced EXCEPT ![w] = NoObj]
  BY <1>1 DEF untrackObject, setValue, Good, EditorState
<1>3. /\ e.val \in [Obj -> Val \cup {NoVal}] /\ e.synced \in [Uid -> Obj \cup {NoObj}]
  BY DEF Good, EditorState
<1>4. CASE u = w
  BY <1>2, <1>3, <1>4 DEF Copy
<1>5. CASE u # w
  <2>1. e.synced[u] # o
    BY <1>1, <1>5 DEF Good, EditorState, MapsAgree
  <2> HIDE DEF o
  <2>2. t.synced[u] = e.synced[u] /\ (e.synced[u] # NoObj => t.val[e.synced[u]] = e.val[e.synced[u]])
    BY <1>2, <1>3, <1>5, <2>1
  <2> QED BY <1>5, <2>2, CopySame
<1> QED BY <1>4, <1>5

\* A batch gives its UIDs their values.
LEMMA BatchCopies ==
    ASSUME NEW e, Good(e), NEW from \in Members, NEW p \in BatchPacket,
           NEW r \in onRemoteObjectsBatched(e, from, p), NEW u \in Uid
    PROVE  Copy(r.ed, u) = IF u \in DOMAIN p.objs THEN p.objs[u] ELSE Copy(e, u)
<1> USE ConstantsAssumption
<1> DEFINE objs == p.objs
<1>1. PICK uids \in SUBSET Uid : objs \in [uids -> Val]
  BY DEF BatchPacket
<1>2. PICK at \in Injection(uids, Fresh(e)) : r.ed = placeObjects(e, from, objs, at)
  BY <1>1 DEF onRemoteObjectsBatched, Result
<1>3. uids = DOMAIN p.objs
  BY <1>1
<1> HIDE DEF objs
<1> DEFINE uidAt(o) == CHOOSE w \in DOMAIN at : at[w] = o
           placed == {o \in Obj : \E w \in DOMAIN at : at[w] = o}
           V == [o \in Obj |-> IF o \in placed THEN objs[uidAt(o)] ELSE e.val[o]]
           S == [w \in Uid |-> IF w \in DOMAIN at THEN at[w] ELSE e.synced[w]]
           O == [o \in Obj |-> IF o \in placed THEN uidAt(o) ELSE e.o2u[o]]
           W == [w \in Uid |-> IF w \in DOMAIN at THEN from ELSE e.owner[w]]
           t == placeObjects(e, from, objs, at)
<1>4. DOMAIN at = uids /\ at \in [uids -> Fresh(e)] /\ \A a, b \in uids : a # b => at[a] # at[b]
  BY DEF Injection, IsInjective
<1>5. t.val = V /\ t.synced = S
  <2>1. t = [e EXCEPT !.val = V, !.synced = S, !.o2u = O, !.owner = W]
    BY DEF placeObjects
  <2> HIDE DEF t, V, S, O, W
  <2>2. e = [val |-> e.val, synced |-> e.synced, o2u |-> e.o2u,
             owner |-> e.owner, next |-> e.next]
    BY DEF Good, EditorState
  <2> QED BY <2>1, <2>2
<1> HIDE DEF t
<1>6. CASE u \in uids
  <2>1. at[u] \in Obj /\ at[u] # NoObj /\ at[u] \in placed
    BY <1>4, <1>6 DEF Fresh
  <2>2. uidAt(at[u]) = u
    BY <1>4, <1>6
  <2>3. S[u] = at[u] /\ V[at[u]] = objs[u]
    BY <1>4, <1>6, <2>1, <2>2
  <2> HIDE DEF S, V
  <2>4. Copy(t, u) = objs[u]
    BY <1>5, <2>1, <2>3 DEF Copy
  <2> QED BY <1>2, <1>3, <1>6, <2>4 DEF t, objs
<1>7. CASE u \notin uids
  <2>1. t.synced[u] = e.synced[u]
    BY <1>4, <1>5, <1>7
  <2>2. ASSUME e.synced[u] # NoObj PROVE t.val[e.synced[u]] = e.val[e.synced[u]]
    <3>1. e.synced[u] \in Obj /\ e.val[e.synced[u]] # NoVal
      BY <2>2 DEF Good, EditorState, MapsAgree
    <3>2. e.synced[u] \notin placed
      BY <1>4, <3>1 DEF Fresh, Live
    <3> QED BY <1>5, <3>1, <3>2
  <2>3. Copy(t, u) = Copy(e, u)
    BY <2>1, <2>2, CopySame
  <2> QED BY <1>2, <1>3, <1>7, <2>3 DEF t
<1> QED BY <1>6, <1>7

\* A member that had had for u has now after it got packet p.
Heard(p, u, had, has) ==
    /\ ~Mentions(p, u) => has = had
    /\ Mentions(p, u) /\ p.type = "OBJECT_DELETE" => has = NoVal
    /\ Mentions(p, u) /\ p.type = "OBJECT_UPDATE" =>
          /\ had = NoVal => has = NoVal
          /\ had # NoVal => has = p.val \/ (p.val \in Truncated /\ has = NoVal)
    /\ Mentions(p, u) /\ p.type = "OBJECT_ADD" =>
          has = p.val \/ (p.val \in Truncated /\ has = had)
    /\ Mentions(p, u) /\ p.type = "OBJECT_BATCH" => has = p.objs[u]

\* What each handler does to the copies.
LEMMA HandlerCopies ==
    ASSUME NEW e, Good(e), NEW m \in Members, NEW from \in Members,
           NEW p \in ObjectPacket, NEW u \in Uid,
           NEW r \in handlePacket(e, m, from, p)
    PROVE  Heard(p, u, Copy(e, u), Copy(r.ed, u))
<1>1. CASE p.type = "OBJECT_ADD"
  <2>1. p \in StringPacket
    BY <1>1 DEF ObjectPacket, DeletePacket, BatchPacket
  <2>2. r \in Recreate(e, m, from, p)
    BY <1>1 DEF handlePacket, onRemoteObjectAdded
  <2>3. Mentions(p, u) <=> u = p.uid
    BY <1>1 DEF Mentions
  <2> QED BY <1>1, <2>1, <2>2, <2>3, RecreateCopies DEF Heard
<1>2. CASE p.type = "OBJECT_DELETE"
  <2>1. p.uid \in Uid
    BY <1>2 DEF ObjectPacket, StringPacket, DeletePacket, BatchPacket
  <2>2. r \in onRemoteObjectDestroyed(e, p)
    BY <1>2 DEF handlePacket
  <2>3. Mentions(p, u) <=> u = p.uid
    BY <1>2 DEF Mentions
  <2>4. CASE e.synced[p.uid] = NoObj
    <3>1. r.ed = e /\ Copy(e, p.uid) = NoVal
      BY <2>2, <2>4 DEF onRemoteObjectDestroyed, Result, Copy
    <3> QED BY <1>2, <2>3, <3>1 DEF Heard
  <2>5. CASE e.synced[p.uid] # NoObj
    <3>1. e.synced[p.uid] \in Live(e)
      BY <2>1, <2>5 DEF Good, EditorState, MapsAgree, Live
    <3>2. r.ed = setValue(untrackObject(e, p.uid), e.synced[p.uid], NoVal)
      BY <2>2, <2>5, <3>1 DEF onRemoteObjectDestroyed, removeObject, Result
    <3>3. Copy(r.ed, u) = IF u = p.uid THEN NoVal ELSE Copy(e, u)
      BY <2>1, <2>5, <3>2, TakeAwayCopies
    <3> QED BY <1>2, <2>3, <3>3 DEF Heard
  <2> QED BY <2>4, <2>5
<1>3. CASE p.type = "OBJECT_UPDATE"
  <2>1. p \in StringPacket /\ p.uid \in Uid
    BY <1>3 DEF ObjectPacket, StringPacket, DeletePacket, BatchPacket
  <2>2. r \in onRemoteObjectModified(e, m, from, p)
    BY <1>3 DEF handlePacket
  <2>3. Mentions(p, u) <=> u = p.uid
    BY <1>3 DEF Mentions
  <2>4. CASE e.synced[p.uid] = NoObj
    <3>1. r.ed = e /\ Copy(e, p.uid) = NoVal
      BY <2>2, <2>4 DEF onRemoteObjectModified, Result, Copy
    <3> QED BY <1>3, <2>3, <3>1 DEF Heard
  <2>5. CASE e.synced[p.uid] # NoObj
    <3> DEFINE t == setValue(untrackObject(e, p.uid), e.synced[p.uid], NoVal)
    <3>1. Good(t) /\ \E q \in Recreate(t, m, from, p) : r.ed = q.ed
      BY <2>1, <2>2, <2>5, ModifiedRecreates
    <3>2. Copy(t, u) = IF u = p.uid THEN NoVal ELSE Copy(e, u)
      BY <2>1, <2>5, TakeAwayCopies
    <3>3. Copy(e, p.uid) # NoVal
      BY <2>1, <2>5, CopyTracked
    <3> HIDE DEF t
    <3>4. /\ u # p.uid => Copy(r.ed, u) = Copy(t, u)
          /\ u = p.uid => \/ Copy(r.ed, u) = p.val
                          \/ p.val \in Truncated /\ Copy(r.ed, u) = Copy(t, u)
      BY <2>1, <3>1, RecreateCopies
    <3> QED BY <1>3, <2>3, <3>2, <3>3, <3>4 DEF Heard
  <2> QED BY <2>4, <2>5
<1>4. CASE p.type = "OBJECT_BATCH"
  <2>1. p \in BatchPacket /\ (Mentions(p, u) <=> u \in DOMAIN p.objs)
    BY <1>4 DEF ObjectPacket, DeletePacket, StringPacket, Mentions
  <2>2. r \in onRemoteObjectsBatched(e, from, p)
    BY <1>4 DEF handlePacket
  <2> QED BY <1>4, <2>1, <2>2, BatchCopies DEF Heard
<1> QED BY <1>1, <1>2, <1>3, <1>4
        DEF ObjectPacket, StringPacket, DeletePacket, BatchPacket

\* What a member that had had for u has now that its user's edit was told with p.
Told(p, u, had, has) ==
    /\ ~Mentions(p, u) => has = had
    /\ Mentions(p, u) /\ p.type = "OBJECT_DELETE" => has = NoVal
    /\ Mentions(p, u) /\ p.type = "OBJECT_UPDATE" => (has = NoVal <=> had = NoVal)
    /\ Mentions(p, u) /\ p.type = "OBJECT_ADD" => has = p.val

\* An object is added under the next UID.
LEMMA AddTells ==
    ASSUME NEW e, Good(e), NEW m \in Members, NEW o \in Fresh(e), NEW v \in Val,
           e.next < MaxUid, NEW r, r = addSpecial(e, m, o, v, "user")
    PROVE  \E p \in StringPacket :
              /\ r.out = <<p>> /\ p.type = "OBJECT_ADD" /\ p.uid = <<m, e.next>> /\ p.val = v
              /\ \A u \in Uid : Told(p, u, Copy(e, u), Copy(r.ed, u))
<1> USE ConstantsAssumption
<1> DEFINE w == <<m, e.next>>
           p == [type |-> "OBJECT_ADD", uid |-> w, val |-> v]
           t == r.ed
<1>1. w \in Uid /\ o \in Obj /\ o # NoObj
  BY DEF Good, EditorState, Uid, Fresh
<1>2. /\ t.val = [e.val EXCEPT ![o] = v]
      /\ t.synced = [e.synced EXCEPT ![w] = o]
      /\ r.out = <<p>>
  BY <1>1 DEF addSpecial, onLocalObjectAdded, Result, setValue, trackObject, setOwner, Good, EditorState
<1>3. /\ e.val \in [Obj -> Val \cup {NoVal}]
      /\ e.synced \in [Uid -> Obj \cup {NoObj}]
  BY DEF Good, EditorState
<1>4. p \in StringPacket /\ p.type = "OBJECT_ADD" /\ p.uid = w /\ p.val = v
  BY <1>1 DEF StringPacket
<1> HIDE DEF w, p, t
<1>5. ASSUME NEW u \in Uid PROVE Told(p, u, Copy(e, u), Copy(t, u))
  <2>1. Mentions(p, u) <=> u = w
    BY <1>4 DEF Mentions
  <2>2. CASE u = w
    <3>1. Copy(t, u) = v
      BY <1>1, <1>2, <1>3, <2>2 DEF Copy
    <3> QED BY <1>4, <2>1, <2>2, <3>1 DEF Told
  <2>3. CASE u # w
    <3>1. e.synced[u] # o
      BY FreshUnnamed DEF Unnamed
    <3>2. t.synced[u] = e.synced[u] /\ (e.synced[u] # NoObj => t.val[e.synced[u]] = e.val[e.synced[u]])
      BY <1>1, <1>2, <1>3, <2>3, <3>1
    <3>3. Copy(t, u) = Copy(e, u)
      BY <3>2, CopySame
    <3> QED BY <2>1, <2>3, <3>3 DEF Told
  <2> QED BY <2>2, <2>3
<1> QED BY <1>2, <1>4, <1>5 DEF t, w

\* An object is removed, with its UID if it has one.
LEMMA RemoveTells ==
    ASSUME NEW e, Good(e), NEW o \in Live(e), NEW r, r = removeObject(e, o, "user")
    PROVE  \/ r.out = <<>> /\ ~isTrackedObject(e, o) /\ \A u \in Uid : Copy(r.ed, u) = Copy(e, u)
           \/ \E p \in DeletePacket :
                 /\ r.out = <<p>> /\ p.uid = e.o2u[o]
                 /\ \A u \in Uid : Told(p, u, Copy(e, u), Copy(r.ed, u))
<1> USE ConstantsAssumption
<1>0. /\ o \in Obj /\ o # NoObj /\ e.val \in [Obj -> Val \cup {NoVal}]
      /\ e.synced \in [Uid -> Obj \cup {NoObj}] /\ e.o2u \in [Obj -> Uid \cup {NoUid}]
  BY DEF Good, EditorState, Live
<1>1. CASE ~isTrackedObject(e, o)
  <2>1. r.out = <<>> /\ r.ed = setValue(e, o, NoVal)
    BY <1>1 DEF removeObject, Result
  <2>2. r.ed.val = [e.val EXCEPT ![o] = NoVal] /\ r.ed.synced = e.synced
    BY <2>1 DEF setValue, Good, EditorState
  <2>3. ASSUME NEW u \in Uid PROVE Copy(r.ed, u) = Copy(e, u)
    <3>1. e.synced[u] # o
      BY <1>0, <1>1 DEF Good, MapsAgree, isTrackedObject
    <3> QED BY <1>0, <2>2, <3>1, CopySame
  <2> QED BY <1>1, <2>1, <2>3
<1>2. CASE isTrackedObject(e, o)
  <2> DEFINE w == e.o2u[o]
             a == untrackObject(e, w)
             p == [type |-> "OBJECT_DELETE", uid |-> w]
  <2>1. w \in Uid
    BY <1>0, <1>2 DEF isTrackedObject
  <2>2. r.out = <<p>> /\ r.ed = setValue(a, o, NoVal)
    BY <1>2 DEF removeObject, onLocalObjectDestroyed, Result
  <2>3. p \in DeletePacket /\ p.uid = w /\ p.type = "OBJECT_DELETE"
    BY <2>1 DEF DeletePacket
  <2>4. a.val = e.val /\ a.synced = [e.synced EXCEPT ![w] = NoObj]
    <3>1. CASE e.synced[w] = NoObj
      BY <1>0, <2>1, <3>1 DEF untrackObject
    <3>2. CASE e.synced[w] # NoObj
      BY <1>0, <2>1, <3>2 DEF untrackObject, Good, EditorState
    <3> QED BY <3>1, <3>2
  <2>5. r.ed.val = [e.val EXCEPT ![o] = NoVal] /\ r.ed.synced = [e.synced EXCEPT ![w] = NoObj]
    <3>1. Good(a)
      BY <2>1, UntrackGood
    <3> HIDE DEF a
    <3> QED BY <2>2, <2>4, <3>1 DEF setValue, Good, EditorState
  <2>6. \A x \in Uid : e.synced[x] = o => x = w
    BY <1>0 DEF Good, MapsAgree
  <2> HIDE DEF p, w
  <2>7. ASSUME NEW u \in Uid PROVE Told(p, u, Copy(e, u), Copy(r.ed, u))
    <3>1. Mentions(p, u) <=> u = w
      BY <2>3 DEF Mentions
    <3>2. CASE u = w
      <4>1. Copy(r.ed, u) = NoVal
        BY <1>0, <2>1, <2>5, <3>2 DEF Copy
      <4> QED BY <2>3, <3>1, <3>2, <4>1 DEF Told
    <3>3. CASE u # w
      <4>1. e.synced[u] # o
        BY <2>6, <3>3
      <4>2. r.ed.synced[u] = e.synced[u]
            /\ (e.synced[u] # NoObj => r.ed.val[e.synced[u]] = e.val[e.synced[u]])
        BY <1>0, <2>1, <2>5, <3>3, <4>1
      <4>3. Copy(r.ed, u) = Copy(e, u)
        BY <4>2, CopySame
      <4> QED BY <3>1, <3>3, <4>3 DEF Told
    <3> QED BY <3>2, <3>3
  <2> QED BY <2>2, <2>3, <2>7 DEF w
<1> QED BY <1>1, <1>2

\* The news of an object, which may have been changed.
LEMMA ChangeTells ==
    ASSUME NEW e, Good(e), NEW o \in Live(e), NEW t, NEW v \in Val,
           t = e \/ t = setValue(e, o, v), NEW b \in {e, t},
           NEW s, s = onLocalObjectModified(b, o)
    PROVE  \/ s = <<>> /\ ~isTrackedObject(e, o) /\ \A u \in Uid : Copy(t, u) = Copy(e, u)
           \/ \E p \in StringPacket :
                 /\ s = <<p>> /\ p.type = "OBJECT_UPDATE" /\ p.uid = e.o2u[o] /\ p.val = b.val[o]
                 /\ \A u \in Uid : Told(p, u, Copy(e, u), Copy(t, u))
<1> USE ConstantsAssumption
<1>0. /\ o \in Obj /\ o # NoObj /\ e.val \in [Obj -> Val \cup {NoVal}] /\ e.val[o] # NoVal
      /\ e.synced \in [Uid -> Obj \cup {NoObj}] /\ e.o2u \in [Obj -> Uid \cup {NoUid}]
  BY DEF Good, EditorState, Live
<1>1. /\ t.synced = e.synced /\ t.o2u = e.o2u
      /\ \A x \in Obj : x # o => t.val[x] = e.val[x]
      /\ t.val[o] \in Val
  BY <1>0 DEF setValue, Good, EditorState
<1>2. b.o2u = e.o2u /\ b.val[o] \in Val
  BY <1>0, <1>1
<1>3. ASSUME NEW u \in Uid, e.synced[u] # o PROVE Copy(t, u) = Copy(e, u)
  BY <1>0, <1>1, <1>3, CopySame
<1>4. ASSUME NEW u \in Uid, e.synced[u] = o PROVE u = e.o2u[o] /\ Copy(e, u) # NoVal /\ Copy(t, u) # NoVal
  BY <1>0, <1>1, <1>4 DEF Good, MapsAgree, Copy
<1>5. CASE ~isTrackedObject(e, o)
  <2>1. s = <<>>
    BY <1>2, <1>5 DEF onLocalObjectModified, isTrackedObject
  <2>2. \A u \in Uid : e.synced[u] # o
    BY <1>4, <1>5 DEF isTrackedObject
  <2> QED BY <1>3, <1>5, <2>1, <2>2
<1>6. CASE isTrackedObject(e, o)
  <2> DEFINE w == e.o2u[o]
             p == [type |-> "OBJECT_UPDATE", uid |-> w, val |-> b.val[o]]
  <2>1. w \in Uid
    BY <1>0, <1>6 DEF isTrackedObject
  <2>2. s = <<p>>
    BY <1>2, <1>6 DEF onLocalObjectModified, isTrackedObject
  <2>3. p \in StringPacket /\ p.uid = w /\ p.type = "OBJECT_UPDATE" /\ p.val = b.val[o]
    BY <1>2, <2>1 DEF StringPacket
  <2> HIDE DEF p, w
  <2>4. ASSUME NEW u \in Uid PROVE Told(p, u, Copy(e, u), Copy(t, u))
    <3>1. Mentions(p, u) <=> u = w
      BY <2>3 DEF Mentions
    <3>2. CASE e.synced[u] = o
      BY <1>4, <2>3, <3>1, <3>2 DEF Told, w
    <3>3. CASE e.synced[u] # o
      BY <1>3, <2>3, <3>1, <3>3 DEF Told
    <3> QED BY <3>2, <3>3
  <2> QED BY <2>2, <2>3, <2>4 DEF w
<1> QED BY <1>5, <1>6

\* The full state s has the host's value v of u once, and u not at all if the
\* host has none.
Full(s, u, v) ==
    /\ s \in Seq(BatchPacket)
    /\ v = NoVal => \A i \in DOMAIN s : ~Mentions(s[i], u)
    /\ v # NoVal => \E i \in DOMAIN s :
          /\ Mentions(s[i], u) /\ s[i].objs[u] = v
          /\ \A j \in DOMAIN s : Mentions(s[j], u) => j = i

\* Where every object is tracked there is nothing to number.
LEMMA NothingToNumber ==
    ASSUME NEW e, Good(e), Exact(e), NEW t \in trackExistingObjects(e, Host)
    PROVE  t.val = e.val /\ t.synced = e.synced /\ t.o2u = e.o2u
<1> DEFINE new == {o \in Live(e) : ~isTrackedObject(e, o)}
<1>1. PICK last \in e.next .. MaxUid :
         \E num \in Bijection(new, e.next .. (last - 1)) :
            t = numberObjects(e, Host, num, last)
  BY DEF trackExistingObjects
<1>2. PICK num \in Bijection(new, e.next .. (last - 1)) :
         t = numberObjects(e, Host, num, last)
  BY <1>1
<1>3. DOMAIN num = {}
  BY DEF Bijection, Injection, Exact
<1> DEFINE S == [u \in Uid |-> IF \E o \in DOMAIN num : u = <<Host, num[o]>>
                               THEN CHOOSE o \in DOMAIN num : u = <<Host, num[o]>>
                               ELSE e.synced[u]]
           O == [o \in Obj |-> IF o \in DOMAIN num THEN <<Host, num[o]>> ELSE e.o2u[o]]
<1>4. t = [e EXCEPT !.synced = S, !.o2u = O, !.next = last]
  BY <1>2, Zenon DEF numberObjects
<1>5. S = e.synced /\ O = e.o2u
  BY <1>3 DEF Good, EditorState
<1> HIDE DEF S, O
<1>6. e = [val |-> e.val, synced |-> e.synced, o2u |-> e.o2u,
           owner |-> e.owner, next |-> e.next]
  BY DEF Good, EditorState
<1> QED BY <1>4, <1>5, <1>6

\* A full state has each of the host's objects once and changes none.
LEMMA FullStateCopies ==
    ASSUME NEW e, Good(e), Exact(e), NEW r \in sendFullState(e), NEW u \in Uid
    PROVE  Copy(r.ed, u) = Copy(e, u) /\ Full(r.out, u, Copy(e, u))
<1> USE ConstantsAssumption
<1>1. PICK t \in trackExistingObjects(e, Host) :
         \E b \in Batches(t) : r = Result(t, b)
  BY DEF sendFullState
<1>2. PICK b \in Batches(t) : r = Result(t, b)
  BY <1>1
<1>3. r.ed = t /\ r.out = b
  BY <1>2 DEF Result
<1>4. t.val = e.val /\ t.synced = e.synced /\ t.o2u = e.o2u
  BY NothingToNumber
<1>5. Copy(t, u) = Copy(e, u)
  BY <1>4 DEF Copy
<1> DEFINE all == {t.o2u[o] : o \in Live(t)}
<1>6. PICK c \in Cuts(all) : b = [i \in DOMAIN c |-> batchOf(t, c[i])]
  BY DEF Batches
<1>7. /\ e.val \in [Obj -> Val \cup {NoVal}] /\ e.o2u \in [Obj -> Uid \cup {NoUid}]
      /\ e.synced \in [Uid -> Obj \cup {NoObj}]
  BY DEF Good, EditorState
<1>8. Live(t) = Live(e) /\ Live(e) \subseteq Obj
  BY <1>4 DEF Live
<1>9. ASSUME NEW w \in Uid
      PROVE  /\ w \in all <=> e.synced[w] # NoObj
             /\ w \in all => /\ \E o \in Live(t) : t.o2u[o] = w
                             /\ \A o \in Live(t) : t.o2u[o] = w => o = e.synced[w]
  <2>1. \A o \in Live(t) : t.o2u[o] = w => o = e.synced[w]
    BY <1>4, <1>8 DEF Exact, HalfExact
  <2>2. e.synced[w] # NoObj => e.synced[w] \in Live(t) /\ t.o2u[e.synced[w]] = w
    BY <1>4, <1>7, <1>8 DEF Good, MapsAgree, Live
  <2>3. w \in all => e.synced[w] # NoObj
    BY <1>8, <2>1
  <2> QED BY <2>1, <2>2, <2>3
<1>10. all \subseteq Uid
  BY <1>4, <1>7, <1>8 DEF Exact, isTrackedObject
<1> HIDE DEF all
<1>11. PICK n \in Nat : c \in [1 .. n -> SUBSET all]
  BY DEF Cuts
<1>12. UNION Range(c) = all /\ \A i, j \in DOMAIN c : i # j => c[i] \cap c[j] = {}
  BY DEF Cuts
<1>13. DOMAIN c = 1 .. n /\ \A i \in 1 .. n : c[i] \subseteq all
  BY <1>11
<1>14. ASSUME NEW S \in SUBSET all, NEW w \in S
       PROVE  (CHOOSE o \in Live(t) : t.o2u[o] = w) = e.synced[w]
  <2>1. w \in Uid /\ w \in all
    BY <1>10
  <2>2. \E o \in Live(t) : t.o2u[o] = w
    BY <1>9, <2>1
  <2>3. \A o \in Live(t) : t.o2u[o] = w => o = e.synced[w]
    BY <1>9, <2>1
  <2> QED BY <2>2, <2>3
<1>15. ASSUME NEW S \in SUBSET all
       PROVE  /\ batchOf(t, S) \in BatchPacket
              /\ Mentions(batchOf(t, S), u) <=> u \in S
              /\ u \in S => batchOf(t, S).objs[u] = Copy(e, u)
  <2> DEFINE p == batchOf(t, S)
             F == [w \in S |-> t.val[CHOOSE o \in Live(t) : t.o2u[o] = w]]
             G == [w \in S |-> e.val[e.synced[w]]]
  <2>a. p = [type |-> "OBJECT_BATCH", objs |-> F]
    BY DEF batchOf
  <2>b. \A w \in S : t.val[CHOOSE o \in Live(t) : t.o2u[o] = w] = e.val[e.synced[w]]
    BY <1>4, <1>14
  <2>c. F = G
    BY <2>b
  <2> HIDE DEF F, p
  <2>4. p = [type |-> "OBJECT_BATCH", objs |-> [w \in S |-> e.val[e.synced[w]]]]
    BY <2>a, <2>c
  <2>1. p.type = "OBJECT_BATCH" /\ p.objs = [w \in S |-> e.val[e.synced[w]]]
    BY <2>4
  <2>2. \A w \in S : w \in Uid /\ e.synced[w] # NoObj
    BY <1>9, <1>10
  <2>3. \A w \in S : e.val[e.synced[w]] \in Val
    BY <1>7, <2>2 DEF Good, MapsAgree
  <2>5. p.objs \in [S -> Val] /\ S \in SUBSET Uid
    BY <1>10, <2>1, <2>3
  <2>6. p.objs \in UNION {[Q -> Val] : Q \in SUBSET Uid}
    BY <2>5
  <2>7. p \in BatchPacket
    BY <2>1, <2>4, <2>6 DEF BatchPacket
  <2>8. Mentions(p, u) <=> u \in S
    BY <2>1 DEF Mentions
  <2>9. u \in S => p.objs[u] = Copy(e, u)
    BY <2>1, <2>2 DEF Copy
  <2> QED BY <2>7, <2>8, <2>9 DEF p
<1>16. \A i \in 1 .. n : /\ b[i] \in BatchPacket
                         /\ Mentions(b[i], u) <=> u \in c[i]
                         /\ u \in c[i] => b[i].objs[u] = Copy(e, u)
  BY <1>6, <1>13, <1>15
<1>17. b \in Seq(BatchPacket) /\ DOMAIN b = 1 .. n
  BY <1>6, <1>13, <1>16
<1>18. ASSUME Copy(e, u) = NoVal, NEW i \in DOMAIN b PROVE ~Mentions(b[i], u)
  <2>1. u \notin all
    BY <1>9, <1>18, CopyTracked
  <2> QED BY <1>13, <1>16, <1>17, <2>1
<1>19. ASSUME Copy(e, u) # NoVal
       PROVE  \E i \in DOMAIN b : /\ Mentions(b[i], u) /\ b[i].objs[u] = Copy(e, u)
                                  /\ \A j \in DOMAIN b : Mentions(b[j], u) => j = i
  <2>1. u \in all
    BY <1>9, <1>19, CopyTracked
  <2>2. PICK i \in 1 .. n : u \in c[i]
    BY <1>12, <1>13, <2>1 DEF Range
  <2>3. \A j \in 1 .. n : u \in c[j] => j = i
    BY <1>12, <1>13, <2>2
  <2> QED BY <1>16, <1>17, <2>2, <2>3
<1> QED BY <1>3, <1>5, <1>17, <1>18, <1>19 DEF Full

-----------------------------------------------------------------------------
(* What a queue will do to a UID                                           *)

\* Somewhere in q u is made, by a packet of one of the types, and is not deleted
\* after.
Lives(q, u, types) ==
    \E i \in DOMAIN q :
        /\ q[i].type \in types /\ Mentions(q[i], u)
        /\ \A j \in DOMAIN q : j > i => ~(q[j].type = "OBJECT_DELETE" /\ Mentions(q[j], u))

Makes(p, u) == p.type \in MadeBy /\ Mentions(p, u)
Adds(p, u) == p.type = "OBJECT_ADD" /\ Mentions(p, u)
Deletes(p, u) == p.type = "OBJECT_DELETE" /\ Mentions(p, u)

\* Nothing in q is about u before its OBJECT_ADD.
AddsFirst(q, u) ==
    \A i \in DOMAIN q : Adds(q[i], u) => \A j \in DOMAIN q : j < i => ~Mentions(q[j], u)

Made(q, u) == InFlight(q, u, MadeBy)
Added(q, u) == InFlight(q, u, {"OBJECT_ADD"})
Deleted(q, u) == InFlight(q, u, {"OBJECT_DELETE"})

\* A packet more.
LEMMA MorePackets ==
    ASSUME NEW u \in Uid, NEW q \in Seq(SentByGuests), NEW p \in SentByGuests,
           NEW more, more = Append(q, p)
    PROVE  /\ \A T : InFlight(more, u, T) <=> InFlight(q, u, T) \/ (p.type \in T /\ Mentions(p, u))
           /\ Says(more, u) <=> Says(q, u) \/ Mentions(p, u)
           /\ \A T : Lives(more, u, T) =>
                 (p.type \in T /\ Mentions(p, u)) \/ (Lives(q, u, T) /\ ~Deletes(p, u))
           /\ \A v : Mentions(p, u) /\ ValueIn(p, u) = v => LastSays(more, u, v)
           /\ \A v : ~Mentions(p, u) /\ LastSays(q, u, v) => LastSays(more, u, v)
<1>1. /\ DOMAIN more = 1 .. Len(q) + 1 /\ DOMAIN q = 1 .. Len(q) /\ Len(q) \in Nat
      /\ more[Len(q) + 1] = p
      /\ \A i \in DOMAIN q : more[i] = q[i] /\ i \in DOMAIN more /\ i < Len(q) + 1
      /\ \A i \in DOMAIN more : i = Len(q) + 1 \/ i \in DOMAIN q
      /\ Len(q) + 1 \in DOMAIN more /\ \A i \in DOMAIN more : i \in Nat /\ i <= Len(q) + 1
  OBVIOUS
<1>2. ASSUME NEW T PROVE InFlight(more, u, T) <=> InFlight(q, u, T) \/ (p.type \in T /\ Mentions(p, u))
  BY <1>1 DEF InFlight
<1>3. Says(more, u) <=> Says(q, u) \/ Mentions(p, u)
  BY <1>1 DEF Says
<1>4. ASSUME NEW T, Lives(more, u, T)
      PROVE  (p.type \in T /\ Mentions(p, u)) \/ (Lives(q, u, T) /\ ~Deletes(p, u))
  <2>1. PICK i \in DOMAIN more :
          /\ more[i].type \in T /\ Mentions(more[i], u)
          /\ \A j \in DOMAIN more : j > i => ~(more[j].type = "OBJECT_DELETE" /\ Mentions(more[j], u))
    BY <1>4 DEF Lives
  <2>2. CASE i = Len(q) + 1
    BY <1>1, <2>1, <2>2
  <2>3. CASE i # Len(q) + 1
    <3>1. i \in DOMAIN q /\ more[i] = q[i] /\ Len(q) + 1 > i
      BY <1>1, <2>1, <2>3
    <3>2. ~Deletes(p, u)
      BY <1>1, <2>1, <3>1 DEF Deletes
    <3>3. Lives(q, u, T)
      BY <1>1, <2>1, <3>1 DEF Lives
    <3> QED BY <3>2, <3>3
  <2> QED BY <2>2, <2>3
<1>5. ASSUME NEW v, Mentions(p, u), ValueIn(p, u) = v PROVE LastSays(more, u, v)
  BY <1>1, <1>5 DEF LastSays
<1>6. ASSUME NEW v, ~Mentions(p, u), LastSays(q, u, v) PROVE LastSays(more, u, v)
  <2>1. PICK i \in DOMAIN q :
          /\ Mentions(q[i], u) /\ ValueIn(q[i], u) = v
          /\ \A j \in DOMAIN q : Mentions(q[j], u) => j <= i
    BY <1>6 DEF LastSays
  <2>2. i \in DOMAIN more /\ more[i] = q[i]
    BY <1>1
  <2>3. \A j \in DOMAIN more : Mentions(more[j], u) => j <= i
    BY <1>1, <1>6, <2>1
  <2> QED BY <2>1, <2>2, <2>3 DEF LastSays
<1> QED BY <1>2, <1>3, <1>4, <1>5, <1>6

\* A packet less.
LEMMA FewerPackets ==
    ASSUME NEW u \in Uid, NEW q \in Seq(SentByGuests), q # <<>>,
           NEW p, p = Head(q), NEW rest, rest = Tail(q)
    PROVE  /\ p \in SentByGuests /\ rest \in Seq(SentByGuests)
           /\ \A T : InFlight(q, u, T) <=> InFlight(rest, u, T) \/ (p.type \in T /\ Mentions(p, u))
           /\ Says(q, u) <=> Says(rest, u) \/ Mentions(p, u)
           /\ \A T : Lives(rest, u, T) => Lives(q, u, T)
           /\ \A T : p.type \in T /\ Mentions(p, u) => Lives(q, u, T) \/ Deleted(rest, u)
           /\ \A v : LastSays(q, u, v) => \/ LastSays(rest, u, v)
                                          \/ ~Says(rest, u) /\ Mentions(p, u) /\ ValueIn(p, u) = v
<1>1. /\ DOMAIN q = 1 .. Len(q) /\ Len(q) \in Nat /\ Len(q) >= 1
      /\ DOMAIN rest = 1 .. Len(q) - 1
      /\ \A i \in DOMAIN rest : rest[i] = q[i + 1] /\ i + 1 \in DOMAIN q
      /\ p = q[1] /\ 1 \in DOMAIN q /\ p \in SentByGuests /\ rest \in Seq(SentByGuests)
      /\ \A i \in DOMAIN q : i \in Nat /\ (i = 1 \/ (i - 1 \in DOMAIN rest /\ q[i] = rest[i - 1] /\ i > 1))
      /\ \A i \in DOMAIN rest : i \in Nat
  OBVIOUS
<1>2. ASSUME NEW T PROVE InFlight(q, u, T) <=> InFlight(rest, u, T) \/ (p.type \in T /\ Mentions(p, u))
  BY <1>1 DEF InFlight
<1>3. Says(q, u) <=> Says(rest, u) \/ Mentions(p, u)
  BY <1>1 DEF Says
<1>4. ASSUME NEW T, Lives(rest, u, T) PROVE Lives(q, u, T)
  <2>1. PICK i \in DOMAIN rest :
          /\ rest[i].type \in T /\ Mentions(rest[i], u)
          /\ \A j \in DOMAIN rest : j > i => ~(rest[j].type = "OBJECT_DELETE" /\ Mentions(rest[j], u))
    BY <1>4 DEF Lives
  <2>2. i + 1 \in DOMAIN q /\ q[i + 1] = rest[i] /\ i \in Nat
    BY <1>1
  <2>3. ASSUME NEW j \in DOMAIN q, j > i + 1 PROVE ~(q[j].type = "OBJECT_DELETE" /\ Mentions(q[j], u))
    <3>1. j - 1 \in DOMAIN rest /\ q[j] = rest[j - 1] /\ j - 1 > i
      BY <1>1, <2>2, <2>3
    <3> QED BY <2>1, <3>1
  <2> QED BY <2>1, <2>2, <2>3 DEF Lives
<1>5. ASSUME NEW T, p.type \in T, Mentions(p, u), ~Deleted(rest, u) PROVE Lives(q, u, T)
  <2>1. ASSUME NEW j \in DOMAIN q, j > 1 PROVE ~(q[j].type = "OBJECT_DELETE" /\ Mentions(q[j], u))
    <3>1. j - 1 \in DOMAIN rest /\ q[j] = rest[j - 1]
      BY <1>1, <2>1
    <3> QED BY <1>5, <3>1 DEF Deleted, InFlight
  <2> QED BY <1>1, <1>5, <2>1 DEF Lives
<1>6. ASSUME NEW v, LastSays(q, u, v)
      PROVE  \/ LastSays(rest, u, v)
             \/ ~Says(rest, u) /\ Mentions(p, u) /\ ValueIn(p, u) = v
  <2>1. PICK i \in DOMAIN q :
          /\ Mentions(q[i], u) /\ ValueIn(q[i], u) = v
          /\ \A j \in DOMAIN q : Mentions(q[j], u) => j <= i
    BY <1>6 DEF LastSays
  <2>2. CASE i = 1
    <3>1. \A j \in DOMAIN rest : ~Mentions(rest[j], u)
      BY <1>1, <2>1, <2>2
    <3> QED BY <1>1, <2>1, <2>2, <3>1 DEF Says
  <2>3. CASE i # 1
    <3>1. i - 1 \in DOMAIN rest /\ q[i] = rest[i - 1] /\ i \in Nat
      BY <1>1, <2>3
    <3>2. \A j \in DOMAIN rest : Mentions(rest[j], u) => j <= i - 1
      BY <1>1, <2>1, <3>1
    <3> QED BY <2>1, <3>1, <3>2 DEF LastSays
  <2> QED BY <2>2, <2>3
<1> QED BY <1>1, <1>2, <1>3, <1>4, <1>5, <1>6

\* What there is in flight of u after a packet more, and a packet less.
LEMMA MoreNews ==
    ASSUME NEW u \in Uid, NEW q \in Seq(SentByGuests), NEW p \in SentByGuests,
           NEW more, more = Append(q, p)
    PROVE  /\ Deleted(more, u) <=> Deleted(q, u) \/ Deletes(p, u)
           /\ Made(more, u) <=> Made(q, u) \/ Makes(p, u)
           /\ Added(more, u) <=> Added(q, u) \/ Adds(p, u)
           /\ Lives(more, u, MadeBy) =>
                 Makes(p, u) \/ (Lives(q, u, MadeBy) /\ ~Deletes(p, u))
           /\ Lives(more, u, {"OBJECT_ADD"}) =>
                 Adds(p, u) \/ (Lives(q, u, {"OBJECT_ADD"}) /\ ~Deletes(p, u))
<1>1. ASSUME NEW T
      PROVE  InFlight(more, u, T) <=> InFlight(q, u, T) \/ (p.type \in T /\ Mentions(p, u))
  BY MorePackets
<1>2. ASSUME NEW T
      PROVE  Lives(more, u, T) =>
                (p.type \in T /\ Mentions(p, u)) \/ (Lives(q, u, T) /\ ~Deletes(p, u))
  BY MorePackets
<1>3. Deleted(more, u) <=> Deleted(q, u) \/ Deletes(p, u)
  BY <1>1 DEF Deleted, Deletes
<1>4. Made(more, u) <=> Made(q, u) \/ Makes(p, u)
  BY <1>1 DEF Made, Makes
<1>5. Added(more, u) <=> Added(q, u) \/ Adds(p, u)
  BY <1>1 DEF Added, Adds
<1>6. Lives(more, u, MadeBy) => Makes(p, u) \/ (Lives(q, u, MadeBy) /\ ~Deletes(p, u))
  BY <1>2 DEF Makes
<1>7. Lives(more, u, {"OBJECT_ADD"}) =>
         Adds(p, u) \/ (Lives(q, u, {"OBJECT_ADD"}) /\ ~Deletes(p, u))
  BY <1>2 DEF Adds
<1> QED BY <1>3, <1>4, <1>5, <1>6, <1>7

\* And after a packet less.
LEMMA FewerNews ==
    ASSUME NEW u \in Uid, NEW q \in Seq(SentByGuests), q # <<>>,
           NEW p, p = Head(q), NEW rest, rest = Tail(q)
    PROVE  /\ Deleted(q, u) <=> Deleted(rest, u) \/ Deletes(p, u)
           /\ Made(q, u) <=> Made(rest, u) \/ Makes(p, u)
           /\ Added(q, u) <=> Added(rest, u) \/ Adds(p, u)
           /\ Lives(rest, u, MadeBy) => Lives(q, u, MadeBy)
           /\ Lives(rest, u, {"OBJECT_ADD"}) => Lives(q, u, {"OBJECT_ADD"})
           /\ Makes(p, u) => Lives(q, u, MadeBy) \/ Deleted(rest, u)
           /\ Adds(p, u) => Lives(q, u, {"OBJECT_ADD"}) \/ Deleted(rest, u)
<1>1. ASSUME NEW T
      PROVE  InFlight(q, u, T) <=> InFlight(rest, u, T) \/ (p.type \in T /\ Mentions(p, u))
  BY FewerPackets
<1>2. ASSUME NEW T
      PROVE  /\ Lives(rest, u, T) => Lives(q, u, T)
             /\ p.type \in T /\ Mentions(p, u) => Lives(q, u, T) \/ Deleted(rest, u)
  BY FewerPackets
<1>3. Deleted(q, u) <=> Deleted(rest, u) \/ Deletes(p, u)
  BY <1>1 DEF Deleted, Deletes
<1>4. Made(q, u) <=> Made(rest, u) \/ Makes(p, u)
  BY <1>1 DEF Made, Makes
<1>5. Added(q, u) <=> Added(rest, u) \/ Adds(p, u)
  BY <1>1 DEF Added, Adds
<1>6. /\ Lives(rest, u, MadeBy) => Lives(q, u, MadeBy)
      /\ Makes(p, u) => Lives(q, u, MadeBy) \/ Deleted(rest, u)
  BY <1>2 DEF Makes
<1>7. /\ Lives(rest, u, {"OBJECT_ADD"}) => Lives(q, u, {"OBJECT_ADD"})
      /\ Adds(p, u) => Lives(q, u, {"OBJECT_ADD"}) \/ Deleted(rest, u)
  BY <1>2 DEF Adds
<1> QED BY <1>3, <1>4, <1>5, <1>6, <1>7

\* A full state more.
LEMMA MoreState ==
    ASSUME NEW u \in Uid, NEW q \in Seq(SentByGuests), NEW v, NEW s, Full(s, u, v),
           NEW more, more = q \o s
    PROVE  /\ Deleted(more, u) => Deleted(q, u)
           /\ Deleted(q, u) => Deleted(more, u)
           /\ Made(q, u) => Made(more, u)
           /\ v # NoVal => Made(more, u) /\ LastSays(more, u, v)
           /\ v = NoVal => (Says(more, u) <=> Says(q, u)) /\ \A w : LastSays(q, u, w) => LastSays(more, u, w)
           /\ \A T : Lives(more, u, T) => Lives(q, u, T) \/ v # NoVal
<1>1. /\ DOMAIN more = 1 .. Len(q) + Len(s) /\ DOMAIN q = 1 .. Len(q) /\ DOMAIN s = 1 .. Len(s)
      /\ Len(q) \in Nat /\ Len(s) \in Nat
      /\ \A i \in DOMAIN q : i \in DOMAIN more /\ more[i] = q[i] /\ i \in Nat
      /\ \A i \in DOMAIN s : i + Len(q) \in DOMAIN more /\ more[i + Len(q)] = s[i] /\ i \in Nat
      /\ \A i \in DOMAIN more :
            i \in Nat /\ (i \in DOMAIN q \/ (i > Len(q) /\ i - Len(q) \in DOMAIN s /\ more[i] = s[i - Len(q)]))
  BY DEF Full
<1>2. \A i \in DOMAIN s : s[i].type = "OBJECT_BATCH"
  <2>1. \A i \in DOMAIN s : s[i] \in BatchPacket
    BY DEF Full
  <2> QED BY <2>1 DEF BatchPacket
<1>3. Deleted(more, u) => Deleted(q, u)
  BY <1>1, <1>2 DEF Deleted, InFlight
<1>4. (Made(q, u) => Made(more, u)) /\ (Deleted(q, u) => Deleted(more, u))
  BY <1>1 DEF Made, Deleted, InFlight
<1>5. ASSUME v # NoVal PROVE Made(more, u) /\ LastSays(more, u, v)
  <2>1. PICK i \in DOMAIN s : /\ Mentions(s[i], u) /\ s[i].objs[u] = v
                              /\ \A j \in DOMAIN s : Mentions(s[j], u) => j = i
    BY <1>5 DEF Full
  <2>2. i + Len(q) \in DOMAIN more /\ more[i + Len(q)] = s[i] /\ i \in Nat /\ i >= 1
    BY <1>1
  <2>3. Made(more, u)
    BY <1>2, <2>1, <2>2 DEF Made, MadeBy, InFlight
  <2>4. \A j \in DOMAIN more : Mentions(more[j], u) => j <= i + Len(q)
    <3> SUFFICES ASSUME NEW j \in DOMAIN more, Mentions(more[j], u) PROVE j <= i + Len(q)
      OBVIOUS
    <3>1. CASE j \in DOMAIN q
      BY <1>1, <2>2, <3>1
    <3>2. CASE j > Len(q) /\ j - Len(q) \in DOMAIN s /\ more[j] = s[j - Len(q)]
      BY <1>1, <2>1, <2>2, <3>2
    <3> QED BY <1>1, <3>1, <3>2
  <2>5. ValueIn(s[i], u) = v
    BY <1>2, <2>1 DEF ValueIn
  <2> QED BY <2>1, <2>2, <2>3, <2>4, <2>5 DEF LastSays
<1>7. ASSUME v = NoVal
      PROVE  /\ Says(more, u) <=> Says(q, u)
             /\ \A w : LastSays(q, u, w) => LastSays(more, u, w)
  <2>1. \A i \in DOMAIN s : ~Mentions(s[i], u)
    BY <1>7 DEF Full
  <2>2. \A i \in DOMAIN more : Mentions(more[i], u) => i \in DOMAIN q
    BY <1>1, <2>1
  <2>3. Says(more, u) <=> Says(q, u)
    BY <1>1, <2>2 DEF Says
  <2>4. ASSUME NEW w, LastSays(q, u, w) PROVE LastSays(more, u, w)
    BY <1>1, <2>2, <2>4 DEF LastSays
  <2> QED BY <2>3, <2>4
<1>6. ASSUME NEW T, Lives(more, u, T), v = NoVal PROVE Lives(q, u, T)
  <2>1. \A i \in DOMAIN s : ~Mentions(s[i], u)
    BY <1>6 DEF Full
  <2>2. PICK i \in DOMAIN more :
          /\ more[i].type \in T /\ Mentions(more[i], u)
          /\ \A j \in DOMAIN more : j > i => ~(more[j].type = "OBJECT_DELETE" /\ Mentions(more[j], u))
    BY <1>6 DEF Lives
  <2>3. i \in DOMAIN q
    BY <1>1, <2>1, <2>2
  <2> QED BY <1>1, <2>2, <2>3 DEF Lives
<1> QED BY <1>3, <1>4, <1>5, <1>6, <1>7

\* An addition stays the first about its UID, whatever comes or goes.
LEMMA FirstAdds ==
    ASSUME NEW u \in Uid, NEW q \in Seq(SentByGuests), AddsFirst(q, u)
    PROVE  /\ \A p \in SentByGuests : (Adds(p, u) => ~Says(q, u)) => AddsFirst(Append(q, p), u)
           /\ q # <<>> => /\ AddsFirst(Tail(q), u)
                          /\ Mentions(Head(q), u) => ~Added(Tail(q), u)
           /\ \A s \in Seq(BatchPacket) :
                 AddsFirst(q \o s, u) /\ (Added(q \o s, u) => Added(q, u))
<1>1. ASSUME NEW p \in SentByGuests, Adds(p, u) => ~Says(q, u) PROVE AddsFirst(Append(q, p), u)
  <2> DEFINE more == Append(q, p)
  <2>1. /\ DOMAIN more = 1 .. Len(q) + 1 /\ DOMAIN q = 1 .. Len(q) /\ Len(q) \in Nat
        /\ more[Len(q) + 1] = p /\ \A i \in DOMAIN q : more[i] = q[i]
        /\ \A i \in DOMAIN more : i = Len(q) + 1 \/ i \in DOMAIN q
        /\ \A i \in DOMAIN more : \A j \in DOMAIN more : j < i => j \in DOMAIN q
    OBVIOUS
  <2> HIDE DEF more
  <2>2. AddsFirst(more, u)
    BY <1>1, <2>1 DEF AddsFirst, Says
  <2> QED BY <2>2 DEF more
<1>2. ASSUME q # <<>> PROVE AddsFirst(Tail(q), u) /\ (Mentions(Head(q), u) => ~Added(Tail(q), u))
  <2>1. /\ \A i \in DOMAIN Tail(q) : i + 1 \in DOMAIN q /\ Tail(q)[i] = q[i + 1] /\ i \in Nat /\ i >= 1
        /\ Head(q) = q[1] /\ 1 \in DOMAIN q
    BY <1>2
  <2>2. AddsFirst(Tail(q), u)
    <3> SUFFICES ASSUME NEW i \in DOMAIN Tail(q), Adds(Tail(q)[i], u), NEW j \in DOMAIN Tail(q), j < i
                 PROVE  ~Mentions(Tail(q)[j], u)
      BY DEF AddsFirst
    <3>1. j + 1 < i + 1
      BY <2>1
    <3> QED BY <2>1, <3>1 DEF AddsFirst
  <2>3. ASSUME Mentions(Head(q), u), NEW i \in DOMAIN Tail(q), Adds(Tail(q)[i], u) PROVE FALSE
    <3>1. 1 < i + 1
      BY <2>1
    <3> QED BY <2>1, <2>3, <3>1 DEF AddsFirst
  <2>4. Mentions(Head(q), u) => ~Added(Tail(q), u)
    BY <2>3 DEF Added, InFlight, Adds
  <2> QED BY <2>2, <2>4
<1>3. ASSUME NEW s \in Seq(BatchPacket)
      PROVE  AddsFirst(q \o s, u) /\ (Added(q \o s, u) => Added(q, u))
  <2> DEFINE more == q \o s
  <2>1. /\ DOMAIN more = 1 .. Len(q) + Len(s) /\ DOMAIN q = 1 .. Len(q) /\ DOMAIN s = 1 .. Len(s)
        /\ Len(q) \in Nat /\ Len(s) \in Nat
        /\ \A i \in DOMAIN q : more[i] = q[i]
        /\ \A i \in DOMAIN more :
              i \in DOMAIN q \/ (i - Len(q) \in DOMAIN s /\ more[i] = s[i - Len(q)])
        /\ \A i \in DOMAIN q : \A j \in DOMAIN more : j < i => j \in DOMAIN q
    OBVIOUS
  <2>2. \A i \in DOMAIN s : s[i].type # "OBJECT_ADD"
    <3>1. \A i \in DOMAIN s : s[i] \in BatchPacket
      OBVIOUS
    <3> QED BY <3>1 DEF BatchPacket
  <2> HIDE DEF more
  <2>3. \A i \in DOMAIN more : more[i].type = "OBJECT_ADD" => i \in DOMAIN q /\ more[i] = q[i]
    BY <2>1, <2>2
  <2>4. AddsFirst(more, u)
    BY <2>1, <2>3 DEF AddsFirst, Adds
  <2>5. Added(more, u) => Added(q, u)
    BY <2>3 DEF Added, InFlight
  <2> QED BY <2>4, <2>5 DEF more
<1> QED BY <1>1, <1>2, <1>3

\* q asks for a full state.
Coming(q) == \E i \in DOMAIN q : q[i].type \in {"CONNECT", "REQUEST_FULL_STATE"}

\* A request is to come until it is polled.
LEMMA ComingQueues ==
    ASSUME NEW q \in Seq(SentByGuests)
    PROVE  /\ \A p \in SentByGuests :
                 Coming(Append(q, p)) <=> Coming(q) \/ p.type \in {"CONNECT", "REQUEST_FULL_STATE"}
           /\ q # <<>> /\ Head(q).type \notin {"CONNECT", "REQUEST_FULL_STATE"} =>
                 (Coming(q) => Coming(Tail(q)))
<1>1. ASSUME NEW p \in SentByGuests
      PROVE  Coming(Append(q, p)) <=> Coming(q) \/ p.type \in {"CONNECT", "REQUEST_FULL_STATE"}
  <2> DEFINE more == Append(q, p)
  <2>1. /\ DOMAIN more = 1 .. Len(q) + 1 /\ DOMAIN q = 1 .. Len(q) /\ Len(q) \in Nat
        /\ more[Len(q) + 1] = p /\ \A i \in DOMAIN q : more[i] = q[i] /\ i \in DOMAIN more
        /\ \A i \in DOMAIN more : i = Len(q) + 1 \/ i \in DOMAIN q
    OBVIOUS
  <2> HIDE DEF more
  <2>2. Coming(more) <=> Coming(q) \/ p.type \in {"CONNECT", "REQUEST_FULL_STATE"}
    BY <2>1 DEF Coming
  <2> QED BY <2>2 DEF more
<1>2. ASSUME q # <<>>, Head(q).type \notin {"CONNECT", "REQUEST_FULL_STATE"}, Coming(q)
      PROVE  Coming(Tail(q))
  <2>1. PICK i \in DOMAIN q : q[i].type \in {"CONNECT", "REQUEST_FULL_STATE"}
    BY <1>2 DEF Coming
  <2>2. i # 1 /\ i - 1 \in DOMAIN Tail(q) /\ Tail(q)[i - 1] = q[i]
    BY <1>2, <2>1
  <2> QED BY <2>1, <2>2 DEF Coming
<1> QED BY <1>1, <1>2


-----------------------------------------------------------------------------
(* What there is to see of a UID at one guest                              *)

\* What the host and g have under u, the queues between them, where g is, and
\* whether g missed u, the host gave it up, or the last edits went astray.
View(g, u) ==
    [host |-> Copy(ed[Host], u), own |-> Copy(ed[g], u),
     up |-> up[g], down |-> down[g],
     joined |-> InSession(g), on |-> Attached(g), timer |-> timer[g],
     missed |-> u \in missed[g], stray |-> u \in strays[g], apart |-> u \in apart[g]]

IsView(x) ==
    /\ x.host \in Val \cup {NoVal} /\ x.own \in Val \cup {NoVal}
    /\ x.up \in Seq(SentByGuests) /\ x.down \in Seq(ObjectPacket)
    /\ x.joined \in BOOLEAN /\ x.on \in BOOLEAN /\ x.timer \in BOOLEAN
    /\ x.missed \in BOOLEAN /\ x.stray \in BOOLEAN /\ x.apart \in BOOLEAN
    /\ x.on => x.joined

\* The deletion of u follows all there was about it.
DeletedIsGone(x, u) == Deleted(x.down, u) => x.host = NoVal /\ ~Added(x.up, u)

\* What a guest tells of, it has, or its packet from the host was cut.
AddedIsHere(x, u) == x.joined /\ Lives(x.up, u, {"OBJECT_ADD"}) => x.own # NoVal \/ x.missed

\* What the host has, g has or gets, or has deleted, or missed.
Reaches(x, u) ==
    x.on /\ ~x.timer /\ ~Coming(x.up) /\ x.host # NoVal =>
        x.own # NoVal \/ Made(x.down, u) \/ Deleted(x.up, u) \/ x.missed

\* What the host tells of, it has, or has given up.
MadeIsThere(x, u) == Lives(x.down, u, MadeBy) => x.host # NoVal \/ x.stray

\* What g has, the host has or gets, has told g to delete, or has given up.
GoesToo(x, u) ==
    x.joined /\ x.own # NoVal =>
        \/ Added(x.up, u)
        \/ x.on /\ (x.host # NoVal \/ Deleted(x.down, u) \/ x.stray)

\* An addition finds nothing at g, and is the first g hears of the UID.
AddIsFirst(x, u) == AddsFirst(x.down, u) /\ (Added(x.down, u) => x.own = NoVal)

\* The last that is told of u is what the host has, or what g has.
NewsIsCurrent(x, u) ==
    x.host # NoVal /\ Says(x.down, u) /\ ~Says(x.up, u) /\ ~x.apart => LastSays(x.down, u, x.host)
OwnIsTold(x, u) ==
    x.joined /\ x.own # NoVal /\ Says(x.up, u) /\ ~Says(x.down, u) /\ ~x.apart =>
        LastSays(x.up, u, x.own)

\* With nothing to be told, g has what the host has.
CopyIsCurrent(x, u) ==
    x.on /\ x.host # NoVal /\ x.own # NoVal /\ ~Says(x.up, u) /\ ~Says(x.down, u) /\ ~x.apart =>
        x.own = x.host

InStep(x, u) ==
    /\ DeletedIsGone(x, u) /\ AddedIsHere(x, u) /\ Reaches(x, u)
    /\ MadeIsThere(x, u) /\ GoesToo(x, u) /\ AddIsFirst(x, u)
Current(x, u) == NewsIsCurrent(x, u) /\ OwnIsTold(x, u) /\ CopyIsCurrent(x, u)

Explained(x, u) == InStep(x, u) /\ Current(x, u)

\* How a step changes what there is to see, from x to y: at the host only, by
\* another guest's news, or not at all.
Sits(x, y) == y.joined = x.joined /\ y.on = x.on
SameGhosts(x, y) ==
    (x.missed <=> y.missed) /\ (x.stray <=> y.stray) /\ (x.apart <=> y.apart)
Stays(x, y, u) ==
    /\ y.own = x.own /\ y.up = x.up /\ y.down = x.down /\ y.timer = x.timer /\ Sits(x, y)
    /\ (x.missed => y.missed) /\ (x.stray => y.stray) /\ (x.apart => y.apart)
    /\ y.host # x.host => y.apart
    /\ x.host = NoVal /\ y.host # NoVal => y.missed /\ ~Says(x.down, u)
    /\ x.host # NoVal /\ y.host = NoVal /\ (x.own # NoVal \/ Made(x.down, u)) => y.stray

\* The host tells g of an edit, as p.
HostSaysAs(x, y, u, p) ==
    /\ y.down = IF x.on THEN Append(x.down, p) ELSE x.down
    /\ p.type # "OBJECT_BATCH" /\ Told(p, u, x.host, y.host)
    /\ Makes(p, u) => ~Says(x.up, u) /\ ~Says(x.down, u) /\ x.own = NoVal
    /\ Mentions(p, u) /\ ~Makes(p, u) => x.host # NoVal
    /\ IF x.on /\ p.type = "OBJECT_UPDATE" /\ Mentions(p, u)
       THEN ~y.apart => y.host = p.val
       ELSE x.apart <=> y.apart
HostSays(x, y, u) ==
    /\ y.own = x.own /\ y.up = x.up /\ y.timer = x.timer /\ Sits(x, y)
    /\ (x.missed <=> y.missed) /\ (x.stray <=> y.stray)
    /\ ~x.on => x.down = <<>>
    /\ Added(x.up, u) => x.host = NoVal
    /\ \E p \in ObjectPacket : HostSaysAs(x, y, u, p)

\* g tells the host of an edit, as p.
GuestSaysAs(x, y, u, p) ==
    /\ y.up = Append(x.up, p)
    /\ p.type # "OBJECT_BATCH" /\ Told(p, u, x.own, y.own)
    /\ Makes(p, u) => ~Says(x.down, u)
    /\ IF p.type = "OBJECT_UPDATE" /\ Mentions(p, u)
       THEN ~y.apart => y.own = NoVal \/ y.own = p.val
       ELSE x.apart <=> y.apart
GuestSays(x, y, u) ==
    /\ y.host = x.host /\ y.down = x.down /\ y.timer = x.timer /\ Sits(x, y) /\ x.joined
    /\ (x.missed <=> y.missed) /\ (x.stray <=> y.stray)
    /\ \E p \in ObjectPacket : GuestSaysAs(x, y, u, p)

\* The host gets a packet of g.
HostGets(x, y, u) ==
    LET p == Head(x.up) IN
    /\ y.own = x.own /\ y.down = x.down /\ y.timer = x.timer /\ Sits(x, y)
    /\ x.joined => x.on
    /\ x.up # <<>> /\ y.up = Tail(x.up)
    /\ p \in ObjectPacket /\ p.type # "OBJECT_BATCH"
    /\ Heard(p, u, x.host, y.host)
    /\ Makes(p, u) => x.host = NoVal
    /\ (x.missed <=> y.missed) /\ (x.stray => y.stray)
    /\ y.apart <=> x.apart \/ (Mentions(p, u) /\ Says(x.down, u))
    /\ /\ y.host = NoVal /\ (x.host # NoVal \/ Makes(p, u))
       /\ x.own # NoVal \/ Made(x.down, u)
       => y.stray

\* g gets a packet of the host, or drops it.
GuestHandles(x, y, u, p) ==
    /\ Heard(p, u, x.own, y.own)
    /\ y.apart <=> x.apart \/ (Mentions(p, u) /\ Says(x.up, u))
    /\ x.missed /\ ~y.missed => Makes(p, u) /\ y.own # NoVal
    /\ isCut(p) /\ y.own = NoVal /\ (Makes(p, u) \/ (Mentions(p, u) /\ x.own # NoVal)) => y.missed
GuestDropsIt(x, y, u, p) ==
    /\ x.own = NoVal /\ y.own = NoVal /\ (x.apart <=> y.apart)
    /\ y.missed <=> x.missed \/ Makes(p, u)
GuestGets(x, y, u) ==
    /\ y.host = x.host /\ y.up = x.up /\ y.timer = x.timer /\ Sits(x, y) /\ x.on
    /\ x.stray <=> y.stray
    /\ x.down # <<>> /\ y.down = Tail(x.down)
    /\ GuestHandles(x, y, u, Head(x.down)) \/ GuestDropsIt(x, y, u, Head(x.down))

\* The host answers with a full state.
GetsState(x, y, u) ==
    /\ y.host = x.host /\ y.own = x.own /\ y.timer = x.timer
    /\ x.joined /\ y.joined /\ y.on
    /\ (x.missed <=> y.missed) /\ (x.stray <=> y.stray)
    /\ ~y.apart => ~x.apart \/ x.host # NoVal
    /\ x.up # <<>> /\ y.up = Tail(x.up) /\ ~Mentions(Head(x.up), u)
    /\ \E s : Full(s, u, x.host) /\ y.down = x.down \o s

\* g is away, asks to join, or asks for a full state.
IsAway(y) == ~y.joined /\ ~y.on /\ y.down = <<>>
Comes(y) == ~y.on /\ y.down = <<>> /\ y.own = NoVal /\ \E c \in ControlPacket : y.up = <<c>>
Asks(x, y) ==
    /\ y.host = x.host /\ y.own = x.own /\ y.down = x.down /\ Sits(x, y) /\ SameGhosts(x, y)
    /\ \E c \in ControlPacket : y.up = Append(x.up, c) /\ Coming(y.up)

Moves(x, y, u) ==
    \/ Stays(x, y, u) \/ HostSays(x, y, u) \/ GuestSays(x, y, u) \/ HostGets(x, y, u)
    \/ GuestGets(x, y, u) \/ GetsState(x, y, u) \/ IsAway(y) \/ Comes(y) \/ Asks(x, y)

\* Both queues are of packets that guests can send.
LEMMA ViewQueues ==
    ASSUME NEW x, IsView(x)
    PROVE  /\ ObjectPacket \subseteq SentByGuests /\ ControlPacket \subseteq SentByGuests
           /\ x.up \in Seq(SentByGuests) /\ x.down \in Seq(SentByGuests)
<1>1. ObjectPacket \subseteq SentByGuests /\ ControlPacket \subseteq SentByGuests
  BY DEF SentByGuests
<1> QED BY <1>1 DEF IsView

\* Values that packets bring.
LEMMA PacketValues ==
    ASSUME NEW p \in ObjectPacket, NEW u \in Uid
    PROVE  /\ p.type \in {"OBJECT_ADD", "OBJECT_DELETE", "OBJECT_UPDATE", "OBJECT_BATCH"}
           /\ p.type \in {"OBJECT_ADD", "OBJECT_UPDATE"} => p.val \in Val
           /\ p.type = "OBJECT_BATCH" /\ Mentions(p, u) => p.objs[u] \in Val
           /\ Mentions(p, u) /\ p.type # "OBJECT_DELETE" =>
                 ValueIn(p, u) \in Val /\ ValueIn(p, u) # NoVal
           /\ NoVal \notin Val
<1> USE ConstantsAssumption
<1>1. CASE p \in StringPacket
  BY <1>1 DEF StringPacket, ValueIn
<1>2. CASE p \in DeletePacket
  BY <1>2 DEF DeletePacket
<1>3. CASE p \in BatchPacket
  BY <1>3 DEF BatchPacket, ValueIn, Mentions
<1> QED BY <1>1, <1>2, <1>3 DEF ObjectPacket

\* Nothing is said by an empty queue.
LEMMA NothingSaid ==
    ASSUME NEW u
    PROVE  /\ ~Deleted(<<>>, u) /\ (\A T : ~Lives(<<>>, u, T)) /\ ~Says(<<>>, u) /\ ~Made(<<>>, u)
           /\ ~Added(<<>>, u) /\ AddsFirst(<<>>, u)
BY DEF Deleted, Added, Lives, Says, Made, InFlight, AddsFirst

\* Queues that are mentioned in and those that say.
LEMMA FlightSays ==
    ASSUME NEW q, NEW u
    PROVE  /\ Deleted(q, u) \/ Added(q, u) \/ Made(q, u) => Says(q, u)
           /\ \A v : LastSays(q, u, v) => Says(q, u)
           /\ Lives(q, u, {"OBJECT_ADD"}) => Added(q, u)
           /\ Lives(q, u, MadeBy) => Made(q, u)
BY DEF Deleted, Added, Made, Lives, LastSays, Says, InFlight

\* A control packet names no UID.
LEMMA ControlSilent ==
    ASSUME NEW c \in ControlPacket, NEW u PROVE ~Mentions(c, u)
BY DEF ControlPacket, Mentions

\* A change of the host's copy by another guest explains what was explained.
LEMMA StaysExplained ==
    ASSUME NEW x, NEW y, NEW u \in Uid, IsView(x), IsView(y), Stays(x, y, u), Explained(x, u)
    PROVE Explained(y, u)
<1>1. /\ y.own = x.own /\ y.up = x.up /\ y.down = x.down /\ y.timer = x.timer
      /\ y.joined = x.joined /\ y.on = x.on
      /\ (x.missed => y.missed) /\ (x.stray => y.stray) /\ (x.apart => y.apart)
      /\ y.host # x.host => y.apart
      /\ x.host = NoVal /\ y.host # NoVal => y.missed /\ ~Says(x.down, u)
      /\ x.host # NoVal /\ y.host = NoVal /\ (x.own # NoVal \/ Made(x.down, u)) => y.stray
  BY DEF Stays, Sits
<1>2. DeletedIsGone(y, u)
  BY <1>1, FlightSays DEF Explained, InStep, DeletedIsGone
<1>3. AddedIsHere(y, u) /\ Reaches(y, u) /\ AddIsFirst(y, u)
  BY <1>1 DEF Explained, InStep, AddedIsHere, Reaches, AddIsFirst
<1>4. MadeIsThere(y, u) /\ GoesToo(y, u)
  BY <1>1, FlightSays DEF Explained, InStep, MadeIsThere, GoesToo
<1>5. Current(y, u)
  BY <1>1 DEF Explained, Current, NewsIsCurrent, OwnIsTold, CopyIsCurrent
<1> QED BY <1>2, <1>3, <1>4, <1>5 DEF Explained, InStep

\* Of a guest that is away there is nothing to explain.
LEMMA AwayExplained ==
    ASSUME NEW y, NEW u \in Uid, IsAway(y) PROVE Explained(y, u)
BY NothingSaid DEF IsAway, Explained, InStep, Current, DeletedIsGone, AddedIsHere, Reaches,
       MadeIsThere, GoesToo, AddIsFirst, NewsIsCurrent, OwnIsTold, CopyIsCurrent

\* Nor of one that has only asked to join.
LEMMA ComesExplained ==
    ASSUME NEW y, NEW u \in Uid, Comes(y) PROVE Explained(y, u)
<1>1. PICK c \in ControlPacket : y.up = <<c>>
  BY DEF Comes
<1>2. ~Lives(y.up, u, {"OBJECT_ADD"})
  BY <1>1, ControlSilent DEF Lives
<1> QED BY <1>2, NothingSaid DEF Comes, Explained, InStep, Current, DeletedIsGone, AddedIsHere,
       Reaches, MadeIsThere, GoesToo, AddIsFirst, NewsIsCurrent, OwnIsTold, CopyIsCurrent

\* A request names no UID, and a full state is to come.
LEMMA AsksExplained ==
    ASSUME NEW x, NEW y, NEW u \in Uid, IsView(x), Asks(x, y), Explained(x, u)
    PROVE  Explained(y, u)
<1>1. PICK c \in ControlPacket : y.up = Append(x.up, c) /\ Coming(y.up)
  BY DEF Asks
<1>2. c \in SentByGuests /\ x.up \in Seq(SentByGuests) /\ ~Mentions(c, u)
  BY ViewQueues, ControlSilent
<1>3. /\ Lives(y.up, u, {"OBJECT_ADD"}) => Lives(x.up, u, {"OBJECT_ADD"})
      /\ Added(y.up, u) <=> Added(x.up, u)
  BY <1>1, <1>2, MoreNews DEF Adds
<1>4. /\ Says(y.up, u) <=> Says(x.up, u)
      /\ \A v : LastSays(x.up, u, v) => LastSays(y.up, u, v)
  BY <1>1, <1>2, MorePackets
<1> QED BY <1>1, <1>3, <1>4 DEF Asks, Sits, SameGhosts, Explained, InStep, Current, DeletedIsGone,
       AddedIsHere, Reaches, MadeIsThere, GoesToo, AddIsFirst, NewsIsCurrent, OwnIsTold, CopyIsCurrent

\* An edit of the host and its news.  A UID that is made is in no queue; one that
\* is deleted was the host's, so no OBJECT_ADD of it is on its way.
LEMMA HostSaysExplained ==
    ASSUME NEW x, NEW y, NEW u \in Uid, IsView(x), IsView(y), HostSays(x, y, u), Explained(x, u)
    PROVE  Explained(y, u)
<1>1. PICK p \in ObjectPacket : HostSaysAs(x, y, u, p)
  BY DEF HostSays
<1>2. /\ y.own = x.own /\ y.up = x.up /\ y.timer = x.timer /\ y.joined = x.joined /\ y.on = x.on
      /\ (x.missed <=> y.missed) /\ (x.stray <=> y.stray)
      /\ ~x.on => x.down = <<>>
      /\ Added(x.up, u) => x.host = NoVal
  BY DEF HostSays, Sits
<1>3. p \in SentByGuests /\ x.down \in Seq(SentByGuests)
  BY ViewQueues
<1>4. /\ Makes(p, u) => y.host # NoVal /\ y.host = ValueIn(p, u)
      /\ Deletes(p, u) => y.host = NoVal /\ x.host # NoVal /\ ~Makes(p, u)
      /\ ~Makes(p, u) /\ ~Deletes(p, u) => (y.host = NoVal <=> x.host = NoVal)
      /\ ~Mentions(p, u) => y.host = x.host /\ (x.apart <=> y.apart)
      /\ Makes(p, u) \/ Deletes(p, u) => Mentions(p, u)
      /\ x.on /\ Mentions(p, u) /\ ~y.apart /\ y.host # NoVal => y.host = ValueIn(p, u)
      /\ Makes(p, u) => ~Says(x.up, u) /\ ~Says(x.down, u) /\ x.own = NoVal
      /\ Adds(p, u) <=> Makes(p, u)
  BY <1>1, PacketValues DEF HostSaysAs, Told, Makes, Adds, MadeBy, Deletes, ValueIn
<1>5. CASE ~x.on
  <2>1. y.down = <<>> /\ x.down = <<>> /\ ~y.on /\ (x.apart <=> y.apart)
    BY <1>1, <1>2, <1>5 DEF HostSaysAs
  <2> QED BY <1>2, <2>1, NothingSaid DEF Explained, InStep, Current, DeletedIsGone, AddedIsHere,
         Reaches, MadeIsThere, GoesToo, AddIsFirst, NewsIsCurrent, OwnIsTold, CopyIsCurrent
<1>6. CASE x.on
  <2>1. y.down = Append(x.down, p)
    BY <1>1, <1>6 DEF HostSaysAs
  <2>2. /\ Deleted(y.down, u) <=> Deleted(x.down, u) \/ Deletes(p, u)
        /\ Made(y.down, u) <=> Made(x.down, u) \/ Makes(p, u)
        /\ Added(y.down, u) <=> Added(x.down, u) \/ Makes(p, u)
        /\ Says(y.down, u) <=> Says(x.down, u) \/ Mentions(p, u)
        /\ Lives(y.down, u, MadeBy) => Makes(p, u) \/ (Lives(x.down, u, MadeBy) /\ ~Deletes(p, u))
        /\ \A v : Mentions(p, u) /\ ValueIn(p, u) = v => LastSays(y.down, u, v)
        /\ \A v : ~Mentions(p, u) /\ LastSays(x.down, u, v) => LastSays(y.down, u, v)
    BY <1>3, <1>4, <2>1, MoreNews, MorePackets
  <2>3. Makes(p, u) => ~Deleted(x.down, u)
    BY <1>4, FlightSays
  <2>4. DeletedIsGone(y, u)
    BY <1>2, <1>4, <2>2, <2>3 DEF Explained, InStep, DeletedIsGone
  <2>5. AddedIsHere(y, u)
    BY <1>2 DEF Explained, InStep, AddedIsHere
  <2>6. Reaches(y, u)
    BY <1>2, <1>4, <2>2 DEF Explained, InStep, Reaches
  <2>7. MadeIsThere(y, u)
    BY <1>2, <1>4, <2>2 DEF Explained, InStep, MadeIsThere
  <2>8. GoesToo(y, u)
    BY <1>2, <1>4, <2>2 DEF Explained, InStep, GoesToo
  <2>9. AddIsFirst(y, u)
    <3>1. AddsFirst(y.down, u)
      BY <1>3, <1>4, <2>1, FirstAdds DEF Explained, InStep, AddIsFirst
    <3> QED BY <1>2, <1>4, <2>2, <3>1 DEF Explained, InStep, AddIsFirst
  <2>10. NewsIsCurrent(y, u)
    BY <1>2, <1>4, <1>6, <2>2 DEF Explained, Current, NewsIsCurrent
  <2>11. OwnIsTold(y, u) /\ CopyIsCurrent(y, u)
    BY <1>2, <1>4, <2>2 DEF Explained, Current, OwnIsTold, CopyIsCurrent
  <2> QED BY <2>4, <2>5, <2>6, <2>7, <2>8, <2>9, <2>10, <2>11 DEF Explained, InStep, Current
<1> QED BY <1>5, <1>6

\* An edit of the guest and its news.  A UID that is made has no deletion coming.
LEMMA GuestSaysExplained ==
    ASSUME NEW x, NEW y, NEW u \in Uid, IsView(x), IsView(y), GuestSays(x, y, u), Explained(x, u)
    PROVE  Explained(y, u)
<1>1. PICK p \in ObjectPacket : GuestSaysAs(x, y, u, p)
  BY DEF GuestSays
<1>2. /\ y.host = x.host /\ y.down = x.down /\ y.timer = x.timer
      /\ y.joined = x.joined /\ y.on = x.on
      /\ (x.missed <=> y.missed) /\ (x.stray <=> y.stray)
  BY DEF GuestSays, Sits
<1>3. p \in SentByGuests /\ x.up \in Seq(SentByGuests) /\ y.up = Append(x.up, p)
  BY <1>1, ViewQueues DEF GuestSaysAs
<1>4. /\ Makes(p, u) => y.own # NoVal /\ ~Says(x.down, u)
      /\ Deletes(p, u) => y.own = NoVal
      /\ ~Makes(p, u) /\ ~Deletes(p, u) => (y.own = NoVal <=> x.own = NoVal)
      /\ ~Mentions(p, u) => y.own = x.own /\ (x.apart <=> y.apart)
      /\ Makes(p, u) \/ Deletes(p, u) => Mentions(p, u)
      /\ Mentions(p, u) /\ ~y.apart /\ y.own # NoVal => y.own = ValueIn(p, u)
  BY <1>1, PacketValues DEF GuestSaysAs, Told, Makes, MadeBy, Deletes, ValueIn
<1>5. /\ Deleted(y.up, u) <=> Deleted(x.up, u) \/ Deletes(p, u)
      /\ Added(y.up, u) => Added(x.up, u) \/ Makes(p, u)
      /\ Added(x.up, u) => Added(y.up, u)
      /\ Makes(p, u) => Added(y.up, u)
      /\ Lives(y.up, u, {"OBJECT_ADD"}) =>
            Makes(p, u) \/ (Lives(x.up, u, {"OBJECT_ADD"}) /\ ~Deletes(p, u))
  <2>1. Adds(p, u) <=> Makes(p, u)
    BY <1>1 DEF GuestSaysAs, Adds, Makes, MadeBy
  <2> QED BY <1>3, <2>1, MoreNews
<1>6. Coming(x.up) => Coming(y.up)
  BY <1>3, ComingQueues
<1>7. /\ Says(y.up, u) <=> Says(x.up, u) \/ Mentions(p, u)
      /\ \A v : Mentions(p, u) /\ ValueIn(p, u) = v => LastSays(y.up, u, v)
      /\ \A v : ~Mentions(p, u) /\ LastSays(x.up, u, v) => LastSays(y.up, u, v)
  BY <1>3, MorePackets
<1>8. DeletedIsGone(y, u)
  BY <1>2, <1>4, <1>5, FlightSays DEF Explained, InStep, DeletedIsGone
<1>9. AddedIsHere(y, u)
  BY <1>2, <1>4, <1>5 DEF Explained, InStep, AddedIsHere
<1>10. Reaches(y, u)
  BY <1>2, <1>4, <1>5, <1>6 DEF Explained, InStep, Reaches
<1>11. MadeIsThere(y, u)
  BY <1>2 DEF Explained, InStep, MadeIsThere
<1>12. GoesToo(y, u)
  BY <1>2, <1>4, <1>5 DEF Explained, InStep, GoesToo
<1>13. AddIsFirst(y, u)
  BY <1>2, <1>4, FlightSays DEF Explained, InStep, AddIsFirst
<1>14. Current(y, u)
  BY <1>2, <1>4, <1>7 DEF Explained, Current, NewsIsCurrent, OwnIsTold, CopyIsCurrent
<1> QED BY <1>8, <1>9, <1>10, <1>11, <1>12, <1>13, <1>14 DEF Explained, InStep

\* The host gets a guest's news.  It makes what the guest has, has deleted since,
\* or was sent by the host and missed.
LEMMA HostGetsExplained ==
    ASSUME NEW x, NEW y, NEW u \in Uid, IsView(x), IsView(y), HostGets(x, y, u), Explained(x, u)
    PROVE  Explained(y, u)
<1> DEFINE p == Head(x.up)
<1>1. /\ x.up # <<>> /\ y.up = Tail(x.up)
      /\ p \in ObjectPacket /\ p.type # "OBJECT_BATCH"
      /\ Heard(p, u, x.host, y.host)
      /\ Makes(p, u) => x.host = NoVal
      /\ y.apart <=> x.apart \/ (Mentions(p, u) /\ Says(x.down, u))
      /\ /\ y.host = NoVal /\ (x.host # NoVal \/ Makes(p, u))
         /\ x.own # NoVal \/ Made(x.down, u)
         => y.stray
  BY DEF HostGets
<1>2. /\ y.own = x.own /\ y.down = x.down /\ y.timer = x.timer
      /\ y.joined = x.joined /\ y.on = x.on /\ (x.joined => x.on) /\ (x.on => x.joined)
      /\ (x.missed <=> y.missed) /\ (x.stray => y.stray)
  BY DEF HostGets, Sits, IsView
<1>3. x.up \in Seq(SentByGuests)
  BY ViewQueues
<1>4. Coming(x.up) => Coming(y.up)
  BY <1>1, <1>3, ComingQueues, PacketValues
<1>5. /\ Says(x.up, u) <=> Says(y.up, u) \/ Mentions(p, u)
      /\ \A v : LastSays(x.up, u, v) => \/ LastSays(y.up, u, v)
                                        \/ ~Says(y.up, u) /\ Mentions(p, u) /\ ValueIn(p, u) = v
  BY <1>1, <1>3, FewerPackets
<1>6. /\ Deleted(x.up, u) <=> Deleted(y.up, u) \/ Deletes(p, u)
      /\ Added(x.up, u) <=> Added(y.up, u) \/ Makes(p, u)
      /\ Lives(y.up, u, {"OBJECT_ADD"}) => Lives(x.up, u, {"OBJECT_ADD"})
      /\ Makes(p, u) => Lives(x.up, u, {"OBJECT_ADD"}) \/ Deleted(y.up, u)
  <2>1. Adds(p, u) <=> Makes(p, u)
    BY <1>1 DEF Adds, Makes, MadeBy
  <2> QED BY <1>1, <1>3, <2>1, FewerNews DEF p
<1> HIDE DEF p
<1>7. /\ y.host # NoVal => x.host # NoVal \/ Makes(p, u)
      /\ Deletes(p, u) => y.host = NoVal
      /\ ~Mentions(p, u) => y.host = x.host
      /\ Mentions(p, u) /\ y.host # NoVal => y.host = ValueIn(p, u)
      /\ Makes(p, u) \/ Deletes(p, u) => Mentions(p, u)
  BY <1>1, PacketValues DEF Heard, Makes, MadeBy, Deletes, ValueIn
<1>8. DeletedIsGone(y, u)
  BY <1>2, <1>6, <1>7 DEF Explained, InStep, DeletedIsGone
<1>9. AddedIsHere(y, u)
  BY <1>2, <1>6 DEF Explained, InStep, AddedIsHere
<1>10. Reaches(y, u)
  BY <1>2, <1>4, <1>6, <1>7 DEF Explained, InStep, Reaches, AddedIsHere
<1>11. MadeIsThere(y, u)
  BY <1>1, <1>2, FlightSays DEF Explained, InStep, MadeIsThere
<1>12. GoesToo(y, u)
  BY <1>1, <1>2, <1>6 DEF Explained, InStep, GoesToo
<1>13. AddIsFirst(y, u)
  BY <1>2 DEF Explained, InStep, AddIsFirst
<1>14. NewsIsCurrent(y, u)
  BY <1>1, <1>2, <1>5, <1>7 DEF Explained, Current, NewsIsCurrent
<1>15. OwnIsTold(y, u)
  BY <1>1, <1>2, <1>5 DEF Explained, Current, OwnIsTold
<1>16. CopyIsCurrent(y, u)
  <2> SUFFICES ASSUME y.on, y.host # NoVal, y.own # NoVal, ~Says(y.up, u), ~Says(y.down, u), ~y.apart
               PROVE  y.own = y.host
    BY DEF CopyIsCurrent
  <2>1. CASE Mentions(p, u)
    <3>1. LastSays(x.up, u, x.own)
      BY <1>1, <1>2, <1>5, <2>1 DEF Explained, Current, OwnIsTold
    <3>2. ~LastSays(y.up, u, x.own)
      BY FlightSays
    <3>3. ValueIn(p, u) = x.own
      BY <1>5, <3>1, <3>2
    <3> QED BY <1>2, <1>7, <2>1, <3>3
  <2>2. CASE ~Mentions(p, u)
    BY <1>1, <1>2, <1>5, <1>7, <2>2 DEF Explained, Current, CopyIsCurrent
  <2> QED BY <2>1, <2>2
<1> QED BY <1>8, <1>9, <1>10, <1>11, <1>12, <1>13, <1>14, <1>15, <1>16 DEF Explained, InStep, Current

\* A guest gets the host's news, or drops it in its fade.
LEMMA GuestGetsExplained ==
    ASSUME NEW x, NEW y, NEW u \in Uid, IsView(x), IsView(y), GuestGets(x, y, u), Explained(x, u)
    PROVE  Explained(y, u)
<1> DEFINE p == Head(x.down)
<1>1. /\ x.down # <<>> /\ y.down = Tail(x.down)
      /\ GuestHandles(x, y, u, p) \/ GuestDropsIt(x, y, u, p)
  BY DEF GuestGets
<1>2. /\ y.host = x.host /\ y.up = x.up /\ y.timer = x.timer /\ y.joined = x.joined /\ y.on = x.on
      /\ x.on /\ x.joined /\ (x.stray <=> y.stray)
  BY DEF GuestGets, Sits, IsView
<1>3. x.down \in Seq(SentByGuests) /\ p \in ObjectPacket
  BY <1>1, ViewQueues DEF IsView
<1>4. /\ Deleted(x.down, u) <=> Deleted(y.down, u) \/ Deletes(p, u)
      /\ Made(x.down, u) <=> Made(y.down, u) \/ Makes(p, u)
      /\ Added(x.down, u) <=> Added(y.down, u) \/ Adds(p, u)
      /\ Says(x.down, u) <=> Says(y.down, u) \/ Mentions(p, u)
      /\ Lives(y.down, u, MadeBy) => Lives(x.down, u, MadeBy)
      /\ Makes(p, u) => Lives(x.down, u, MadeBy) \/ Deleted(y.down, u)
      /\ \A v : LastSays(x.down, u, v) =>
            \/ LastSays(y.down, u, v)
            \/ ~Says(y.down, u) /\ Mentions(p, u) /\ ValueIn(p, u) = v
  <2>1. /\ Deleted(x.down, u) <=> Deleted(y.down, u) \/ Deletes(p, u)
        /\ Made(x.down, u) <=> Made(y.down, u) \/ Makes(p, u)
        /\ Added(x.down, u) <=> Added(y.down, u) \/ Adds(p, u)
        /\ Lives(y.down, u, MadeBy) => Lives(x.down, u, MadeBy)
        /\ Makes(p, u) => Lives(x.down, u, MadeBy) \/ Deleted(y.down, u)
    BY <1>1, <1>3, FewerNews
  <2>2. /\ Says(x.down, u) <=> Says(y.down, u) \/ Mentions(p, u)
        /\ \A v : LastSays(x.down, u, v) =>
              \/ LastSays(y.down, u, v)
              \/ ~Says(y.down, u) /\ Mentions(p, u) /\ ValueIn(p, u) = v
    BY <1>1, <1>3, FewerPackets
  <2> QED BY <2>1, <2>2
<1>5. /\ AddsFirst(y.down, u)
      /\ Mentions(p, u) => ~Added(y.down, u)
      /\ Adds(p, u) => x.own = NoVal
      /\ Added(y.down, u) => x.own = NoVal
  BY <1>1, <1>3, <1>4, FirstAdds DEF Explained, InStep, AddIsFirst
<1> HIDE DEF p
<1>6. DeletedIsGone(y, u) /\ MadeIsThere(y, u) /\ NewsIsCurrent(y, u)
  <2>1. x.apart => y.apart
    BY <1>1 DEF GuestHandles, GuestDropsIt
  <2>2. DeletedIsGone(y, u) /\ MadeIsThere(y, u)
    BY <1>2, <1>4 DEF Explained, InStep, DeletedIsGone, MadeIsThere
  <2>3. NewsIsCurrent(y, u)
    BY <1>2, <1>4, <2>1 DEF Explained, Current, NewsIsCurrent
  <2> QED BY <2>2, <2>3
<1>7. CASE GuestDropsIt(x, y, u, p)
  <2>1. y.own = NoVal /\ x.own = NoVal /\ (y.missed <=> x.missed \/ Makes(p, u))
    BY <1>7 DEF GuestDropsIt
  <2>2. AddedIsHere(y, u)
    BY <1>2, <2>1 DEF Explained, InStep, AddedIsHere
  <2>3. Reaches(y, u)
    BY <1>2, <1>4, <2>1 DEF Explained, InStep, Reaches
  <2>4. GoesToo(y, u) /\ AddIsFirst(y, u) /\ OwnIsTold(y, u) /\ CopyIsCurrent(y, u)
    BY <1>5, <2>1 DEF GoesToo, AddIsFirst, OwnIsTold, CopyIsCurrent
  <2> QED BY <1>6, <2>2, <2>3, <2>4 DEF Explained, InStep, Current
<1>8. CASE GuestHandles(x, y, u, p)
  <2>1. /\ ~Mentions(p, u) => y.own = x.own
        /\ Deletes(p, u) => y.own = NoVal
        /\ y.own # NoVal => x.own # NoVal \/ Makes(p, u)
        /\ Mentions(p, u) /\ y.own # NoVal => y.own = ValueIn(p, u)
        /\ Makes(p, u) \/ Deletes(p, u) => Mentions(p, u)
        /\ Makes(p, u) /\ y.own = NoVal => isCut(p)
        /\ x.own # NoVal /\ y.own = NoVal => Mentions(p, u) /\ (Deletes(p, u) \/ isCut(p))
    BY <1>3, <1>5, <1>8, PacketValues DEF GuestHandles, Heard, Deletes, Makes, Adds, MadeBy, ValueIn, isCut
  <2>2. /\ y.apart <=> x.apart \/ (Mentions(p, u) /\ Says(x.up, u))
        /\ x.missed /\ ~y.missed => Makes(p, u) /\ y.own # NoVal
        /\ Makes(p, u) /\ y.own = NoVal => y.missed
        /\ x.own # NoVal /\ y.own = NoVal => Deletes(p, u) \/ y.missed
    BY <1>8, <2>1 DEF GuestHandles
  <2>3. Deletes(p, u) => x.host = NoVal /\ ~Added(x.up, u)
    BY <1>4 DEF Explained, InStep, DeletedIsGone
  <2>4. AddedIsHere(y, u)
    BY <1>2, <2>2, <2>3, FlightSays DEF Explained, InStep, AddedIsHere
  <2>5. Reaches(y, u)
    BY <1>2, <1>4, <2>2, <2>3 DEF Explained, InStep, Reaches
  <2>6. GoesToo(y, u)
    BY <1>2, <1>4, <2>1 DEF Explained, InStep, GoesToo, MadeIsThere
  <2>7. AddIsFirst(y, u)
    BY <1>5, <2>1 DEF AddIsFirst
  <2>8. OwnIsTold(y, u)
    BY <1>2, <1>4, <2>1, <2>2 DEF Explained, Current, OwnIsTold
  <2>9. CopyIsCurrent(y, u)
    <3> SUFFICES ASSUME y.on, y.host # NoVal, y.own # NoVal, ~Says(y.up, u), ~Says(y.down, u), ~y.apart
                 PROVE  y.own = y.host
      BY DEF CopyIsCurrent
    <3>1. CASE Mentions(p, u)
      <4>1. LastSays(x.down, u, x.host)
        BY <1>2, <1>4, <2>2, <3>1 DEF Explained, Current, NewsIsCurrent
      <4>2. ~LastSays(y.down, u, x.host)
        BY FlightSays
      <4>3. ValueIn(p, u) = x.host
        BY <1>4, <4>1, <4>2
      <4> QED BY <1>2, <2>1, <3>1, <4>3
    <3>2. CASE ~Mentions(p, u)
      BY <1>2, <1>4, <2>1, <2>2, <3>2 DEF Explained, Current, CopyIsCurrent
    <3> QED BY <3>1, <3>2
  <2> QED BY <1>6, <2>4, <2>5, <2>6, <2>7, <2>8, <2>9 DEF Explained, InStep, Current
<1> QED BY <1>1, <1>7, <1>8

\* The answer to a request has all the host has, as it is.
LEMMA GetsStateExplained ==
    ASSUME NEW x, NEW y, NEW u \in Uid, IsView(x), IsView(y), GetsState(x, y, u), Explained(x, u)
    PROVE  Explained(y, u)
<1>1. PICK s : Full(s, u, x.host) /\ y.down = x.down \o s
  BY DEF GetsState
<1>2. /\ y.host = x.host /\ y.own = x.own /\ y.timer = x.timer
      /\ x.joined /\ y.joined /\ y.on
      /\ (x.missed <=> y.missed) /\ (x.stray <=> y.stray)
      /\ ~y.apart => ~x.apart \/ x.host # NoVal
      /\ x.up # <<>> /\ y.up = Tail(x.up) /\ ~Mentions(Head(x.up), u)
  BY DEF GetsState
<1>3. x.up \in Seq(SentByGuests) /\ x.down \in Seq(SentByGuests) /\ s \in Seq(BatchPacket)
  BY <1>1, ViewQueues DEF Full
<1>4. /\ Deleted(y.up, u) => Deleted(x.up, u)
      /\ Added(y.up, u) <=> Added(x.up, u)
      /\ Lives(y.up, u, {"OBJECT_ADD"}) => Lives(x.up, u, {"OBJECT_ADD"})
      /\ Says(y.up, u) <=> Says(x.up, u)
      /\ \A v : LastSays(x.up, u, v) => LastSays(y.up, u, v)
  <2>1. /\ Deleted(x.up, u) <=> Deleted(y.up, u) \/ Deletes(Head(x.up), u)
        /\ Added(x.up, u) <=> Added(y.up, u) \/ Adds(Head(x.up), u)
        /\ Lives(y.up, u, {"OBJECT_ADD"}) => Lives(x.up, u, {"OBJECT_ADD"})
    BY <1>2, <1>3, FewerNews
  <2>2. /\ Says(x.up, u) <=> Says(y.up, u) \/ Mentions(Head(x.up), u)
        /\ \A v : LastSays(x.up, u, v) =>
              \/ LastSays(y.up, u, v)
              \/ ~Says(y.up, u) /\ Mentions(Head(x.up), u) /\ ValueIn(Head(x.up), u) = v
    BY <1>2, <1>3, FewerPackets
  <2> QED BY <1>2, <2>1, <2>2 DEF Adds
<1>5. /\ Deleted(y.down, u) => Deleted(x.down, u)
      /\ Deleted(x.down, u) => Deleted(y.down, u)
      /\ x.host # NoVal => Made(y.down, u) /\ LastSays(y.down, u, x.host)
      /\ x.host = NoVal => /\ Says(y.down, u) <=> Says(x.down, u)
                           /\ \A w : LastSays(x.down, u, w) => LastSays(y.down, u, w)
      /\ Lives(y.down, u, MadeBy) => Lives(x.down, u, MadeBy) \/ x.host # NoVal
  <2> DEFINE q == x.down
             v == x.host
             more == y.down
  <2>1. q \in Seq(SentByGuests) /\ Full(s, u, v) /\ more = q \o s
    BY <1>1, <1>3
  <2> HIDE DEF q, v, more
  <2>2. /\ Deleted(more, u) => Deleted(q, u)
        /\ Deleted(q, u) => Deleted(more, u)
        /\ v # NoVal => Made(more, u) /\ LastSays(more, u, v)
        /\ v = NoVal => (Says(more, u) <=> Says(q, u)) /\ \A w : LastSays(q, u, w) => LastSays(more, u, w)
        /\ Lives(more, u, MadeBy) => Lives(q, u, MadeBy) \/ v # NoVal
    BY <2>1, MoreState, Zenon
  <2> QED BY <2>2 DEF q, v, more
<1>6. x.host # NoVal => Says(y.down, u)
  BY <1>5, FlightSays
<1>7. DeletedIsGone(y, u) /\ AddedIsHere(y, u) /\ MadeIsThere(y, u)
  BY <1>2, <1>4, <1>5 DEF Explained, InStep, DeletedIsGone, AddedIsHere, MadeIsThere
<1>8. Reaches(y, u)
  BY <1>2, <1>5 DEF Reaches
<1>9. GoesToo(y, u)
  BY <1>2, <1>4, <1>5 DEF Explained, InStep, GoesToo
<1>10. AddIsFirst(y, u)
  BY <1>1, <1>2, <1>3, FirstAdds DEF Explained, InStep, AddIsFirst
<1>11. NewsIsCurrent(y, u) /\ CopyIsCurrent(y, u)
  BY <1>2, <1>5, <1>6 DEF NewsIsCurrent, CopyIsCurrent
<1>12. OwnIsTold(y, u)
  BY <1>2, <1>4, <1>5, <1>6 DEF Explained, Current, OwnIsTold
<1> QED BY <1>7, <1>8, <1>9, <1>10, <1>11, <1>12 DEF Explained, InStep, Current

\* However what there is to see of u changes, it stays explained.
LEMMA MovesExplained ==
    ASSUME NEW x, NEW y, NEW u \in Uid, IsView(x), IsView(y), Moves(x, y, u), Explained(x, u)
    PROVE  Explained(y, u)
BY StaysExplained, HostSaysExplained, GuestSaysExplained, HostGetsExplained, GuestGetsExplained,
   GetsStateExplained, AwayExplained, ComesExplained, AsksExplained DEF Moves
-----------------------------------------------------------------------------
(* Where a guest is, and what is between it and the host                   *)

Bare(e) == \A u \in Uid : Copy(e, u) = NoVal

\* A guest that is out has sent nothing.  Who hears nothing from the host has
\* nothing coming.  No guest in the session has left it, and its CONNECT is the
\* first the host polls.  Before its editor is open a guest has nothing.
Link(g) ==
    /\ phase[g] = "out" => g \notin connected /\ up[g] = <<>>
    /\ ~Attached(g) => down[g] = <<>>
    /\ InSession(g) => \A i \in DOMAIN up[g] : up[g][i].type # "DISCONNECT"
    /\ InSession(g) /\ g \notin connected => up[g] # <<>> /\ Head(up[g]).type = "CONNECT"
    /\ phase[Host] = "out" => phase[g] = "out"
    /\ phase[g] \in {"out", "transition"} => Bare(ed[g])

\* The queue to the host stays, and so does where g is.
LEMMA LinkStays ==
    ASSUME NEW g \in Guests, Link(g), phase'[g] = phase[g],
           phase'[Host] \in {phase[Host], "editor"},
           g \in connected' <=> g \in connected, up'[g] = up[g],
           down'[g] = down[g] \/ Attached(g),
           \/ ed'[g] = ed[g]
           \/ phase[g] = "editor"
    PROVE  Link(g)'
BY DEF Link, Attached, InSession

\* g tells the host, or asks it.
LEMMA LinkTells ==
    ASSUME IInv, NEW g \in Guests, Link(g), phase'[g] = phase[g], phase[g] # "out",
           phase'[Host] = phase[Host],
           g \in connected' <=> g \in connected, down'[g] = down[g],
           NEW p \in SentByGuests, up'[g] = Append(up[g], p),
           p.type # "DISCONNECT",
           ed'[g] = ed[g] \/ phase[g] = "editor"
    PROVE  Link(g)'
<1>1. up[g] \in Seq(SentByGuests)
  BY DEF IInv
<1>2. ASSUME NEW q \in Seq(SentByGuests), NEW r, r = Append(q, p)
      PROVE  /\ \A i \in DOMAIN r : r[i] = p \/ (i \in DOMAIN q /\ r[i] = q[i])
             /\ r # <<>>
             /\ q # <<>> => Head(r) = Head(q)
  <2>1. /\ DOMAIN r = 1 .. Len(q) + 1 /\ DOMAIN q = 1 .. Len(q) /\ Len(q) \in Nat
        /\ r[Len(q) + 1] = p /\ \A i \in 1 .. Len(q) : r[i] = q[i]
    BY <1>2
  <2>2. q # <<>> => Head(r) = Head(q)
    BY <1>2
  <2> QED BY <1>2, <2>1, <2>2
<1>3. /\ \A i \in DOMAIN up'[g] : up'[g][i] = p \/ (i \in DOMAIN up[g] /\ up'[g][i] = up[g][i])
      /\ up'[g] # <<>>
      /\ up[g] # <<>> => Head(up'[g]) = Head(up[g])
  BY <1>1, <1>2
<1> QED BY <1>3 DEF Link, Attached, InSession

\* The host polls an event of g.
LEMMA LinkPolled ==
    ASSUME IInv, NEW g \in Guests, Link(g), phase' = phase, up[g] # <<>>,
           InSession(g) => g \in connected',
           g \in connected => (g \in connected' \/ ~InSession(g)),
           up'[g] = Tail(up[g]), ed'[g] = ed[g],
           down'[g] = down[g] \/ InSession(g)
    PROVE  Link(g)'
<1>1. up[g] \in Seq(SentByGuests)
  BY DEF IInv
<1>2. \A i \in DOMAIN up'[g] : i + 1 \in DOMAIN up[g] /\ up'[g][i] = up[g][i + 1]
  BY <1>1
<1>3. phase[g] # "out"
  BY DEF Link
<1> QED BY <1>2, <1>3 DEF Link, Attached, InSession

\* g leaves the session.
LEMMA LinkEnds ==
    ASSUME IInv, NEW g \in Guests, Link(g), InSession(g), Leave(g) \/ LoseHost(g)
    PROVE  Link(g)'
<1>1. /\ phase'[g] = "gone" /\ down'[g] = <<>> /\ phase'[Host] = phase[Host]
      /\ g # Host
      /\ \E n \in 0 .. Len(up[g]) : up'[g] = Append(SubSeq(up[g], 1, n), [type |-> "DISCONNECT"])
  BY ConstantsAssumption DEF Leave, LoseHost, IInv, Members
<1>2. PICK n \in 0 .. Len(up[g]) : up'[g] = Append(SubSeq(up[g], 1, n), [type |-> "DISCONNECT"])
  BY <1>1
<1>3. up[g] \in Seq(SentByGuests)
  BY DEF IInv
<1>4. \A i \in DOMAIN up'[g] : \/ up'[g][i] = [type |-> "DISCONNECT"]
                               \/ i \in DOMAIN up[g] /\ up'[g][i] = up[g][i]
  BY <1>2, <1>3
<1>5. [type |-> "DISCONNECT"] \in ControlPacket
  BY DEF ControlPacket
<1> QED BY <1>1, <1>4, <1>5 DEF Link, Attached, InSession

\* g joins.
LEMMA LinkBegins ==
    ASSUME IInv, NEW g \in Guests, Link(g), Join(g)
    PROVE  Link(g)'
<1>1. /\ phase'[g] = "transition" /\ phase[g] = "out" /\ phase'[Host] = phase[Host]
      /\ phase[Host] = "editor"
      /\ timer'[g] /\ up'[g] = <<[type |-> "CONNECT"]>> /\ ed' = ed /\ connected' = connected
      /\ down' = down
  BY ConstantsAssumption DEF Join, IInv, Members
<1>2. [type |-> "CONNECT"] \in ControlPacket
  BY DEF ControlPacket
<1>3. /\ up'[g] # <<>> /\ Head(up'[g]) = [type |-> "CONNECT"]
      /\ \A i \in DOMAIN up'[g] : up'[g][i] = [type |-> "CONNECT"]
  BY <1>1
<1> QED BY <1>1, <1>2, <1>3 DEF Link, Attached, InSession

-----------------------------------------------------------------------------
(* What the users' edits tell                                              *)

\* What the ghost says of the copies under u after m's edit and its news p: it
\* changes for an update that g tells, or is told, and then p is right or astray.
AsTold(m, t, u, p) ==
    \A g \in Guests :
        IF (m = g \/ (m = Host /\ Attached(g))) /\ p.type = "OBJECT_UPDATE" /\ Mentions(p, u)
        THEN u \notin apart'[g] => Copy(t, u) = p.val
        ELSE u \in apart'[g] <=> u \in apart[g]

\* The user of m has turned m's editor into t, and m sends s: one packet, or
\* none if the object is not tracked.
EditNews(m, t, s) ==
    \/ /\ s = <<>> /\ \A u \in Uid : Copy(t, u) = Copy(ed[m], u)
       /\ \A g \in Guests, u \in Uid : u \in apart'[g] <=> u \in apart[g]
    \/ \E p \in ObjectPacket :
          /\ s = <<p>> /\ p.type # "OBJECT_BATCH"
          /\ \A u \in Uid :
                /\ Told(p, u, Copy(ed[m], u), Copy(t, u))
                /\ Makes(p, u) => Unheard(u)
                /\ Exact(ed[m]) /\ Mentions(p, u) /\ ~Makes(p, u) => Copy(ed[m], u) # NoVal
                /\ AsTold(m, t, u, p)

\* The news of an object, which is sent after the edit unless it is rotated.
LEMMA ChangeNews ==
    ASSUME HInv, NEW m \in Members, NEW o \in Live(ed[m]), NEW t, NEW v \in Val,
           t = ed[m] \/ t = setValue(ed[m], o, v), NEW b \in {ed[m], t},
           NEW s, s = onLocalObjectModified(b, o),
           NEW asItIs \in BOOLEAN, Tells(m, o, asItIs), asItIs => b = t
    PROVE  EditNews(m, t, s)
<1> DEFINE e == ed[m]
<1>1. Good(e)
  BY SoundGood DEF HInv, UInv, IInv
<1>a. \A g \in Guests : apart'[g] =
         IF ~(m = g \/ (m = Host /\ Attached(g))) \/ e.o2u[o] \notin Uid THEN apart[g]
         ELSE IF asItIs /\ e.synced[e.o2u[o]] = o THEN apart[g] \ {e.o2u[o]}
         ELSE apart[g] \cup {e.o2u[o]}
  BY DEF Tells
<1> HIDE DEF e
<1>2. \/ s = <<>> /\ ~isTrackedObject(e, o) /\ \A u \in Uid : Copy(t, u) = Copy(e, u)
      \/ \E p \in StringPacket :
            /\ s = <<p>> /\ p.type = "OBJECT_UPDATE" /\ p.uid = e.o2u[o] /\ p.val = b.val[o]
            /\ \A u \in Uid : Told(p, u, Copy(e, u), Copy(t, u))
  BY <1>1, ChangeTells DEF e
<1>3. CASE s = <<>> /\ ~isTrackedObject(e, o) /\ \A u \in Uid : Copy(t, u) = Copy(e, u)
  <2>1. e.o2u[o] \notin Uid
    BY <1>3, ConstantsAssumption DEF isTrackedObject
  <2>2. \A g \in Guests : apart'[g] = apart[g]
    BY <1>a, <2>1
  <2> QED BY <1>3, <2>2 DEF EditNews, e
<1>4. ASSUME NEW p \in StringPacket,
             s = <<p>>, p.type = "OBJECT_UPDATE", p.uid = e.o2u[o], p.val = b.val[o],
             \A u \in Uid : Told(p, u, Copy(e, u), Copy(t, u))
      PROVE  EditNews(m, t, s)
  <2>1. p \in ObjectPacket /\ p.type # "OBJECT_BATCH" /\ p.uid \in Uid
    BY <1>4 DEF ObjectPacket, StringPacket
  <2>2. ASSUME NEW u \in Uid
        PROVE  /\ ~Makes(p, u)
               /\ Exact(e) /\ Mentions(p, u) => Copy(e, u) # NoVal
               /\ AsTold(m, t, u, p)
    <3>1. ~Makes(p, u) /\ (Mentions(p, u) <=> u = e.o2u[o])
      BY <1>4 DEF Makes, MadeBy, Mentions
    <3>2. o \in Obj /\ o # NoObj
      BY ConstantsAssumption DEF Live, e
    <3>3. ASSUME Exact(e), Mentions(p, u) PROVE Copy(e, u) # NoVal
      <4>1. e.synced[u] = o
        BY <3>1, <3>2, <3>3 DEF Exact, HalfExact, isTrackedObject, Live, e
      <4> QED BY <3>2, <4>1 DEF Copy, Live, e
    <3>4. t.synced = e.synced
      BY <1>1 DEF setValue, Good, EditorState, e
    <3>5. ASSUME asItIs, e.synced[u] = o, Mentions(p, u) PROVE Copy(t, u) = p.val
      BY <1>4, <3>2, <3>4, <3>5 DEF Copy
    <3>6. AsTold(m, t, u, p)
      <4> SUFFICES ASSUME NEW g \in Guests
                   PROVE  IF (m = g \/ (m = Host /\ Attached(g))) /\ p.type = "OBJECT_UPDATE" /\ Mentions(p, u)
                          THEN u \notin apart'[g] => Copy(t, u) = p.val
                          ELSE u \in apart'[g] <=> u \in apart[g]
        BY DEF AsTold
      <4>1. CASE ~(m = g \/ (m = Host /\ Attached(g)))
        BY <1>a, <4>1
      <4>2. CASE (m = g \/ (m = Host /\ Attached(g))) /\ Mentions(p, u)
        BY <1>4, <1>a, <3>1, <3>5, <4>2
      <4>3. CASE (m = g \/ (m = Host /\ Attached(g))) /\ ~Mentions(p, u)
        BY <1>a, <3>1, <4>3
      <4> QED BY <4>1, <4>2, <4>3
    <3> QED BY <3>1, <3>3, <3>6
  <2> QED BY <1>4, <2>1, <2>2 DEF EditNews, e
<1> QED BY <1>2, <1>3, <1>4

\* Any edit of m's user.
LEMMA EditTells ==
    ASSUME HInv, NEW m \in Members, Edit(m)
    PROVE  /\ phase[m] = "editor"
           /\ phase' = phase /\ timer' = timer /\ connected' = connected
           /\ missed' = missed /\ strays' = strays
           /\ \E t, s : /\ ed' = [ed EXCEPT ![m] = t] /\ sendPacket(m, s)
                        /\ EditNews(m, t, s)
<1> DEFINE e == ed[m]
<1>1. /\ phase[m] = "editor"
      /\ phase' = phase /\ timer' = timer /\ connected' = connected
      /\ missed' = missed /\ strays' = strays
  BY DEF Edit, AddObject, RemoveObject, transformObjectCall, rotateObjects, updateButtons, MayEdit,
         Tells, ghosts
<1>2. Good(e) /\ ed \in [Members -> EditorState]
  BY SoundGood DEF HInv, UInv, IInv, Sound
<1>3. SUFFICES \E t, s : ed' = [ed EXCEPT ![m] = t] /\ sendPacket(m, s) /\ EditNews(m, t, s)
  BY <1>1, <1>3
<1>4. CASE AddObject(m)
  <2>0. PICK o \in Fresh(e), v \in Val :
           \E r : r = addSpecial(e, m, o, v, "user") /\ ed' = [ed EXCEPT ![m] = r.ed] /\ sendPacket(m, r.out)
    BY <1>4 DEF AddObject
  <2>a. apart' = apart
    BY <1>4 DEF AddObject, ghosts
  <2>1. PICK r : r = addSpecial(e, m, o, v, "user") /\ ed' = [ed EXCEPT ![m] = r.ed] /\ sendPacket(m, r.out)
    BY <2>0
  <2>2. e.next < MaxUid /\ e.next \in 0 .. MaxUid
    BY <1>2, <1>4 DEF AddObject, Good, EditorState
  <2>3. <<m, e.next>> \in Uid /\ Future(<<m, e.next>>)
    BY <1>1, <2>2, ConstantsAssumption DEF Uid, Future
  <2>4. Unheard(<<m, e.next>>)
    BY <2>3 DEF HInv, UInv, FutureUnheard
  <2>5. PICK p \in StringPacket :
           /\ r.out = <<p>> /\ p.type = "OBJECT_ADD" /\ p.uid = <<m, e.next>> /\ p.val = v
           /\ \A u \in Uid : Told(p, u, Copy(e, u), Copy(r.ed, u))
    <3> HIDE DEF e
    <3>1. Good(e)
      BY <1>2
    <3>2. e.next < MaxUid
      BY <2>2
    <3>3. r = addSpecial(e, m, o, v, "user")
      BY <2>1
    <3> QED BY <3>1, <3>2, <3>3, AddTells, SMTT(30)
  <2>6. p \in ObjectPacket /\ p.type # "OBJECT_BATCH"
    BY <2>5 DEF ObjectPacket
  <2>7. ASSUME NEW u \in Uid
        PROVE  /\ Makes(p, u) => Unheard(u)
               /\ Mentions(p, u) => Makes(p, u)
               /\ AsTold(m, r.ed, u, p)
    BY <2>a, <2>4, <2>5 DEF Makes, MadeBy, Mentions, AsTold
  <2>8. EditNews(m, r.ed, r.out)
    BY <2>5, <2>6, <2>7 DEF EditNews
  <2> QED BY <2>1, <2>8
<1>5. CASE RemoveObject(m)
  <2>0. PICK o \in Live(e) :
           \E r : r = removeObject(e, o, "user") /\ ed' = [ed EXCEPT ![m] = r.ed] /\ sendPacket(m, r.out)
    BY <1>5 DEF RemoveObject
  <2>a. apart' = apart
    BY <1>5 DEF RemoveObject, ghosts
  <2>1. PICK r : r = removeObject(e, o, "user") /\ ed' = [ed EXCEPT ![m] = r.ed] /\ sendPacket(m, r.out)
    BY <2>0
  <2>2. \/ r.out = <<>> /\ \A u \in Uid : Copy(r.ed, u) = Copy(e, u)
        \/ \E p \in DeletePacket :
              /\ r.out = <<p>> /\ p.uid = e.o2u[o]
              /\ \A u \in Uid : Told(p, u, Copy(e, u), Copy(r.ed, u))
    BY <1>2, <2>1, RemoveTells
  <2>3. CASE r.out = <<>> /\ \A u \in Uid : Copy(r.ed, u) = Copy(e, u)
    BY <2>a, <2>1, <2>3 DEF EditNews
  <2>4. ASSUME NEW p \in DeletePacket, r.out = <<p>>, p.uid = e.o2u[o],
               \A u \in Uid : Told(p, u, Copy(e, u), Copy(r.ed, u))
        PROVE  EditNews(m, r.ed, r.out)
    <3>1. p \in ObjectPacket /\ p.type = "OBJECT_DELETE"
      BY DEF ObjectPacket, DeletePacket
    <3>2. ASSUME NEW u \in Uid
          PROVE  /\ ~Makes(p, u) /\ (Exact(e) /\ Mentions(p, u) => Copy(e, u) # NoVal)
                 /\ AsTold(m, r.ed, u, p)
      <4>1. ~Makes(p, u)
        BY <3>1 DEF Makes, MadeBy
      <4>2. ASSUME Exact(e), Mentions(p, u) PROVE Copy(e, u) # NoVal
        <5>1. u = e.o2u[o] /\ o \in Obj /\ o # NoObj
          BY <2>4, <3>1, <4>2, ConstantsAssumption DEF Mentions, Live
        <5>2. e.synced[u] # NoObj
          BY <4>2, <5>1 DEF Exact, HalfExact, isTrackedObject
        <5> QED BY <1>2, <5>2, CopyTracked
      <4>3. AsTold(m, r.ed, u, p)
        BY <2>a, <3>1 DEF AsTold
      <4> QED BY <4>1, <4>2, <4>3
    <3> QED BY <2>4, <3>1, <3>2 DEF EditNews
  <2> QED BY <2>1, <2>2, <2>3, <2>4
<1>6. CASE transformObjectCall(m)
  <2>1. PICK o \in Live(e), v \in Val :
           /\ ed' = [ed EXCEPT ![m] = setValue(e, o, v)]
           /\ sendPacket(m, onLocalObjectModified(setValue(e, o, v), o))
           /\ Tells(m, o, TRUE)
    BY <1>6 DEF transformObjectCall
  <2>2. EditNews(m, setValue(e, o, v), onLocalObjectModified(setValue(e, o, v), o))
    BY <2>1, ChangeNews
  <2> QED BY <2>1, <2>2
<1>7. CASE rotateObjects(m)
  <2>1. PICK o \in Live(e), v \in Val :
           /\ ed' = [ed EXCEPT ![m] = setValue(e, o, v)]
           /\ sendPacket(m, onLocalObjectModified(e, o))
           /\ Tells(m, o, FALSE)
    BY <1>7 DEF rotateObjects
  <2>2. EditNews(m, setValue(e, o, v), onLocalObjectModified(e, o))
    BY <2>1, ChangeNews
  <2> QED BY <2>1, <2>2
<1>8. CASE updateButtons(m)
  <2>1. PICK o \in Live(e) :
           ed' = ed /\ sendPacket(m, onLocalObjectModified(e, o)) /\ Tells(m, o, TRUE)
    BY <1>8 DEF updateButtons
  <2>2. ed' = [ed EXCEPT ![m] = e]
    BY <1>2, <2>1
  <2>3. PICK v \in Val : e.val[o] = v
    BY <1>2 DEF Good, EditorState, Live
  <2>4. EditNews(m, e, onLocalObjectModified(e, o))
    BY <2>1, <2>3, ChangeNews
  <2> QED BY <2>1, <2>2, <2>4
<1> QED BY <1>4, <1>5, <1>6, <1>7, <1>8 DEF Edit

\* Where g is when a member's user edits: where it was.
LEMMA EditLink ==
    ASSUME HInv, NEW m \in Members, Edit(m), NEW g \in Guests, Link(g)
    PROVE  Link(g)'
<1>1. /\ phase[m] = "editor"
      /\ phase' = phase /\ timer' = timer /\ connected' = connected
      /\ \E t, s : /\ ed' = [ed EXCEPT ![m] = t] /\ sendPacket(m, s)
                   /\ EditNews(m, t, s)
  BY EditTells
<1>2. PICK t, s : ed' = [ed EXCEPT ![m] = t] /\ sendPacket(m, s) /\ EditNews(m, t, s)
  BY <1>1
<1>3. /\ g \in Members /\ g # Host /\ IInv
      /\ ed \in [Members -> EditorState] /\ up \in [Guests -> Seq(SentByGuests)]
  BY ConstantsAssumption DEF Members, HInv, UInv, IInv, Sound
<1>4. CASE m = Host
  <2>1. up'[g] = up[g] /\ ed'[g] = ed[g] /\ (down'[g] = down[g] \/ Attached(g))
    BY <1>2, <1>3, <1>4 DEF sendPacket, Broadcast, Attached
  <2> QED BY <1>1, <2>1, LinkStays
<1>5. CASE m # Host
  <2>1. m \in Guests
    BY <1>5 DEF Members
  <2>2. down' = down /\ up' = [up EXCEPT ![m] = @ \o s]
    BY <1>2, <1>5 DEF sendPacket
  <2>3. CASE g # m
    <3>1. up'[g] = up[g] /\ ed'[g] = ed[g] /\ down'[g] = down[g]
      BY <1>2, <1>3, <2>2, <2>3
    <3> QED BY <1>1, <3>1, LinkStays
  <2>4. CASE g = m
    <3>1. CASE s = <<>>
      <4>1. up'[g] = up[g]
        BY <1>3, <2>2, <2>4, <3>1
      <4> QED BY <1>1, <2>1, <2>2, <2>4, <4>1, LinkStays
    <3>2. CASE \E p \in ObjectPacket : s = <<p>>
      <4>1. PICK p \in ObjectPacket : s = <<p>>
        BY <3>2
      <4>2. up'[g] = Append(up[g], p)
        BY <1>3, <2>2, <2>4, <4>1
      <4>3. p \in SentByGuests /\ p.type # "DISCONNECT"
        BY DEF SentByGuests, ObjectPacket, StringPacket, DeletePacket, BatchPacket
      <4>4. phase[g] = "editor" /\ phase'[g] = phase[g] /\ phase'[Host] = phase[Host]
        BY <1>1, <2>4
      <4>5. down'[g] = down[g] /\ timer'[g] = timer[g] /\ (g \in connected' <=> g \in connected)
        BY <1>1, <2>2
      <4> QED BY <1>3, <2>1, <4>2, <4>3, <4>4, <4>5, LinkTells
    <3> QED BY <1>2, <3>1, <3>2 DEF EditNews
  <2> QED BY <2>3, <2>4
<1> QED BY <1>4, <1>5

\* At the start every guest is out.
LEMMA InitLink == ASSUME Init, NEW g \in Guests PROVE Link(g)
<1>1. /\ phase[g] = "out" /\ connected = {} /\ up[g] = <<>> /\ down[g] = <<>>
      /\ g \in Members /\ g # Host
  BY ConstantsAssumption DEF Init, Members
<1>2. ed[g] = Emptied
  BY <1>1 DEF Init
<1>3. Bare(ed[g])
  BY <1>2, CopyEmptied DEF Bare
<1> QED BY <1>1, <1>3 DEF Link, Attached, InSession

\* The host's editor is open when it polls, and its answer to g touches
\* nothing of another guest.
LEMMA AnswerLeaves ==
    ASSUME IInv, NEW g \in Guests, AnswerWithFullState(g), NEW h \in Guests
    PROVE  /\ ed'[h] = ed[h]
           /\ h # g => up'[h] = up[h] /\ down'[h] = down[h]
           /\ h = g => up'[h] = Tail(up[h]) /\ (down'[h] = down[h] \/ InSession(h))
<1>1. /\ ed \in [Members -> EditorState] /\ up \in [Guests -> Seq(SentByGuests)]
      /\ down \in [Guests -> Seq(ObjectPacket)] /\ h \in Members /\ h # Host
  BY ConstantsAssumption DEF IInv, Sound, Members
<1>2. PICK r \in sendFullState(ed[Host]) :
        /\ ed' = [ed EXCEPT ![Host] = r.ed]
        /\ up' = [up EXCEPT ![g] = Tail(@)]
        /\ down' = IF InSession(g) THEN [down EXCEPT ![g] = @ \o r.out] ELSE down
  BY DEF AnswerWithFullState
<1> QED BY <1>1, <1>2

\* A step of guest h's process, or of the host's with h's packets.
LEMMA SessionLink ==
    ASSUME HInv, NEW h \in Guests, Session(h), NEW g \in Guests, Link(g)
    PROVE  Link(g)'
<1>1. /\ g \in Members /\ g # Host /\ h \in Members /\ h # Host /\ IInv
      /\ ed \in [Members -> EditorState] /\ up \in [Guests -> Seq(SentByGuests)]
      /\ phase \in [Members -> Phases] /\ timer \in [Guests -> BOOLEAN]
      /\ down \in [Guests -> Seq(ObjectPacket)] /\ Host \in Members
  BY ConstantsAssumption DEF Members, HInv, UInv, IInv, Sound
<1>2. CASE Join(h)
  <2>1. CASE g = h
    BY <1>1, <1>2, <2>1, LinkBegins
  <2>2. CASE g # h
    BY <1>1, <1>2, <2>2, LinkStays DEF Join
  <2> QED BY <2>1, <2>2
<1>3. CASE EndTransition(h)
  <2>1. CASE g = h
    <3>1. /\ phase[g] = "transition" /\ phase'[g] = "editor" /\ phase'[Host] = phase[Host]
          /\ ed' = ed /\ up' = up /\ down' = down /\ timer' = timer /\ connected' = connected
      BY <1>1, <1>3, <2>1 DEF EndTransition
    <3> QED BY <3>1 DEF Link, Attached, InSession
  <2>2. CASE g # h
    BY <1>1, <1>3, <2>2, LinkStays DEF EndTransition
  <2> QED BY <2>1, <2>2
<1>4. CASE requestFullState(h)
  <2>1. CASE g = h
    <3> DEFINE p == [type |-> "REQUEST_FULL_STATE"]
    <3>1. p \in SentByGuests /\ p \in ControlPacket /\ p.type # "DISCONNECT"
      BY DEF SentByGuests, ControlPacket
    <3>2. up'[g] = Append(up[g], p) /\ phase[g] # "out"
      BY <1>1, <1>4, <2>1 DEF requestFullState, InSession
    <3> HIDE DEF p
    <3>3. /\ phase' = phase /\ connected' = connected /\ ed' = ed /\ down' = down
      BY <1>4, <2>1 DEF requestFullState
    <3> QED BY <1>1, <3>1, <3>2, <3>3, LinkTells
  <2>2. CASE g # h
    BY <1>1, <1>4, <2>2, LinkStays DEF requestFullState
  <2> QED BY <2>1, <2>2
<1>5. CASE Leave(h) \/ LoseHost(h)
  <2>1. CASE g = h
    BY <1>1, <1>5, <2>1, LinkEnds DEF Leave, LoseHost
  <2>2. CASE g # h
    <3>1. ed'[g] = ed[g] /\ up'[g] = up[g] /\ down'[g] = down[g] /\ timer'[g] = timer[g]
      BY <1>1, <1>5, <2>2 DEF Leave, LoseHost
    <3>2. phase'[g] = phase[g] /\ phase'[Host] = phase[Host] /\ connected' = connected
      BY <1>1, <1>5, <2>2 DEF Leave, LoseHost
    <3> QED BY <3>1, <3>2, LinkStays
  <2> QED BY <2>1, <2>2
<1>6. CASE PollConnect(h) \/ PollRequest(h)
  <2>1. /\ phase' = phase /\ timer' = timer /\ up[h] # <<>> /\ AnswerWithFullState(h)
        /\ connected' = connected \/ connected' = connected \cup {h}
        /\ Head(up[h]).type # "CONNECT" => connected' = connected
        /\ Head(up[h]).type = "CONNECT" => h \in connected'
    BY <1>6 DEF PollConnect, PollRequest, Polls
  <2>2. /\ ed'[g] = ed[g]
        /\ g # h => up'[g] = up[g] /\ down'[g] = down[g]
        /\ g = h => up'[g] = Tail(up[g]) /\ (down'[g] = down[g] \/ InSession(g))
    BY <1>1, <2>1, AnswerLeaves
  <2>3. CASE g = h
    <3>1. InSession(g) => g \in connected'
      BY <2>1, <2>3 DEF Link
    <3>2. up[g] # <<>> /\ up'[g] = Tail(up[g]) /\ (down'[g] = down[g] \/ InSession(g))
      BY <2>1, <2>2, <2>3
    <3>3. g \in connected => g \in connected' \/ ~InSession(g)
      BY <2>1
    <3>4. timer'[g] = timer[g]
      BY <2>1
    <3> QED BY <1>1, <2>1, <2>2, <3>1, <3>2, <3>3, <3>4, LinkPolled
  <2>4. CASE g # h
    <3>1. up'[g] = up[g] /\ down'[g] = down[g] /\ (g \in connected' <=> g \in connected)
      BY <2>1, <2>2, <2>4
    <3> QED BY <2>1, <2>2, <3>1, LinkStays
  <2> QED BY <2>3, <2>4
<1>7. CASE PollDisconnect(h)
  <2>1. /\ phase' = phase /\ timer' = timer /\ ed' = ed /\ down' = down
        /\ up[h] # <<>> /\ Head(up[h]).type = "DISCONNECT"
        /\ up' = [up EXCEPT ![h] = Tail(@)] /\ connected' = connected \ {h}
    BY <1>7 DEF PollDisconnect, Polls
  <2>2. CASE g = h
    <3>1. ~InSession(g)
      <4>1. 1 \in DOMAIN up[g] /\ up[g][1].type = "DISCONNECT"
        BY <1>1, <2>1, <2>2
      <4> QED BY <4>1 DEF Link
    <3>2. up'[g] = Tail(up[g])
      BY <1>1, <2>1, <2>2
    <3> QED BY <1>1, <2>1, <2>2, <3>1, <3>2, LinkPolled
  <2>3. CASE g # h
    BY <1>1, <2>1, <2>3, LinkStays
  <2> QED BY <2>2, <2>3
<1>8. CASE HostReceives(h)
  <2>1. down' = down
    BY <1>1, <1>8, HostReceivesSilent
  <2>2. /\ phase' = phase /\ timer' = timer /\ connected' = connected
        /\ up[h] # <<>> /\ Head(up[h]).type # "CONNECT"
        /\ up' = [up EXCEPT ![h] = Tail(@)] /\ \E t : ed' = [ed EXCEPT ![Host] = t]
    BY <1>8 DEF HostReceives
  <2>3. ed'[g] = ed[g]
    BY <1>1, <2>2
  <2>4. CASE g = h
    <3>1. InSession(g) => g \in connected'
      BY <2>2, <2>4 DEF Link
    <3>2. up'[g] = Tail(up[g])
      BY <1>1, <2>2, <2>4
    <3> QED BY <1>1, <2>1, <2>2, <2>3, <2>4, <3>1, <3>2, LinkPolled
  <2>5. CASE g # h
    BY <1>1, <2>1, <2>2, <2>3, <2>5, LinkStays
  <2> QED BY <2>4, <2>5
<1>9. CASE GuestReceives(h)
  <2>1. up' = up
    BY <1>1, <1>9, GuestReceivesSilent
  <2>2. /\ phase' = phase /\ timer' = timer /\ connected' = connected
        /\ phase[h] = "editor" /\ down[h] # <<>>
        /\ down' = [down EXCEPT ![h] = Tail(@)] /\ \E t : ed' = [ed EXCEPT ![h] = t]
    BY <1>9 DEF GuestReceives, getEditorLayer
  <2>3. CASE g = h
    <3>1. Attached(g) /\ phase[g] = "editor"
      BY <2>2, <2>3 DEF Link
    <3> QED BY <2>1, <2>2, <3>1, LinkStays
  <2>4. CASE g # h
    <3>1. ed'[g] = ed[g] /\ down'[g] = down[g]
      BY <1>1, <2>2, <2>4
    <3> QED BY <2>1, <2>2, <3>1, LinkStays
  <2> QED BY <2>3, <2>4
<1>10. CASE GuestDrops(h)
  <2>1. /\ phase' = phase /\ timer' = timer /\ connected' = connected /\ ed' = ed /\ up' = up
        /\ down[h] # <<>> /\ down' = [down EXCEPT ![h] = Tail(@)]
    BY <1>10 DEF GuestDrops
  <2>2. down'[g] = down[g] \/ Attached(g)
    BY <1>1, <2>1 DEF Link
  <2> QED BY <2>1, <2>2, LinkStays
<1> QED BY <1>2, <1>3, <1>4, <1>5, <1>6, <1>7, <1>8, <1>9, <1>10 DEF Session, Poll

\* Every step keeps every guest's link.
LEMMA NextLink ==
    ASSUME HInv, [Next]_vars, NEW g \in Guests, Link(g)
    PROVE  Link(g)'
<1>1. CASE StartHosting
  <2>1. /\ phase[Host] = "out" /\ phase' = [phase EXCEPT ![Host] = "editor"]
        /\ UNCHANGED <<timer, connected, up, down>>
        /\ \E t : ed' = [ed EXCEPT ![Host] = t]
    BY <1>1 DEF StartHosting
  <2>2. /\ g \in Members /\ g # Host /\ Host \in Members
        /\ phase \in [Members -> Phases] /\ ed \in [Members -> EditorState]
    BY ConstantsAssumption DEF Members, HInv, UInv, IInv, Sound
  <2>3. phase'[Host] = "editor" /\ phase'[g] = phase[g] /\ ed'[g] = ed[g]
    BY <2>1, <2>2
  <2> QED BY <2>1, <2>3, LinkStays
<1>2. ASSUME NEW h \in Guests, Session(h) PROVE Link(g)'
  BY <1>2, SessionLink
<1>3. ASSUME NEW m \in Members, Edit(m) PROVE Link(g)'
  BY <1>3, EditLink
<1>4. CASE UNCHANGED vars
  BY <1>4, LinkStays DEF vars
<1> QED BY <1>1, <1>2, <1>3, <1>4 DEF Next

-----------------------------------------------------------------------------
(* Every step of the session moves what there is to see of a UID           *)

\* What is seen, before and after a step.
LEMMA ViewFields ==
    ASSUME NEW g \in Guests, NEW u \in Uid
    PROVE  LET x == View(g, u)
               y == View(g, u)'
           IN /\ x.host = Copy(ed[Host], u) /\ y.host = Copy(ed'[Host], u)
              /\ x.own = Copy(ed[g], u) /\ y.own = Copy(ed'[g], u)
              /\ x.up = up[g] /\ y.up = up'[g]
              /\ x.down = down[g] /\ y.down = down'[g]
              /\ x.joined = InSession(g) /\ y.joined = (phase'[g] \in {"transition", "editor"})
              /\ x.on = (InSession(g) /\ g \in connected)
              /\ y.on = (phase'[g] \in {"transition", "editor"} /\ g \in connected')
              /\ x.timer = timer[g] /\ y.timer = timer'[g]
BY DEF View, Attached, InSession

\* A guest that stays where it is sits.
LEMMA ViewSits ==
    ASSUME NEW g \in Guests, NEW u \in Uid, phase'[g] = phase[g],
           g \in connected' <=> g \in connected
    PROVE  Sits(View(g, u), View(g, u)')
<1> DEFINE x == View(g, u)
           y == View(g, u)'
<1>1. y.joined = x.joined /\ y.on = x.on
  BY ViewFields DEF InSession
<1> QED BY <1>1 DEF Sits

\* g is on when it is attached.
LEMMA ViewOn ==
    ASSUME NEW g \in Guests, NEW u \in Uid
    PROVE  /\ View(g, u).on <=> Attached(g)
           /\ View(g, u).joined <=> InSession(g)
           /\ View(g, u).on \in BOOLEAN /\ View(g, u).joined \in BOOLEAN
<1>1. Attached(g) \in BOOLEAN /\ InSession(g) \in BOOLEAN
  BY DEF Attached, InSession
<1>2. View(g, u).on = Attached(g) /\ View(g, u).joined = InSession(g)
  BY DEF View
<1> QED BY <1>1, <1>2

\* What is seen of the ghosts, before and after a step.
LEMMA ViewGhosts ==
    ASSUME NEW g \in Guests, NEW u \in Uid
    PROVE  LET x == View(g, u)
               y == View(g, u)'
           IN /\ x.missed <=> u \in missed[g]
              /\ x.stray <=> u \in strays[g]
              /\ x.apart <=> u \in apart[g]
              /\ y.missed <=> u \in missed'[g]
              /\ y.stray <=> u \in strays'[g]
              /\ y.apart <=> u \in apart'[g]
              /\ x.missed \in BOOLEAN /\ x.stray \in BOOLEAN /\ x.apart \in BOOLEAN
<1> DEFINE x == View(g, u)
           y == View(g, u)'
<1>1. /\ (u \in missed[g]) \in BOOLEAN /\ (u \in strays[g]) \in BOOLEAN
      /\ (u \in apart[g]) \in BOOLEAN
  OBVIOUS
<1>2. /\ x.missed = (u \in missed[g]) /\ x.stray = (u \in strays[g])
      /\ x.apart = (u \in apart[g])
      /\ y.missed = (u \in missed'[g]) /\ y.stray = (u \in strays'[g])
      /\ y.apart = (u \in apart'[g])
  BY DEF View
<1> HIDE DEF x, y
<1>3. /\ x.missed <=> u \in missed[g]
      /\ x.stray <=> u \in strays[g]
      /\ x.apart <=> u \in apart[g]
  BY <1>2
<1>4. /\ y.missed <=> u \in missed'[g]
      /\ y.stray <=> u \in strays'[g]
      /\ y.apart <=> u \in apart'[g]
  BY <1>2
<1>5. x.missed \in BOOLEAN /\ x.stray \in BOOLEAN /\ x.apart \in BOOLEAN
  BY <1>1, <1>2
<1> QED BY <1>3, <1>4, <1>5 DEF x, y

\* What is seen is well typed.
LEMMA ViewTypes ==
    ASSUME IInv, NEW g \in Guests, NEW u \in Uid
    PROVE  IsView(View(g, u))
<1> DEFINE x == View(g, u)
<1>1. Good(ed[Host]) /\ Good(ed[g])
  BY HostIsMember, SoundGood DEF IInv, Members
<1>2. x.host \in Val \cup {NoVal} /\ x.own \in Val \cup {NoVal}
  BY <1>1, CopyTracked, ViewFields
<1>3. x.up \in Seq(SentByGuests) /\ x.down \in Seq(ObjectPacket) /\ x.timer \in BOOLEAN
  BY ViewFields DEF IInv
<1>4. x.joined \in BOOLEAN /\ x.on \in BOOLEAN /\ (x.on => x.joined)
  BY ViewOn DEF Attached
<1>5. x.missed \in BOOLEAN /\ x.stray \in BOOLEAN /\ x.apart \in BOOLEAN
  BY ViewGhosts
<1> QED BY <1>2, <1>3, <1>4, <1>5 DEF IsView

\* What a step that g has no part in may do to what is seen at g.
LEMMA StayMoves ==
    ASSUME NEW g \in Guests, NEW u \in Uid,
           ed'[g] = ed[g] \/ Copy(ed'[g], u) = Copy(ed[g], u),
           up'[g] = up[g], down'[g] = down[g], timer'[g] = timer[g],
           phase'[g] = phase[g], g \in connected' <=> g \in connected,
           Copy(ed'[Host], u) = Copy(ed[Host], u),
           u \in missed'[g] <=> u \in missed[g],
           u \in strays'[g] <=> u \in strays[g],
           u \in apart'[g] <=> u \in apart[g]
    PROVE  Moves(View(g, u), View(g, u)', u)
<1> DEFINE x == View(g, u)
           y == View(g, u)'
<1>1. /\ y.own = x.own /\ y.up = x.up /\ y.down = x.down /\ y.timer = x.timer
      /\ y.host = x.host
  BY ViewFields
<1>2. Sits(x, y)
  BY ViewSits
<1>3. (x.missed <=> y.missed) /\ (x.stray <=> y.stray) /\ (x.apart <=> y.apart)
  BY ViewGhosts
<1>4. Stays(x, y, u)
  <2> HIDE DEF x, y
  <2> QED BY <1>1, <1>2, <1>3 DEF Stays
<1> QED BY <1>4, Zenon DEF Moves

\* Edits of the host's user.
LEMMA HostEditMoves ==
    ASSUME HInv, Edit(Host), NEW g \in Guests, NEW u \in Uid, Link(g)
    PROVE  Moves(View(g, u), View(g, u)', u)
<1> DEFINE x == View(g, u)
           y == View(g, u)'
<1>1. /\ phase[Host] = "editor"
      /\ phase' = phase /\ timer' = timer /\ connected' = connected
      /\ missed' = missed /\ strays' = strays
      /\ \E t, s : /\ ed' = [ed EXCEPT ![Host] = t] /\ sendPacket(Host, s)
                   /\ EditNews(Host, t, s)
  BY HostIsMember, EditTells
<1>2. PICK t, s : ed' = [ed EXCEPT ![Host] = t] /\ sendPacket(Host, s) /\ EditNews(Host, t, s)
  BY <1>1
<1>3. /\ g \in Members /\ g # Host /\ Host \in Members /\ IInv /\ Exact(ed[Host])
      /\ ed \in [Members -> EditorState] /\ down \in [Guests -> Seq(ObjectPacket)]
  BY <1>1, ConstantsAssumption DEF Members, HInv, UInv, IInv, Sound
<1>4. /\ ed'[Host] = t /\ ed'[g] = ed[g] /\ up' = up
      /\ down'[g] = IF Attached(g) THEN down[g] \o s ELSE down[g]
  BY <1>2, <1>3 DEF sendPacket, Broadcast, Attached
<1>5. CASE /\ s = <<>> /\ \A w \in Uid : Copy(t, w) = Copy(ed[Host], w)
           /\ \A h \in Guests, w \in Uid : w \in apart'[h] <=> w \in apart[h]
  <2>1. down'[g] = down[g]
    BY <1>3, <1>4, <1>5
  <2> QED BY <1>1, <1>4, <1>5, <2>1, StayMoves
<1>6. ASSUME NEW p \in ObjectPacket, s = <<p>>, p.type # "OBJECT_BATCH",
             Told(p, u, Copy(ed[Host], u), Copy(t, u)),
             Makes(p, u) => Unheard(u),
             Mentions(p, u) /\ ~Makes(p, u) => Copy(ed[Host], u) # NoVal,
             AsTold(Host, t, u, p)
      PROVE  Moves(x, y, u)
  <2>1. y.down = IF x.on THEN Append(x.down, p) ELSE x.down
    <3>1. down[g] \o s = Append(down[g], p)
      BY <1>3, <1>6
    <3>2. y.down = down'[g] /\ x.down = down[g]
      BY ViewFields
    <3> QED BY <1>4, <3>1, <3>2, ViewOn
  <2>2. /\ y.own = x.own /\ y.up = x.up /\ y.timer = x.timer
        /\ Sits(x, y)
        /\ ~x.on => x.down = <<>>
        /\ (x.missed <=> y.missed) /\ (x.stray <=> y.stray)
    <3>1. y.own = x.own /\ y.up = x.up /\ y.timer = x.timer /\ x.down = down[g]
      BY <1>1, <1>4, ViewFields
    <3>2. Sits(x, y)
      BY <1>1, ViewSits
    <3>3. ~x.on => x.down = <<>>
      BY <3>1, ViewOn DEF Link
    <3>4. (x.missed <=> y.missed) /\ (x.stray <=> y.stray)
      BY <1>1, ViewGhosts
    <3> QED BY <3>1, <3>2, <3>3, <3>4
  <2>3. Added(x.up, u) => x.host = NoVal
    <3>1. AddsNew(up[g], g, ed[Host])
      BY DEF HInv, AddsAreNew
    <3>2. Added(up[g], u) => ed[Host].synced[u] = NoObj
      BY <3>1 DEF Added, InFlight, AddsNew, Mentions
    <3> QED BY <3>2, ViewFields DEF Copy
  <2>4. Makes(p, u) => ~Says(x.up, u) /\ ~Says(x.down, u) /\ x.own = NoVal
    <3>1. Unheard(u) => ~Says(up[g], u) /\ ~Says(down[g], u) /\ ed[g].synced[u] = NoObj
      BY <1>3 DEF Unheard, Knows
    <3> QED BY <1>6, <3>1, ViewFields DEF Copy
  <2>5. /\ Told(p, u, x.host, y.host)
        /\ Mentions(p, u) /\ ~Makes(p, u) => x.host # NoVal
    BY <1>4, <1>6, ViewFields
  <2>6. IF x.on /\ p.type = "OBJECT_UPDATE" /\ Mentions(p, u)
        THEN ~y.apart => y.host = p.val
        ELSE x.apart <=> y.apart
    <3>1. IF Attached(g) /\ p.type = "OBJECT_UPDATE" /\ Mentions(p, u)
          THEN u \notin apart'[g] => Copy(t, u) = p.val
          ELSE u \in apart'[g] <=> u \in apart[g]
      BY <1>3, <1>6 DEF AsTold
    <3>2. y.host = Copy(t, u)
      BY <1>4, ViewFields
    <3>3. /\ x.on <=> Attached(g)
          /\ x.apart <=> u \in apart[g]
          /\ y.apart <=> u \in apart'[g]
      BY ViewOn, ViewGhosts
    <3> HIDE DEF x, y
    <3> QED BY <3>1, <3>2, <3>3
  <2> HIDE DEF x, y
  <2>7. HostSaysAs(x, y, u, p)
    BY <1>6, <2>1, <2>4, <2>5, <2>6 DEF HostSaysAs
  <2>8. HostSays(x, y, u)
    BY <2>2, <2>3, <2>7 DEF HostSays
  <2> QED BY <2>8, Zenon DEF Moves
<1> QED BY <1>2, <1>3, <1>5, <1>6 DEF EditNews

\* Edits of a guest's user.
LEMMA GuestEditMoves ==
    ASSUME HInv, NEW m \in Guests, Edit(m), NEW g \in Guests, NEW u \in Uid
    PROVE  Moves(View(g, u), View(g, u)', u)
<1> DEFINE x == View(g, u)
           y == View(g, u)'
<1>1. /\ g \in Members /\ m \in Members /\ m # Host /\ Host \in Members /\ IInv
      /\ ed \in [Members -> EditorState] /\ up \in [Guests -> Seq(SentByGuests)]
  BY ConstantsAssumption DEF Members, HInv, UInv, IInv, Sound
<1>2. /\ phase[m] = "editor"
      /\ phase' = phase /\ timer' = timer /\ connected' = connected
      /\ missed' = missed /\ strays' = strays
      /\ \E t, s : /\ ed' = [ed EXCEPT ![m] = t] /\ sendPacket(m, s)
                   /\ EditNews(m, t, s)
  BY <1>1, EditTells
<1>3. PICK t, s : ed' = [ed EXCEPT ![m] = t] /\ sendPacket(m, s) /\ EditNews(m, t, s)
  BY <1>2
<1>4. ed'[Host] = ed[Host] /\ ed'[m] = t /\ down' = down
      /\ up' = [up EXCEPT ![m] = @ \o s]
  BY <1>1, <1>2, <1>3 DEF sendPacket
<1>5. CASE g # m
  <2>1. ed'[g] = ed[g] /\ up'[g] = up[g]
    BY <1>1, <1>3, <1>4, <1>5
  <2>2. u \in apart'[g] <=> u \in apart[g]
    BY <1>1, <1>3, <1>5 DEF EditNews, AsTold
  <2> QED BY <1>2, <1>4, <2>1, <2>2, StayMoves
<1>6. CASE g = m
  <2>1. CASE /\ s = <<>> /\ \A w \in Uid : Copy(t, w) = Copy(ed[m], w)
             /\ \A h \in Guests, w \in Uid : w \in apart'[h] <=> w \in apart[h]
    <3>1. up'[g] = up[g]
      BY <1>1, <1>4, <1>6, <2>1
    <3> QED BY <1>2, <1>4, <1>6, <2>1, <3>1, StayMoves
  <2>2. ASSUME NEW p \in ObjectPacket, s = <<p>>, p.type # "OBJECT_BATCH",
               Told(p, u, Copy(ed[m], u), Copy(t, u)),
               Makes(p, u) => Unheard(u), AsTold(m, t, u, p)
        PROVE  Moves(x, y, u)
    <3>1. up'[g] = Append(up[g], p)
      BY <1>1, <1>4, <1>6, <2>2
    <3>2. /\ y.host = x.host /\ y.down = x.down /\ y.timer = x.timer
          /\ y.up = Append(x.up, p) /\ Told(p, u, x.own, y.own)
      <4>1. x.own = Copy(ed[m], u) /\ y.own = Copy(t, u)
        BY <1>4, <1>6, ViewFields
      <4>2. y.host = x.host /\ y.down = x.down /\ y.timer = x.timer
        BY <1>2, <1>4, ViewFields
      <4>3. x.up = up[g] /\ y.up = up'[g]
        BY ViewFields
      <4> HIDE DEF x, y
      <4> QED BY <2>2, <3>1, <4>1, <4>2, <4>3
    <3>4. Sits(x, y)
      BY <1>2, ViewSits
    <3>3. Makes(p, u) => ~Says(x.down, u)
      BY <2>2, ViewFields DEF Unheard
    <3>5. IF p.type = "OBJECT_UPDATE" /\ Mentions(p, u)
          THEN ~y.apart => y.own = NoVal \/ y.own = p.val
          ELSE x.apart <=> y.apart
      <4>1. IF p.type = "OBJECT_UPDATE" /\ Mentions(p, u)
            THEN u \notin apart'[g] => Copy(t, u) = p.val
            ELSE u \in apart'[g] <=> u \in apart[g]
        BY <1>6, <2>2 DEF AsTold
      <4>2. y.own = Copy(t, u)
        BY <1>4, <1>6, ViewFields
      <4>3. (x.apart <=> u \in apart[g]) /\ (y.apart <=> u \in apart'[g])
        BY ViewGhosts
      <4> HIDE DEF x, y
      <4> QED BY <4>1, <4>2, <4>3
    <3>6. x.joined /\ (x.missed <=> y.missed) /\ (x.stray <=> y.stray)
      <4>1. InSession(g)
        BY <1>2, <1>6 DEF InSession
      <4>2. x.joined
        BY <4>1, ViewOn
      <4>3. (x.missed <=> y.missed) /\ (x.stray <=> y.stray)
        BY <1>2, ViewGhosts
      <4> QED BY <4>2, <4>3
    <3> HIDE DEF x, y
    <3>7. GuestSaysAs(x, y, u, p)
      BY <2>2, <3>2, <3>3, <3>5 DEF GuestSaysAs
    <3>8. GuestSays(x, y, u)
      BY <3>2, <3>4, <3>6, <3>7 DEF GuestSays
    <3> QED BY <3>8, Zenon DEF Moves
  <2> QED BY <1>3, <2>1, <2>2 DEF EditNews
<1> QED BY <1>5, <1>6

\* The host starts: nobody is in the session.
LEMMA StartMoves ==
    ASSUME HInv, StartHosting, NEW g \in Guests, NEW u \in Uid, Link(g)
    PROVE  Moves(View(g, u), View(g, u)', u)
<1> DEFINE y == View(g, u)'
<1>1. /\ phase[Host] = "out" /\ phase' = [phase EXCEPT ![Host] = "editor"] /\ down' = down
      /\ g \in Members /\ g # Host /\ phase \in [Members -> Phases]
  BY ConstantsAssumption DEF StartHosting, Members, HInv, UInv, IInv
<1>2. phase'[g] = "out" /\ down'[g] = <<>>
  BY <1>1 DEF Link, Attached, InSession
<1>3. ~y.joined /\ ~y.on /\ y.down = <<>>
  BY <1>2, ViewFields
<1> QED BY <1>3, Zenon DEF IsAway, Moves

\* Joining, asking and leaving.
LEMMA ComeAndGoMoves ==
    ASSUME HInv, NEW h \in Guests, NEW g \in Guests, NEW u \in Uid, Link(g),
           Join(h) \/ EndTransition(h) \/ requestFullState(h) \/ Leave(h) \/ LoseHost(h)
    PROVE  Moves(View(g, u), View(g, u)', u)
<1> DEFINE x == View(g, u)
           y == View(g, u)'
<1>1. /\ g \in Members /\ g # Host /\ h \in Members /\ h # Host /\ Host \in Members
      /\ ed \in [Members -> EditorState] /\ up \in [Guests -> Seq(SentByGuests)]
      /\ phase \in [Members -> Phases] /\ timer \in [Guests -> BOOLEAN]
      /\ down \in [Guests -> Seq(ObjectPacket)]
  BY ConstantsAssumption DEF Members, HInv, UInv, IInv, Sound
<1>2. /\ connected' = connected /\ ed'[Host] = ed[Host]
      /\ missed' = missed /\ strays' = strays /\ apart' = apart
  BY <1>1 DEF Join, EndTransition, requestFullState, Leave, LoseHost, ghosts
<1>3. CASE g # h
  <2>1. /\ ed'[g] = ed[g] /\ up'[g] = up[g] /\ down'[g] = down[g] /\ timer'[g] = timer[g]
        /\ phase'[g] = phase[g]
    BY <1>1, <1>3 DEF Join, EndTransition, requestFullState, Leave, LoseHost
  <2> QED BY <1>2, <2>1, StayMoves
<1>4. CASE g = h /\ Join(h)
  <2> DEFINE c == [type |-> "CONNECT"]
  <2>1. phase[g] = "out" /\ up'[g] = <<c>> /\ down' = down /\ ed' = ed
    BY <1>1, <1>4 DEF Join
  <2>2. g \notin connected /\ down[g] = <<>>
    BY <2>1 DEF Link, Attached
  <2>3. c \in ControlPacket
    BY DEF ControlPacket
  <2>4. ~y.on /\ y.down = <<>> /\ y.up = <<c>>
    BY <1>2, <2>1, <2>2, ViewFields
  <2>5. y.own = NoVal
    BY <2>1, ViewFields DEF Link, Bare
  <2> QED BY <2>3, <2>4, <2>5, Zenon DEF Comes, Moves
<1>5. CASE g = h /\ EndTransition(h)
  <2>1. /\ ed' = ed /\ up' = up /\ down' = down /\ timer' = timer
        /\ phase[g] = "transition" /\ phase'[g] = "editor"
    BY <1>1, <1>5 DEF EndTransition
  <2>2. /\ y.own = x.own /\ y.up = x.up /\ y.down = x.down /\ y.timer = x.timer
        /\ y.host = x.host
    BY <2>1, ViewFields
  <2>3. y.joined = x.joined /\ y.on = x.on
    <3>1. (phase'[g] \in {"transition", "editor"}) = TRUE /\ InSession(g) = TRUE
      BY <2>1 DEF InSession
    <3>2. y.joined = TRUE /\ x.joined = TRUE
      BY <3>1, ViewFields
    <3>3. y.on = (g \in connected) /\ x.on = (g \in connected)
      BY <1>2, <3>1, ViewFields
    <3> QED BY <3>2, <3>3
  <2>4. (x.missed <=> y.missed) /\ (x.stray <=> y.stray) /\ (x.apart <=> y.apart)
    BY <1>2, ViewGhosts
  <2>5. Stays(x, y, u)
    <3> HIDE DEF x, y
    <3> QED BY <2>2, <2>3, <2>4 DEF Stays, Sits
  <2> QED BY <2>5, Zenon DEF Moves
<1>6. CASE g = h /\ requestFullState(h)
  <2> DEFINE c == [type |-> "REQUEST_FULL_STATE"]
  <2>1. /\ ed' = ed /\ phase' = phase /\ down' = down /\ up'[g] = Append(up[g], c)
    BY <1>1, <1>6 DEF requestFullState
  <2>2. c \in ControlPacket /\ c.type = "REQUEST_FULL_STATE" /\ c \in SentByGuests
    BY DEF ControlPacket, SentByGuests
  <2>3. Sits(x, y)
    BY <1>2, <2>1, ViewSits
  <2>4. /\ y.host = x.host /\ y.own = x.own /\ y.down = x.down /\ x.up = up[g] /\ y.up = up'[g]
    BY <2>1, ViewFields
  <2> HIDE DEF c
  <2>5. Coming(Append(up[g], c))
    BY <1>1, <2>2, ComingQueues
  <2>6. SameGhosts(x, y)
    BY <1>2, ViewGhosts DEF SameGhosts
  <2>7. Asks(x, y)
    <3> HIDE DEF x, y
    <3> QED BY <2>1, <2>2, <2>3, <2>4, <2>5, <2>6 DEF Asks
  <2> QED BY <2>7, Zenon DEF Moves
<1>7. CASE g = h /\ (Leave(h) \/ LoseHost(h))
  <2>1. phase'[g] = "gone" /\ down'[g] = <<>>
    BY <1>1, <1>7 DEF Leave, LoseHost
  <2>2. ~y.joined /\ ~y.on /\ y.down = <<>>
    BY <2>1, ViewFields
  <2> QED BY <2>2, Zenon DEF IsAway, Moves
<1> QED BY <1>3, <1>4, <1>5, <1>6, <1>7

\* The host polls a CONNECT or a REQUEST_FULL_STATE.
LEMMA AnswerMoves ==
    ASSUME HInv, GhostTypes, NEW h \in Guests, NEW g \in Guests, NEW u \in Uid, Link(g),
           PollConnect(h) \/ PollRequest(h)
    PROVE  Moves(View(g, u), View(g, u)', u)
<1> DEFINE x == View(g, u)
           y == View(g, u)'
           e == ed[Host]
<1>1. /\ g \in Members /\ g # Host /\ Host \in Members /\ IInv
      /\ ed \in [Members -> EditorState] /\ up \in [Guests -> Seq(SentByGuests)]
      /\ down \in [Guests -> Seq(ObjectPacket)]
  BY ConstantsAssumption DEF Members, HInv, UInv, IInv, Sound
<1>2. /\ phase' = phase /\ timer' = timer /\ up[h] # <<>> /\ AnswerWithFullState(h)
      /\ phase[Host] = "editor" /\ Head(up[h]).type \in {"CONNECT", "REQUEST_FULL_STATE"}
      /\ connected' = connected \/ connected' = connected \cup {h}
      /\ Head(up[h]).type # "CONNECT" => connected' = connected
      /\ Head(up[h]).type = "CONNECT" => h \in connected'
  BY DEF PollConnect, PollRequest, Polls
<1>3. Good(e) /\ Exact(e)
  BY <1>1, <1>2, SoundGood DEF HInv, UInv, IInv
<1>4. PICK r \in sendFullState(e) :
        /\ ed' = [ed EXCEPT ![Host] = r.ed]
        /\ up' = [up EXCEPT ![h] = Tail(@)]
        /\ down' = IF InSession(h) THEN [down EXCEPT ![h] = @ \o r.out] ELSE down
        /\ apart' = [apart EXCEPT ![h] = @ \ Tracked(r.ed)]
        /\ missed' = missed /\ strays' = strays
  BY <1>2 DEF AnswerWithFullState
<1>5. Copy(r.ed, u) = Copy(e, u) /\ Full(r.out, u, Copy(e, u))
  <2> HIDE DEF e
  <2> QED BY <1>3, FullStateCopies
<1>6. Copy(ed'[Host], u) = Copy(ed[Host], u) /\ ed'[g] = ed[g]
  BY <1>1, <1>4, <1>5
<1>a. apart \in [Guests -> SUBSET Uid]
  BY DEF GhostTypes
<1>b. Good(r.ed)
  <2> HIDE DEF e
  <2> QED BY <1>1, <1>3, <1>4, FullStateGood
<1>7. CASE g # h
  <2>1. up'[g] = up[g] /\ down'[g] = down[g] /\ (g \in connected' <=> g \in connected)
    BY <1>1, <1>2, <1>4, <1>7
  <2>2. u \in apart'[g] <=> u \in apart[g]
    BY <1>a, <1>4, <1>7
  <2> QED BY <1>2, <1>4, <1>6, <2>1, <2>2, StayMoves
<1>8. CASE g = h /\ ~InSession(g)
  <2>1. ~Attached(g) /\ down'[g] = <<>>
    BY <1>4, <1>8 DEF Attached, Link
  <2>2. phase'[g] \notin {"transition", "editor"}
    BY <1>2, <1>8 DEF InSession
  <2>3. ~y.joined /\ ~y.on /\ y.down = <<>>
    BY <2>1, <2>2, ViewFields
  <2> QED BY <2>3, Zenon DEF IsAway, Moves
<1>9. CASE g = h /\ InSession(g)
  <2>1. g \in connected' /\ phase'[g] \in {"transition", "editor"}
    BY <1>2, <1>9 DEF Link, InSession
  <2>2. up'[g] = Tail(up[g]) /\ down'[g] = down[g] \o r.out /\ up[g] # <<>>
    BY <1>1, <1>2, <1>4, <1>9
  <2>3. /\ y.host = x.host /\ y.own = x.own /\ y.timer = x.timer
        /\ x.host = Copy(e, u) /\ x.up = up[g] /\ x.down = down[g]
        /\ y.up = up'[g] /\ y.down = down'[g]
    BY <1>2, <1>6, ViewFields
  <2>4. x.joined /\ y.joined /\ y.on
    BY <1>9, <2>1, ViewFields
  <2>5. (x.missed <=> y.missed) /\ (x.stray <=> y.stray)
    BY <1>4, ViewGhosts
  <2>6. ~y.apart => ~x.apart \/ x.host # NoVal
    <3>1. u \in apart[g] /\ u \notin apart'[g] => u \in Tracked(r.ed)
      BY <1>a, <1>4, <1>9
    <3>2. u \in Tracked(r.ed) => Copy(r.ed, u) # NoVal
      BY <1>b, CopyTracked
    <3> QED BY <1>5, <2>3, <3>1, <3>2, ViewGhosts
  <2>7. ~Mentions(Head(up[g]), u)
    BY <1>2, <1>9 DEF Mentions
  <2>8. GetsState(x, y, u)
    <3> HIDE DEF x, y, e
    <3> QED BY <1>5, <2>2, <2>3, <2>4, <2>5, <2>6, <2>7 DEF GetsState
  <2> QED BY <2>8, Zenon DEF Moves
<1> QED BY <1>7, <1>8, <1>9

\* The host polls a guest's packet.
LEMMA HostReceivesMoves ==
    ASSUME HInv, GhostTypes, NEW h \in Guests, NEW g \in Guests, NEW u \in Uid, Link(g),
           Added(up[h], u) => ~Says(down[g], u), HostReceives(h)
    PROVE  Moves(View(g, u), View(g, u)', u)
<1> DEFINE x == View(g, u)
           y == View(g, u)'
           p == Head(up[h])
<1>1. /\ g \in Members /\ g # Host /\ h \in Members /\ h # Host /\ Host \in Members /\ IInv
      /\ ed \in [Members -> EditorState] /\ up \in [Guests -> Seq(SentByGuests)]
  BY ConstantsAssumption DEF Members, HInv, UInv, IInv, Sound
<1>2. /\ phase' = phase /\ timer' = timer /\ connected' = connected /\ up[h] # <<>>
      /\ p.type \in {"OBJECT_ADD", "OBJECT_DELETE", "OBJECT_UPDATE"}
      /\ up' = [up EXCEPT ![h] = Tail(@)]
      /\ \E r \in handlePacket(ed[Host], Host, h, p) : ed' = [ed EXCEPT ![Host] = r.ed]
  BY DEF HostReceives
<1>3. PICK r \in handlePacket(ed[Host], Host, h, p) : ed' = [ed EXCEPT ![Host] = r.ed]
  BY <1>2
<1>4. p \in ObjectPacket
  BY <1>1, <1>2, HeadOfUp
<1>5. ed'[Host] = r.ed /\ ed'[g] = ed[g] /\ down' = down
  BY <1>1, <1>3, HostReceivesSilent
<1>6. Heard(p, u, Copy(ed[Host], u), Copy(ed'[Host], u))
  <2>1. Good(ed[Host])
    BY <1>1, SoundGood DEF IInv
  <2> HIDE DEF p
  <2> QED BY <1>1, <1>3, <1>4, <1>5, <2>1, HandlerCopies
<1>7. 1 \in DOMAIN up[h] /\ up[h][1] = p
  BY <1>1, <1>2
<1>8. /\ p.type \notin {"CONNECT", "REQUEST_FULL_STATE", "DISCONNECT", "OBJECT_BATCH"}
      /\ p.type \in {"OBJECT_ADD", "OBJECT_UPDATE"} => p.val \in Val /\ p.val # NoVal
      /\ u \in About(p) <=> Mentions(p, u)
      /\ Makes(p, u) <=> Adds(p, u)
      /\ Adds(p, u) => Added(up[h], u)
  <2>1. p.type \in {"OBJECT_ADD", "OBJECT_UPDATE"} => p.val \in Val /\ p.val # NoVal
    <3> HIDE DEF p
    <3> QED BY <1>4, PacketValues
  <2>2. Makes(p, u) <=> Adds(p, u)
    BY <1>2 DEF Makes, Adds, MadeBy
  <2>3. Adds(p, u) => Added(up[h], u)
    BY <1>7 DEF Adds, Added, InFlight
  <2> QED BY <1>2, <2>1, <2>2, <2>3 DEF About
<1>a. /\ u \in missed'[g] <=> u \in missed[g] \/ (g # h /\ Makes(p, u))
      /\ u \in strays[g] => u \in strays'[g]
      /\ u \in apart'[g] <=> u \in apart[g] \/ (Mentions(p, u) /\ (g # h \/ Says(down[g], u)))
  <2>1. Forwards(h, p)
    BY DEF HostReceives
  <2> HIDE DEF p
  <2> QED BY <1>8, <2>1 DEF Forwards, Makes
<1>b. ASSUME /\ Copy(ed'[Host], u) = NoVal /\ (Copy(ed[Host], u) # NoVal \/ Makes(p, u))
             /\ Copy(ed[g], u) # NoVal \/ Made(down[g], u)
      PROVE  u \in strays'[g]
  <2>1. Forwards(h, p)
    BY DEF HostReceives
  <2>2. Good(ed[Host]) /\ Good(ed[g]) /\ Good(ed'[Host])
    <3>1. Sound(ed)'
      BY <1>1, HostReceivesSilent
    <3> QED BY <1>1, <3>1, SoundGood DEF IInv, Sound, Good
  <2>3. /\ u \notin Tracked(ed'[Host])
        /\ Copy(ed[Host], u) # NoVal => u \in Tracked(ed[Host])
        /\ Copy(ed[g], u) # NoVal => u \in Tracked(ed[g])
    BY <1>b, <2>2, CopyTracked
  <2> HIDE DEF p
  <2>4. /\ Mentions(p, u) /\ (isCut(p) \/ p.type = "OBJECT_DELETE")
        /\ u \in Tracked(ed[Host]) \/ p.type \in MadeBy
    <3>1. Mentions(p, u)
      BY <1>b, <1>6 DEF Heard, Makes
    <3>2. p.type \in {"OBJECT_ADD", "OBJECT_UPDATE"} => isCut(p)
      BY <1>b, <1>6, <1>8, <3>1 DEF Heard, isCut, Makes, MadeBy
    <3>3. u \in Tracked(ed[Host]) \/ p.type \in MadeBy
      BY <1>b, <2>3 DEF Makes
    <3> QED BY <1>2, <3>1, <3>2, <3>3
  <2>5. u \in Tracked(ed[g]) \/ InFlight(down[g], u, MadeBy)
    BY <1>b, <2>3 DEF Made
  <2> QED BY <1>8, <2>1, <2>3, <2>4, <2>5 DEF Forwards
<1>c. /\ y.own = x.own /\ y.down = x.down /\ y.timer = x.timer /\ x.down = down[g]
      /\ x.own = Copy(ed[g], u) /\ x.host = Copy(ed[Host], u) /\ y.host = Copy(ed'[Host], u)
      /\ x.up = up[g] /\ y.up = up'[g]
  BY <1>2, <1>5, ViewFields
<1>d. Sits(x, y)
  BY <1>2, ViewSits
<1>e. /\ (x.missed <=> u \in missed[g]) /\ (y.missed <=> u \in missed'[g])
      /\ (x.stray <=> u \in strays[g]) /\ (y.stray <=> u \in strays'[g])
      /\ (x.apart <=> u \in apart[g]) /\ (y.apart <=> u \in apart'[g])
  BY ViewGhosts
<1>9. CASE g # h
  <2>1. y.up = x.up
    BY <1>1, <1>2, <1>9, <1>c
  <2> HIDE DEF x, y, p
  <2>2. /\ (x.missed => y.missed) /\ (x.stray => y.stray) /\ (x.apart => y.apart)
        /\ Mentions(p, u) => y.apart
        /\ Makes(p, u) => y.missed
    BY <1>9, <1>a, <1>e
  <2>3. /\ y.host # x.host => Mentions(p, u)
        /\ x.host = NoVal /\ y.host # NoVal => Makes(p, u)
    BY <1>2, <1>6, <1>8, <1>c DEF Heard, Adds
  <2>4. Makes(p, u) => ~Says(x.down, u)
    BY <1>8, <1>c
  <2>5. x.host # NoVal /\ y.host = NoVal /\ (x.own # NoVal \/ Made(x.down, u)) => y.stray
    BY <1>b, <1>c, <1>e
  <2>6. Stays(x, y, u)
    BY <1>c, <1>d, <2>1, <2>2, <2>3, <2>4, <2>5 DEF Stays
  <2>m. Moves(x, y, u)
    BY <2>6, Zenon DEF Moves
  <2> QED BY <2>m DEF x, y
<1>10. CASE g = h
  <2>1. up'[g] = Tail(up[g]) /\ up[g] # <<>>
    BY <1>1, <1>2, <1>10
  <2>2. Makes(p, u) => x.host = NoVal
    <3>1. AddsNew(up[h], h, ed[Host])
      BY DEF HInv, AddsAreNew
    <3>2. p.type = "OBJECT_ADD" => ed[Host].synced[p.uid] = NoObj
      BY <1>7, <3>1 DEF AddsNew
    <3>3. Makes(p, u) => ed[Host].synced[u] = NoObj
      BY <1>2, <1>8, <3>2 DEF Adds, Mentions
    <3> QED BY <1>c, <3>3 DEF Copy
  <2>3. x.joined => x.on
    <3>1. InSession(g) => Attached(g)
      BY <1>8, <1>10 DEF Link, Attached
    <3> QED BY <3>1, ViewOn
  <2> HIDE DEF x, y
  <2>4. /\ (x.missed <=> y.missed) /\ (x.stray => y.stray)
        /\ y.apart <=> x.apart \/ (Mentions(p, u) /\ Says(x.down, u))
    BY <1>10, <1>a, <1>c, <1>e
  <2>5. /\ y.host = NoVal /\ (x.host # NoVal \/ Makes(p, u))
        /\ x.own # NoVal \/ Made(x.down, u)
        => y.stray
    BY <1>b, <1>c, <1>e
  <2>6. /\ p = Head(x.up) /\ p \in ObjectPacket /\ p.type # "OBJECT_BATCH"
        /\ Heard(p, u, x.host, y.host) /\ x.up # <<>> /\ y.up = Tail(x.up)
    BY <1>4, <1>6, <1>8, <1>10, <1>c, <2>1
  <2> HIDE DEF p
  <2>7. HostGets(x, y, u)
    BY <1>c, <1>d, <2>2, <2>3, <2>4, <2>5, <2>6 DEF HostGets
  <2>m. Moves(x, y, u)
    BY <2>7, Zenon DEF Moves
  <2> QED BY <2>m DEF x, y
<1> QED BY <1>9, <1>10

\* A guest polls the host's packet, in its editor or before.
LEMMA GuestReceivesMoves ==
    ASSUME HInv, GhostTypes, NEW h \in Guests, NEW g \in Guests, NEW u \in Uid, Link(g),
           GuestReceives(h) \/ GuestDrops(h)
    PROVE  Moves(View(g, u), View(g, u)', u)
<1> DEFINE x == View(g, u)
           y == View(g, u)'
           p == Head(down[g])
<1>1. /\ g \in Members /\ g # Host /\ h \in Members /\ h # Host /\ Host \in Members /\ IInv
      /\ ed \in [Members -> EditorState] /\ down \in [Guests -> Seq(ObjectPacket)]
  BY ConstantsAssumption DEF Members, HInv, UInv, IInv, Sound
<1>2. /\ phase' = phase /\ timer' = timer /\ connected' = connected /\ up' = up
      /\ down[h] # <<>> /\ down' = [down EXCEPT ![h] = Tail(@)]
      /\ \E t : ed' = [ed EXCEPT ![h] = t] \/ ed' = ed
      /\ Handled(h, Head(down[h])) \/ Dropped(h, Head(down[h]))
  BY <1>1, GuestReceivesSilent DEF GuestReceives, GuestDrops
<1>3. ed'[Host] = ed[Host]
  BY <1>1, <1>2
<1>4. CASE g # h
  <2>1. ed'[g] = ed[g] /\ down'[g] = down[g]
    BY <1>1, <1>2, <1>4
  <2>2. missed'[g] = missed[g] /\ strays'[g] = strays[g] /\ apart'[g] = apart[g]
    BY <1>2, <1>4 DEF Handled, Dropped, GhostTypes
  <2> QED BY <1>2, <1>3, <2>1, <2>2, StayMoves
<1>5. CASE g = h
  <2>1. /\ y.host = x.host /\ y.up = x.up /\ y.timer = x.timer
        /\ x.down = down[g] /\ y.down = down'[g]
        /\ x.own = Copy(ed[g], u) /\ y.own = Copy(ed'[g], u) /\ x.timer = timer[g]
    BY <1>2, <1>3, ViewFields
  <2>2. Sits(x, y)
    BY <1>2, ViewSits
  <2>3. down[g] # <<>> /\ down'[g] = Tail(down[g])
    BY <1>1, <1>2, <1>5
  <2>4. x.on
    BY <2>3, ViewOn DEF Link
  <2>5. /\ p \in ObjectPacket /\ Good(ed[g]) /\ (u \in About(p) <=> Mentions(p, u))
        /\ missed \in [Guests -> SUBSET Uid] /\ apart \in [Guests -> SUBSET Uid]
    BY <1>1, <2>3, SoundGood DEF IInv, About, GhostTypes
  <2>6. /\ (x.missed <=> u \in missed[g]) /\ (y.missed <=> u \in missed'[g])
        /\ (x.stray <=> u \in strays[g]) /\ (y.stray <=> u \in strays'[g])
        /\ (x.apart <=> u \in apart[g]) /\ (y.apart <=> u \in apart'[g])
    BY ViewGhosts
  <2>7. CASE GuestReceives(h)
    <3>1. PICK r \in handlePacket(ed[g], g, Host, p) : ed' = [ed EXCEPT ![g] = r.ed]
      BY <1>5, <2>7 DEF GuestReceives
    <3>2. ed'[g] = r.ed /\ Good(ed'[g]) /\ Handled(g, p)
      <4>1. Sound(ed)' /\ Handled(g, p)
        BY <1>1, <1>5, <2>7, GuestReceivesSilent DEF GuestReceives
      <4> QED BY <1>1, <3>1, <4>1 DEF Sound, Good
    <3> HIDE DEF p
    <3>3. Heard(p, u, Copy(ed[g], u), Copy(ed'[g], u))
      BY <1>1, <2>5, <3>1, <3>2, HandlerCopies
    <3>4. /\ u \in Tracked(ed[g]) <=> Copy(ed[g], u) # NoVal
          /\ u \in Tracked(ed'[g]) <=> Copy(ed'[g], u) # NoVal
      BY <2>5, <3>2, CopyTracked
    <3>5. /\ u \in missed'[g] <=>
                \/ u \in missed[g] /\ ~Makes(p, u)
                \/ /\ Mentions(p, u) /\ isCut(p) /\ (Makes(p, u) \/ Copy(ed[g], u) # NoVal)
                   /\ Copy(ed'[g], u) = NoVal
          /\ u \in apart'[g] <=> u \in apart[g] \/ (Mentions(p, u) /\ Says(up[g], u))
          /\ strays' = strays
      <4>1. u \in missed'[g] <=>
                \/ u \in missed[g] /\ ~Makes(p, u)
                \/ /\ Mentions(p, u) /\ isCut(p) /\ (Makes(p, u) \/ u \in Tracked(ed[g]))
                   /\ u \notin Tracked(ed'[g])
        BY <2>5, <3>2 DEF Handled, Makes
      <4>2. u \in apart'[g] <=> u \in apart[g] \/ (Mentions(p, u) /\ Says(up[g], u))
        BY <2>5, <3>2 DEF Handled
      <4>3. strays' = strays
        BY <3>2 DEF Handled
      <4> QED BY <3>4, <4>1, <4>2, <4>3
    <3>6. Makes(p, u) /\ ~isCut(p) => Copy(ed'[g], u) # NoVal
      BY <2>5, <3>3, PacketValues DEF Heard, Makes, MadeBy, isCut
    <3>7. x.up = up[g]
      BY ViewFields
    <3> HIDE DEF x, y
    <3>8. GuestHandles(x, y, u, p)
      BY <2>1, <2>6, <3>3, <3>5, <3>6, <3>7 DEF GuestHandles, Makes
    <3>9. GuestGets(x, y, u)
      BY <2>1, <2>2, <2>3, <2>4, <2>6, <3>5, <3>8 DEF GuestGets, p
    <3>m. Moves(x, y, u)
      BY <3>9, Zenon DEF Moves
    <3> QED BY <3>m DEF x, y
  <2>8. CASE GuestDrops(h)
    <3>1. phase[g] = "transition" /\ ed' = ed /\ Dropped(g, p)
      BY <1>5, <2>8 DEF GuestDrops
    <3> HIDE DEF p
    <3>2. Copy(ed[g], u) = NoVal
      BY <3>1 DEF Link, Bare
    <3>3. x.own = NoVal /\ y.own = NoVal
      BY <2>1, <3>1, <3>2
    <3>4. /\ u \in missed'[g] <=> u \in missed[g] \/ Makes(p, u)
          /\ strays' = strays /\ apart' = apart
      BY <2>5, <3>1 DEF Dropped, Makes
    <3> HIDE DEF x, y
    <3>5. GuestDropsIt(x, y, u, p)
      BY <2>6, <3>3, <3>4 DEF GuestDropsIt
    <3>6. GuestGets(x, y, u)
      BY <2>1, <2>2, <2>3, <2>4, <2>6, <3>4, <3>5 DEF GuestGets, p
    <3>m. Moves(x, y, u)
      BY <3>6, Zenon DEF Moves
    <3> QED BY <3>m DEF x, y
  <2> QED BY <1>5, <2>7, <2>8
<1> QED BY <1>4, <1>5

\* The host polls the end of a guest.
LEMMA DisconnectMoves ==
    ASSUME HInv, NEW h \in Guests, NEW g \in Guests, NEW u \in Uid, Link(g), PollDisconnect(h)
    PROVE  Moves(View(g, u), View(g, u)', u)
<1> DEFINE y == View(g, u)'
<1>1. up \in [Guests -> Seq(SentByGuests)]
  BY DEF HInv, UInv, IInv
<1>2. /\ phase' = phase /\ timer' = timer /\ ed' = ed /\ down' = down
      /\ up[h] # <<>> /\ Head(up[h]).type = "DISCONNECT"
      /\ up' = [up EXCEPT ![h] = Tail(@)] /\ connected' = connected \ {h}
      /\ missed' = missed /\ strays' = strays /\ apart' = apart
  BY DEF PollDisconnect, Polls, ghosts
<1>3. CASE g # h
  <2>1. up'[g] = up[g] /\ (g \in connected' <=> g \in connected)
    BY <1>1, <1>2, <1>3
  <2> QED BY <1>2, <2>1, StayMoves
<1>4. CASE g = h
  <2>1. 1 \in DOMAIN up[g] /\ up[g][1].type = "DISCONNECT"
    BY <1>1, <1>2, <1>4
  <2>2. ~InSession(g) /\ down[g] = <<>>
    BY <2>1 DEF Link, Attached
  <2>3. phase'[g] \notin {"transition", "editor"}
    BY <1>2, <2>2 DEF InSession
  <2>4. ~y.joined /\ ~y.on /\ y.down = <<>>
    BY <1>2, <2>2, <2>3, ViewFields
  <2> QED BY <2>4, Zenon DEF IsAway, Moves
<1> QED BY <1>3, <1>4

\* No OBJECT_ADD of a guest is on its way of a UID the host has sent to a guest.
AddsUnsaid ==
    \A h \in Guests, g \in Guests, u \in Uid : Added(up[h], u) => ~Says(down[g], u)

\* Whatever step is taken, what is seen of u at g moves.
LEMMA StepMoves ==
    ASSUME HInv, GhostTypes, AddsUnsaid, [Next]_vars, \A h \in Guests : Link(h),
           NEW g \in Guests, NEW u \in Uid
    PROVE  Moves(View(g, u), View(g, u)', u)
<1>1. CASE StartHosting
  BY <1>1, StartMoves
<1>2. ASSUME NEW h \in Guests, Session(h) PROVE Moves(View(g, u), View(g, u)', u)
  <2>1. CASE Join(h) \/ EndTransition(h) \/ requestFullState(h) \/ Leave(h) \/ LoseHost(h)
    BY <2>1, ComeAndGoMoves
  <2>2. CASE PollConnect(h) \/ PollRequest(h)
    BY <2>2, AnswerMoves
  <2>3. CASE PollDisconnect(h)
    BY <2>3, DisconnectMoves
  <2>4. CASE HostReceives(h)
    BY <2>4, HostReceivesMoves DEF AddsUnsaid
  <2>5. CASE GuestReceives(h) \/ GuestDrops(h)
    BY <2>5, GuestReceivesMoves
  <2> QED BY <1>2, <2>1, <2>2, <2>3, <2>4, <2>5 DEF Session, Poll
<1>3. ASSUME NEW m \in Members, Edit(m) PROVE Moves(View(g, u), View(g, u)', u)
  BY <1>3, HostEditMoves, GuestEditMoves DEF Members
<1>4. CASE UNCHANGED vars
  BY <1>4, StayMoves DEF vars, ghosts
<1> QED BY <1>1, <1>2, <1>3, <1>4 DEF Next

-----------------------------------------------------------------------------
(* What a guest adds, no guest has been told of by the host                *)

\* A UID of an OBJECT_ADD on its way is not the host's, and not unheard of.
LEMMA AddedIsNew ==
    ASSUME HInv, NEW h \in Guests, NEW u \in Uid, Added(up[h], u)
    PROVE  Copy(ed[Host], u) = NoVal /\ ~Unheard(u)
<1>1. AddsNew(up[h], h, ed[Host])
  BY DEF HInv, AddsAreNew
<1>2. ed[Host].synced[u] = NoObj
  BY <1>1 DEF Added, InFlight, AddsNew, Mentions
<1>3. Says(up[h], u)
  BY FlightSays
<1> QED BY <1>2, <1>3 DEF Copy, Unheard

\* An edit makes a UID that is new, or tells of one that is the host's or g's.
LEMMA EditUnsaid ==
    ASSUME HInv, AddsUnsaid, NEW m \in Members, Edit(m)
    PROVE  AddsUnsaid'
<1>1. /\ phase[m] = "editor"
      /\ \E t, s : /\ ed' = [ed EXCEPT ![m] = t] /\ sendPacket(m, s)
                   /\ EditNews(m, t, s)
  BY EditTells
<1>2. PICK t, s : ed' = [ed EXCEPT ![m] = t] /\ sendPacket(m, s) /\ EditNews(m, t, s)
  BY <1>1
<1>3. /\ up \in [Guests -> Seq(SentByGuests)] /\ down \in [Guests -> Seq(ObjectPacket)]
      /\ ObjectPacket \subseteq SentByGuests
  BY DEF HInv, UInv, IInv, SentByGuests
<1> SUFFICES ASSUME NEW h \in Guests, NEW g \in Guests, NEW u \in Uid, Added(up'[h], u)
             PROVE  ~Says(down'[g], u)
  BY DEF AddsUnsaid, Added, Says, InFlight
<1>4. up[h] \in Seq(SentByGuests) /\ down[g] \in Seq(SentByGuests)
  BY <1>3
<1>5. CASE s = <<>>
  <2>1. up'[h] = up[h] /\ down'[g] = down[g]
    <3>1. up[h] \o s = up[h] /\ down[g] \o s = down[g]
      BY <1>4, <1>5
    <3> QED BY <1>2, <1>3, <3>1 DEF sendPacket, Broadcast
  <2> QED BY <2>1 DEF AddsUnsaid
<1>6. ASSUME NEW p \in ObjectPacket, s = <<p>>,
             Makes(p, u) => Unheard(u),
             Exact(ed[m]) /\ Mentions(p, u) /\ ~Makes(p, u) => Copy(ed[m], u) # NoVal
      PROVE  ~Says(down'[g], u)
  <2>1. p \in SentByGuests /\ up[h] \o s = Append(up[h], p) /\ down[g] \o s = Append(down[g], p)
    BY <1>3, <1>4, <1>6
  <2>2. CASE m = Host
    <3>1. up' = up /\ (down'[g] = down[g] \/ down'[g] = Append(down[g], p))
      BY <1>2, <2>1, <2>2 DEF sendPacket, Broadcast
    <3>2. Exact(ed[Host])
      BY <1>1, <2>2 DEF HInv
    <3>3. ~Mentions(p, u)
      BY <1>6, <2>2, <3>1, <3>2, AddedIsNew
    <3>4. ~Says(down[g], u)
      BY <3>1 DEF AddsUnsaid
    <3> QED BY <1>4, <2>1, <3>1, <3>3, <3>4, MorePackets
  <2>3. CASE m # Host
    <3>1. down' = down /\ (up'[h] = up[h] \/ up'[h] = Append(up[h], p))
      BY <1>2, <1>3, <2>1, <2>3 DEF sendPacket
    <3>2. Added(up[h], u) \/ Adds(p, u)
      BY <1>4, <2>1, <3>1, MoreNews
    <3>3. Adds(p, u) => Makes(p, u)
      BY DEF Adds, Makes, MadeBy
    <3>4. Unheard(u) => ~Says(down[g], u)
      BY DEF Unheard
    <3> QED BY <1>6, <3>1, <3>2, <3>3, <3>4 DEF AddsUnsaid
  <2> QED BY <2>2, <2>3
<1> QED BY <1>2, <1>5, <1>6 DEF EditNews

\* A full state tells of what the host has; nothing else adds to the queues.
LEMMA SessionUnsaid ==
    ASSUME HInv, AddsUnsaid, NEW j \in Guests, Session(j)
    PROVE  AddsUnsaid'
<1>1. /\ up \in [Guests -> Seq(SentByGuests)] /\ down \in [Guests -> Seq(ObjectPacket)]
      /\ ObjectPacket \subseteq SentByGuests /\ ControlPacket \subseteq SentByGuests /\ IInv
  BY DEF HInv, UInv, IInv, SentByGuests
<1> SUFFICES ASSUME NEW h \in Guests, NEW g \in Guests, NEW u \in Uid, Added(up'[h], u)
             PROVE  ~Says(down'[g], u)
  BY DEF AddsUnsaid, Added, Says, InFlight
<1>2. up[h] \in Seq(SentByGuests) /\ down[g] \in Seq(SentByGuests)
  BY <1>1
<1>3. Added(up[h], u) => ~Says(down[g], u)
  BY DEF AddsUnsaid
<1>4. up[h] # <<>> => (Added(Tail(up[h]), u) => Added(up[h], u))
  BY <1>2, FewerNews
<1>5. down[g] # <<>> => (~Says(down[g], u) => ~Says(Tail(down[g]), u))
  BY <1>2, QueuesSay
<1>6. CASE Join(j)
  <2>1. down' = down /\ up' = [up EXCEPT ![j] = <<[type |-> "CONNECT"]>>]
    BY <1>6 DEF Join
  <2>2. ~Added(<<[type |-> "CONNECT"]>>, u)
    BY DEF Added, InFlight
  <2> QED BY <1>1, <1>3, <2>1, <2>2
<1>7. CASE EndTransition(j)
  BY <1>3, <1>7 DEF EndTransition
<1>8. CASE requestFullState(j)
  <2> DEFINE c == [type |-> "REQUEST_FULL_STATE"]
  <2>1. c \in SentByGuests /\ ~Adds(c, u)
    BY <1>1 DEF ControlPacket, Adds
  <2>2. down' = down /\ up' = [up EXCEPT ![j] = Append(@, c)]
    BY <1>8 DEF requestFullState
  <2> HIDE DEF c
  <2>3. up'[h] = up[h] \/ up'[h] = Append(up[h], c)
    BY <1>1, <2>2
  <2>4. Added(up[h], u)
    BY <1>2, <2>1, <2>3, MoreNews
  <2> QED BY <1>3, <2>2, <2>4
<1>9. CASE Leave(j) \/ LoseHost(j)
  <2>1. PICK n \in 0 .. Len(up[j]) :
           up' = [up EXCEPT ![j] = Append(SubSeq(@, 1, n), [type |-> "DISCONNECT"])]
    BY <1>9 DEF Leave, LoseHost
  <2>2. down'[g] = down[g] \/ down'[g] = <<>>
    BY <1>1, <1>9 DEF Leave, LoseHost
  <2>3. up[j] \in Seq(SentByGuests)
    BY <1>1
  <2>4. ASSUME Added(Append(SubSeq(up[j], 1, n), [type |-> "DISCONNECT"]), u)
        PROVE  Added(up[j], u)
    <3> DEFINE q == Append(SubSeq(up[j], 1, n), [type |-> "DISCONNECT"])
    <3>1. \A i \in DOMAIN q : \/ q[i] = [type |-> "DISCONNECT"]
                              \/ i \in DOMAIN up[j] /\ q[i] = up[j][i]
      BY <2>3
    <3>2. PICK i \in DOMAIN q : q[i].type = "OBJECT_ADD" /\ Mentions(q[i], u)
      BY <2>4 DEF Added, InFlight
    <3> HIDE DEF q
    <3> QED BY <3>1, <3>2 DEF Added, InFlight
  <2>5. Added(up[h], u)
    BY <1>1, <2>1, <2>4
  <2> QED BY <1>3, <2>2, <2>5, NothingSaid
<1>10. CASE PollConnect(j) \/ PollRequest(j)
  <2>1. phase[Host] = "editor" /\ up[j] # <<>> /\ AnswerWithFullState(j)
    BY <1>10 DEF PollConnect, PollRequest, Polls
  <2>2. PICK r \in sendFullState(ed[Host]) :
          /\ up' = [up EXCEPT ![j] = Tail(@)]
          /\ down' = IF InSession(j) THEN [down EXCEPT ![j] = @ \o r.out] ELSE down
    BY <2>1 DEF AnswerWithFullState
  <2>3. Added(up[h], u)
    BY <1>1, <1>4, <2>1, <2>2
  <2>4. ~Says(down[g], u) /\ Copy(ed[Host], u) = NoVal
    BY <1>3, <2>3, AddedIsNew
  <2>5. Good(ed[Host]) /\ Exact(ed[Host])
    BY <1>1, <2>1, HostIsMember, SoundGood DEF HInv, IInv
  <2>6. r.out \in Seq(BatchPacket) /\ ~Says(r.out, u)
    BY <2>4, <2>5, FullStateCopies DEF Full, Says
  <2>7. r.out \in Seq(SentByGuests)
    BY <1>1, <2>6 DEF ObjectPacket
  <2>8. ~Says(down[g] \o r.out, u)
    BY <1>2, <2>4, <2>6, <2>7, QueuesSay
  <2> QED BY <1>1, <2>2, <2>4, <2>8
<1>11. CASE PollDisconnect(j)
  <2>1. down' = down /\ up[j] # <<>> /\ up' = [up EXCEPT ![j] = Tail(@)]
    BY <1>11 DEF PollDisconnect, Polls
  <2> QED BY <1>1, <1>3, <1>4, <2>1
<1>12. CASE HostReceives(j)
  <2>1. down' = down /\ up[j] # <<>> /\ up' = [up EXCEPT ![j] = Tail(@)]
    BY <1>1, <1>12, HostReceivesSilent DEF HostReceives
  <2> QED BY <1>1, <1>3, <1>4, <2>1
<1>13. CASE GuestReceives(j) \/ GuestDrops(j)
  <2>1. up' = up /\ down[j] # <<>> /\ down' = [down EXCEPT ![j] = Tail(@)]
    BY <1>1, <1>13, GuestReceivesSilent DEF GuestReceives, GuestDrops
  <2> QED BY <1>1, <1>3, <1>5, <2>1
<1> QED BY <1>6, <1>7, <1>8, <1>9, <1>10, <1>11, <1>12, <1>13 DEF Session, Poll

\* Every step keeps it so.
LEMMA NextUnsaid ==
    ASSUME HInv, AddsUnsaid, [Next]_vars
    PROVE  AddsUnsaid'
<1>1. CASE StartHosting
  BY <1>1 DEF StartHosting, AddsUnsaid, Added, Says, InFlight
<1>2. ASSUME NEW h \in Guests, Session(h) PROVE AddsUnsaid'
  BY <1>2, SessionUnsaid
<1>3. ASSUME NEW m \in Members, Edit(m) PROVE AddsUnsaid'
  BY <1>3, EditUnsaid
<1>4. CASE UNCHANGED vars
  BY <1>4 DEF vars, AddsUnsaid, Added, Says, InFlight
<1> QED BY <1>1, <1>2, <1>3, <1>4 DEF Next

-----------------------------------------------------------------------------
(* Every difference between a guest and the host is explained              *)

OInv ==
    /\ HInv /\ GhostTypes /\ AddsUnsaid
    /\ \A g \in Guests :
          /\ Link(g)
          /\ \A u \in Uid : Explained(View(g, u), u)

\* At the start nobody is in the session.
LEMMA InitOInv == Init => OInv
<1> SUFFICES ASSUME Init PROVE OInv
  OBVIOUS
<1>1. HInv /\ GhostTypes
  BY InitHInv DEF Init, GhostTypes
<1>2. ASSUME NEW g \in Guests PROVE Link(g)
  BY InitLink
<1>3. ASSUME NEW g \in Guests, NEW u \in Uid PROVE Explained(View(g, u), u)
  <2>1. ~InSession(g) /\ ~Attached(g) /\ down[g] = <<>>
    BY DEF Init, InSession, Attached, Members
  <2>2. IsAway(View(g, u))
    BY <2>1, ViewFields, ViewOn DEF IsAway
  <2> QED BY <2>2, AwayExplained
<1>4. AddsUnsaid
  BY NothingSaid DEF Init, AddsUnsaid
<1> QED BY <1>1, <1>2, <1>3, <1>4 DEF OInv

\* What is seen after a step is well typed too.
LEMMA ViewTypesNext ==
    ASSUME NEW g \in Guests, NEW u \in Uid PROVE IInv' => IsView(View(g, u))'
<1>1. IInv => IsView(View(g, u))
  BY ViewTypes
<1> QED BY <1>1, PTL

\* Every step keeps what is seen explained.
LEMMA NextOInv == OInv /\ [Next]_vars => OInv'
<1> SUFFICES ASSUME OInv, [Next]_vars PROVE OInv'
  OBVIOUS
<1>1. /\ HInv /\ HInv' /\ GhostTypes /\ GhostTypes' /\ AddsUnsaid /\ AddsUnsaid'
      /\ \A g \in Guests : Link(g)
  BY NextHInv, NextGhosts, NextUnsaid DEF OInv
<1>2. ASSUME NEW g \in Guests PROVE Link(g)'
  BY <1>1, NextLink
<1>3. ASSUME NEW g \in Guests, NEW u \in Uid PROVE Explained(View(g, u), u)'
  <2> DEFINE x == View(g, u)
             y == View(g, u)'
  <2>1. Explained(x, u)
    BY DEF OInv
  <2>2. IsView(x)
    BY <1>1, ViewTypes DEF HInv, UInv
  <2>3. IsView(y)
    BY <1>1, ViewTypesNext DEF HInv, UInv
  <2>4. Moves(x, y, u)
    BY <1>1, StepMoves
  <2>5. Explained(y, u)
    <3> HIDE DEF x, y
    <3> QED BY <2>1, <2>2, <2>3, <2>4, MovesExplained
  <2> QED BY <2>5
<1> QED BY <1>1, <1>2, <1>3 DEF OInv

-----------------------------------------------------------------------------
(* The guests keep in step                                                 *)

\* What each guest and each UID show is explained in every state.
THEOREM DifferencesExplained == Spec => []OInv
<1> QED BY InitOInv, NextOInv, PTL DEF Spec

\* An object the host has is at each guest that hears from it, or is on its way
\* there, or the guest has deleted it, once no full state is to come; or the
\* guest has missed it, in one of the ways the ghost tells.
THEOREM NothingIsLost == Spec => []NothingLost
<1>1. ASSUME OInv PROVE NothingLost
  <2> SUFFICES ASSUME NEW g \in Guests, Attached(g), ~StateToCome(g),
                      NEW u \in Tracked(ed[Host])
               PROVE  \/ u \in Tracked(ed[g])
                      \/ InFlight(down[g], u, MadeBy)
                      \/ InFlight(up[g], u, {"OBJECT_DELETE"})
                      \/ u \in missed[g]
    BY DEF NothingLost
  <2> DEFINE x == View(g, u)
  <2>1. u \in Uid /\ Good(ed[Host]) /\ Good(ed[g])
    BY <1>1, HostIsMember, SoundGood DEF Tracked, OInv, HInv, UInv, IInv, Members
  <2>2. Reaches(x, u)
    BY <1>1, <2>1 DEF OInv, Explained, InStep
  <2>3. x.host # NoVal /\ x.on /\ ~x.timer /\ ~Coming(x.up)
    BY <2>1, CopyTracked, ViewFields, ViewOn DEF StateToCome, Coming
  <2>4. x.own # NoVal \/ Made(x.down, u) \/ Deleted(x.up, u) \/ x.missed
    BY <2>2, <2>3 DEF Reaches
  <2>5. /\ x.own # NoVal => u \in Tracked(ed[g])
        /\ x.down = down[g] /\ x.up = up[g]
    BY <2>1, CopyTracked, ViewFields
  <2>6. x.missed => u \in missed[g]
    BY <2>1, ViewGhosts
  <2> HIDE DEF x
  <2> QED BY <2>4, <2>5, <2>6 DEF Made, Deleted
<1> QED BY <1>1, DifferencesExplained, PTL

\* An object a guest has is at the host, or is on its way there, or its deletion
\* is on its way to the guest; or the host gave it up for a guest's packet.
THEOREM NothingIsKept == Spec => []NothingKept
<1>1. ASSUME OInv PROVE NothingKept
  <2> SUFFICES ASSUME NEW g \in Guests, Attached(g), NEW u \in Tracked(ed[g])
               PROVE  \/ u \in Tracked(ed[Host])
                      \/ InFlight(up[g], u, {"OBJECT_ADD"})
                      \/ InFlight(down[g], u, {"OBJECT_DELETE"})
                      \/ u \in strays[g]
    BY DEF NothingKept
  <2> DEFINE x == View(g, u)
  <2>1. u \in Uid /\ Good(ed[Host]) /\ Good(ed[g])
    BY <1>1, HostIsMember, SoundGood DEF Tracked, OInv, HInv, UInv, IInv, Members
  <2>2. GoesToo(x, u)
    BY <1>1, <2>1 DEF OInv, Explained, InStep
  <2>3. x.own # NoVal /\ x.joined
    BY <2>1, CopyTracked, ViewFields, ViewOn DEF Attached
  <2>4. Added(x.up, u) \/ x.host # NoVal \/ Deleted(x.down, u) \/ x.stray
    BY <2>2, <2>3 DEF GoesToo
  <2>5. /\ x.host # NoVal => u \in Tracked(ed[Host])
        /\ x.down = down[g] /\ x.up = up[g]
    BY <2>1, CopyTracked, ViewFields
  <2>6. x.stray => u \in strays[g]
    BY <2>1, ViewGhosts
  <2> HIDE DEF x
  <2> QED BY <2>4, <2>5, <2>6 DEF Added, Deleted
<1> QED BY <1>1, DifferencesExplained, PTL

\* Both: what one of a guest and the host has and the other has not is
\* explained by a packet between them or a known loss.
THEOREM GuestsKeepInStep == Spec => []GuestInStep
<1>1. NothingLost /\ NothingKept => GuestInStep
  BY DEF GuestInStep
<1> QED BY <1>1, NothingIsLost, NothingIsKept, PTL

\* A guest and the host have the same under a UID once the packets about it have
\* arrived, unless the last edit was told before it was made, was another
\* guest's, or crossed one of the other end.
THEOREM CopiesAreCurrent == Spec => []HostCopyCurrent
<1>1. ASSUME OInv PROVE HostCopyCurrent
  <2> SUFFICES ASSUME NEW g \in Guests, Attached(g),
                      NEW u \in (Tracked(ed[Host]) \cap Tracked(ed[g])) \ apart[g]
               PROVE  LET here == Copy(ed[Host], u)  there == Copy(ed[g], u)
                          sent == Says(down[g], u)   coming == Says(up[g], u)
                      IN /\ sent /\ ~coming => LastSays(down[g], u, here)
                         /\ coming /\ ~sent => LastSays(up[g], u, there)
                         /\ ~sent /\ ~coming => here = there
    BY DEF HostCopyCurrent
  <2> DEFINE x == View(g, u)
  <2>1. /\ u \in Uid /\ Good(ed[Host]) /\ Good(ed[g])
        /\ u \in Tracked(ed[Host]) /\ u \in Tracked(ed[g]) /\ u \notin apart[g]
    BY <1>1, HostIsMember, SoundGood DEF Tracked, OInv, HInv, UInv, IInv, Members
  <2>2. NewsIsCurrent(x, u) /\ OwnIsTold(x, u) /\ CopyIsCurrent(x, u)
    BY <1>1, <2>1 DEF OInv, Explained, Current
  <2>3. /\ x.host = Copy(ed[Host], u) /\ x.own = Copy(ed[g], u)
        /\ x.down = down[g] /\ x.up = up[g]
    BY <2>1, ViewFields
  <2>4. x.host # NoVal /\ x.own # NoVal
    BY <2>1, <2>3, CopyTracked
  <2>5. x.on /\ x.joined /\ ~x.apart
    BY <2>1, ViewOn, ViewGhosts DEF Attached
  <2> HIDE DEF x
  <2> QED BY <2>2, <2>3, <2>4, <2>5 DEF NewsIsCurrent, OwnIsTold, CopyIsCurrent
<1> QED BY <1>1, DifferencesExplained, PTL
=============================================================================
