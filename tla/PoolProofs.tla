----------------------------- MODULE PoolProofs -----------------------------
(***************************************************************************)
(* Proofs about Pool, for any number of clients and any configuration.     *)
(* OneUserEach is inductive with the numbering of the connections: a new   *)
(* one is unlike any that is used or idle because created only grows.      *)
(* TypeOK is not inductive: that total stays a natural number needs that   *)
(* it counts every user.                                                   *)
(***************************************************************************)
EXTENDS Pool, FiniteSetTheorems, TLAPS

\* Every connection in use or idle was made by the pool.
Numbered ==
  /\ \A t \in Using : con[t] \in 1 .. created
  /\ \A i \in DOMAIN available : IdOf(i) \in 1 .. created

-----------------------------------------------------------------------------
(* The types.                                                              *)

\* What deque's pop_front and emplace_back leave.
LEMMA Queues ==
  ASSUME NEW s \in Seq(Wrappers), NEW w \in Wrappers
  PROVE  /\ Append(s, w) \in Seq(Wrappers)
         /\ Len(Append(s, w)) = Len(s) + 1
         /\ \A i \in 1 .. Len(s) : Append(s, w)[i] = s[i]
         /\ Append(s, w)[Len(s) + 1] = w
         /\ s # <<>> => /\ Tail(s) \in Seq(Wrappers)
                        /\ Len(Tail(s)) = Len(s) - 1
                        /\ \A i \in 1 .. Len(Tail(s)) : Tail(s)[i] = s[i + 1]
                        /\ Len(s) \in Nat \ {0} /\ Head(s) = s[1] /\ s[1] \in Wrappers
  OBVIOUS

LEMMA Configured ==
  /\ initialSize \in Nat /\ maxConnections \in Nat /\ MaxCreated \in Nat /\ MaxTime \in Nat
  /\ initialSize <= MaxCreated /\ None \notin Ids
BY PoolAssumption DEF Ids

LEMMA TypeInit == Init => TypeOK
<1> SUFFICES ASSUME Init PROVE TypeOK
  OBVIOUS
<1> USE Configured DEF Init, Ids, Times
<1>1. available \in Seq(Wrappers)
  <2>1. \A i \in 1 .. initialSize : [id |-> i, time |-> 0] \in Wrappers
    BY DEF Wrappers
  <2>2. available \in [1 .. initialSize -> Wrappers]
    BY <2>1
  <2> QED
    BY <2>2
<1>2. /\ total \in Nat /\ created \in 0 .. MaxCreated /\ lost \in Nat
      /\ now \in Times /\ scanned \in Times
  OBVIOUS
<1>4. /\ invalid \subseteq Ids
      /\ monitor \in {"sleep", "scan", "done"} /\ stop \in BOOLEAN
  OBVIOUS
<1>3. /\ pc \in [Clients -> {"idle", "cleared", "using"}]
      /\ con \in [Clients -> Ids \cup {None}]
      /\ \A t \in Clients : con[t] = None <=> pc[t] # "using"
  OBVIOUS
<1> QED
  BY <1>1, <1>2, <1>3, <1>4 DEF TypeOK

\* A client that takes a step of acquire or release keeps the types of its own.
LEMMA GoTypes ==
  ASSUME TypeOK, NEW t \in Clients,
         NEW step \in {"idle", "cleared", "using"}, NEW id \in Ids \cup {None},
         id = None <=> step # "using", Go(t, step, id)
  PROVE  /\ pc' \in [Clients -> {"idle", "cleared", "using"}]
         /\ con' \in [Clients -> Ids \cup {None}]
         /\ \A u \in Clients : con'[u] = None <=> pc'[u] # "using"
         /\ invalid' \subseteq Ids
  BY DEF TypeOK, Go

\* A user that releases is counted.
LEMMA Counted ==
  ASSUME CountCoversUsers, NEW t \in Clients, pc[t] = "using"
  PROVE  total \in Nat \ {0}
<1>1. IsFiniteSet(Using) /\ t \in Using
  BY PoolAssumption, FS_Subset DEF Using
<1>2. Cardinality(Using) \in Nat /\ Cardinality(Using) # 0
  BY <1>1, FS_EmptySet, FS_CardinalityType
<1> QED
  BY <1>2 DEF CountCoversUsers, TypeOK

LEMMA TypeStep ==
  ASSUME CountCoversUsers, [Next]_vars PROVE TypeOK'
<1>0. TypeOK
  BY DEF CountCoversUsers
<1> USE <1>0, Configured
<1>1. ASSUME NEW t \in Clients, Use(t) PROVE TypeOK'
  <2>1. CASE Cleared(t)
    <3>1. Go(t, "cleared", None)
      BY <2>1 DEF Cleared, ClearedBelow
    <3> QED
      BY <2>1, <3>1, GoTypes DEF Cleared, ClearedBelow, counts, ttl, TypeOK
  <2>2. CASE Reuse(t)
    <3>1. /\ pc[t] = "cleared" /\ available # <<>> /\ available' = Tail(available)
          /\ Go(t, "using", Head(available).id) /\ total' = total + 1
          /\ UNCHANGED <<created, lost, ttl, now>>
      BY <2>2 DEF Reuse, ReuseLeaving
    <3>2. Head(available) \in Wrappers /\ Tail(available) \in Seq(Wrappers)
      BY <3>1 DEF TypeOK
    <3>3. Head(available).id \in Ids /\ Head(available).id # None
      BY <3>2 DEF Wrappers
    <3> QED
      BY <3>1, <3>2, <3>3, GoTypes DEF ttl, TypeOK
  <2>3. CASE Create(t)
    <3>1. created + 1 \in Ids
      BY <2>3 DEF Create, Ids, TypeOK
    <3>2. Go(t, "using", created + 1)
      BY <2>3 DEF Create
    <3> QED
      BY <2>3, <3>1, <3>2, GoTypes DEF Create, Ids, ttl, TypeOK
  <2>4. CASE CreateThrows(t)
    <3>1. Go(t, "idle", None)
      BY <2>4 DEF CreateThrows
    <3> QED
      BY <2>4, <3>1, GoTypes DEF CreateThrows, ttl, TypeOK
  <2>5. CASE SetInvalid(t)
    <3>1. con[t] \in Ids
      BY <2>5 DEF SetInvalid, TypeOK
    <3> QED
      BY <2>5, <3>1 DEF SetInvalid, counts, ttl, TypeOK
  <2>6. CASE Release(t)
    <3>1. /\ pc[t] = "using" /\ total' = total - 1 /\ Go(t, "idle", None)
          /\ UNCHANGED <<created, lost, ttl, now>>
          /\ \/ available' = available
             \/ available' = Append(available, [id |-> con[t], time |-> now])
      BY <2>6 DEF Release, ReleaseTo, Put
    <3>2. total \in Nat \ {0}
      BY <3>1, Counted
    <3>3. [id |-> con[t], time |-> now] \in Wrappers
      BY <3>1 DEF Wrappers, TypeOK
    <3>4. available' \in Seq(Wrappers)
      BY <3>1, <3>3 DEF TypeOK
    <3> QED
      BY <3>1, <3>2, <3>4, GoTypes DEF ttl, TypeOK
  <2> QED
    BY <1>1, <2>1, <2>2, <2>3, <2>4, <2>5, <2>6 DEF Use
<1>2. CASE Monitor
  <2>1. CASE Wake
    BY <2>1 DEF Wake, counts, users, TypeOK
  <2>2. CASE Erase
    BY <2>2 DEF Erase, Due, counts, users, ttl, TypeOK
  <2>3. CASE Scanned
    BY <2>3 DEF Scanned, ScannedThen, counts, users, TypeOK
  <2>4. CASE Done
    BY <2>4 DEF Done, counts, users, TypeOK
  <2> QED
    BY <1>2, <2>1, <2>2, <2>3, <2>4 DEF Monitor
<1>3. CASE Destroy
  BY <1>3 DEF Destroy, counts, users, TypeOK
<1>4. CASE Tick
  BY <1>4 DEF Tick, Times, counts, users, ttl, TypeOK
<1>5. CASE UNCHANGED vars
  BY <1>5 DEF vars, counts, users, ttl, TypeOK
<1> QED
  BY <1>1, <1>2, <1>3, <1>4, <1>5 DEF Next

-----------------------------------------------------------------------------
(* The counter of the users.                                               *)

\* A client that comes out of acquire with connection id, or goes back without one.
LEMMA GoUses ==
  ASSUME TypeOK, NEW t \in Clients, NEW step, NEW id, Go(t, step, id)
  PROVE  /\ Using' = IF step = "using" THEN Using \cup {t} ELSE Using \ {t}
         /\ con'[t] = id /\ \A u \in Clients \ {t} : con'[u] = con[u]
  BY DEF TypeOK, Go, Using

LEMMA UsersFinite ==
  ASSUME NEW t \in Clients
  PROVE  /\ Cardinality(Using) \in Nat
         /\ t \notin Using => Cardinality(Using \cup {t}) = Cardinality(Using) + 1
         /\ t \in Using => Cardinality(Using \ {t}) = Cardinality(Using) - 1
<1>1. IsFiniteSet(Using)
  BY PoolAssumption, FS_Subset DEF Using
<1>2. Cardinality(Using) \in Nat
  BY <1>1, FS_CardinalityType
<1>3. t \notin Using => Cardinality(Using \cup {t}) = Cardinality(Using) + 1
  BY <1>1, FS_AddElement
<1>4. t \in Using => Cardinality(Using \ {t}) = Cardinality(Using) - 1
  BY <1>1, FS_RemoveElement
<1> QED
  BY <1>2, <1>3, <1>4

LEMMA CountStep ==
  ASSUME CountCoversUsers, [Next]_vars PROVE total' = Cardinality(Using') + lost'
<1>0. TypeOK /\ total = Cardinality(Using) + lost /\ total \in Nat /\ lost \in Nat
  BY DEF CountCoversUsers, TypeOK
<1>1. ASSUME NEW t \in Clients, Use(t) PROVE total' = Cardinality(Using') + lost'
  <2>0. /\ Cardinality(Using) \in Nat
        /\ t \notin Using => Cardinality(Using \cup {t}) = Cardinality(Using) + 1
        /\ t \in Using => Cardinality(Using \ {t}) = Cardinality(Using) - 1
    BY UsersFinite
  <2> USE <1>0
  <2>1. CASE Cleared(t)
    <3>1. Using' = Using /\ total' = total /\ lost' = lost
      BY <2>1 DEF Cleared, ClearedBelow, Go, counts, TypeOK, Using
    <3> QED
      BY <3>1, <2>0
  <2>2. CASE Reuse(t)
    <3>1. Using' = Using \cup {t} /\ t \notin Using /\ total' = total + 1 /\ lost' = lost
      BY <2>2, GoUses DEF Reuse, ReuseLeaving, Using
    <3> QED
      BY <3>1, <2>0
  <2>3. CASE Create(t)
    <3>1. Using' = Using \cup {t} /\ t \notin Using /\ total' = total + 1 /\ lost' = lost
      BY <2>3, GoUses DEF Create, Using
    <3> QED
      BY <3>1, <2>0
  <2>4. CASE CreateThrows(t)
    <3>1. Using' = Using \ {t} /\ t \notin Using /\ total' = total + 1 /\ lost' = lost + 1
      BY <2>4, GoUses DEF CreateThrows, Using
    <3>2. Using' = Using /\ total' = total + 1 /\ lost' = lost + 1
      BY <3>1
    <3> QED
      BY <3>2, <2>0
  <2>5. CASE SetInvalid(t)
    <3>1. Using' = Using /\ total' = total /\ lost' = lost
      BY <2>5 DEF SetInvalid, counts, Using
    <3> QED
      BY <3>1, <2>0
  <2>6. CASE Release(t)
    <3>1. Using' = Using \ {t} /\ total' = total - 1 /\ t \in Using /\ lost' = lost
      BY <2>6, GoUses DEF Release, ReleaseTo, Using
    <3> QED
      BY <3>1, <2>0
  <2> QED
    BY <1>1, <2>1, <2>2, <2>3, <2>4, <2>5, <2>6 DEF Use
<1>2. ASSUME Monitor \/ Destroy \/ Tick \/ UNCHANGED vars
      PROVE total' = Cardinality(Using') + lost'
  <2>1. Using' = Using /\ total' = total /\ lost' = lost
    BY <1>2 DEF Monitor, Wake, Erase, Scanned, ScannedThen, Done, Destroy, Tick,
                vars, counts, users, Using
  <2> QED
    BY <1>0, <2>1
<1> QED
  BY <1>1, <1>2 DEF Next

\* For any number of clients: total counts the connections that are out and what the
\* creators that threw left behind, and nothing else, so that release never makes it wrap.
THEOREM CountCovers == Spec => []CountCoversUsers
<1>1. Init => CountCoversUsers
  <2> SUFFICES ASSUME Init PROVE CountCoversUsers
    OBVIOUS
  <2>1. Using = {}
    BY DEF Init, Using
  <2>2. total = Cardinality(Using) + lost
    BY <2>1, FS_EmptySet DEF Init
  <2> QED
    BY <2>2, TypeInit DEF CountCoversUsers
<1>2. CountCoversUsers /\ [Next]_vars => CountCoversUsers'
  BY TypeStep, CountStep DEF CountCoversUsers
<1> QED
  BY <1>1, <1>2, PTL DEF Spec

-----------------------------------------------------------------------------
(* The cap.                                                                *)

\* However many clients look at the cap together, they pass it by less than their
\* number, if there are clients at all.
THEOREM CapIsMissedByFew ==
  ASSUME Clients # {} PROVE Spec => []CapMissedByFew
<1> DEFINE Waiting == {t \in Clients : pc[t] = "cleared"}
           Cap == total + Cardinality(Waiting) < maxConnections + Cardinality(Clients)
<1>1. IsFiniteSet(Clients) /\ Cardinality(Clients) \in Nat \ {0}
  BY PoolAssumption, FS_EmptySet, FS_CardinalityType
<1>2. IsFiniteSet(Waiting) /\ Cardinality(Waiting) \in Nat
  BY <1>1, FS_Subset, FS_CardinalityType
<1>3. ASSUME NEW t \in Clients
      PROVE  /\ t \notin Waiting => Cardinality(Waiting) + 1 <= Cardinality(Clients)
             /\ t \notin Waiting => Cardinality(Waiting \cup {t}) = Cardinality(Waiting) + 1
             /\ t \in Waiting => Cardinality(Waiting \ {t}) = Cardinality(Waiting) - 1
             /\ t \notin Waiting => Waiting \ {t} = Waiting
  <2>1. t \notin Waiting => Cardinality(Waiting \cup {t}) = Cardinality(Waiting) + 1
    BY <1>2, FS_AddElement
  <2>2. Cardinality(Waiting \cup {t}) <= Cardinality(Clients)
    BY <1>1, FS_Subset
  <2>3. t \in Waiting => Cardinality(Waiting \ {t}) = Cardinality(Waiting) - 1
    BY <1>2, FS_RemoveElement
  <2> QED
    BY <2>1, <2>2, <2>3
<1>4. Init => Cap
  <2> SUFFICES ASSUME Init PROVE Cap
    OBVIOUS
  <2>1. Waiting = {} /\ total = 0
    BY DEF Init
  <2>2. Cardinality(Waiting) = 0
    BY <2>1, FS_EmptySet
  <2> QED
    BY <2>1, <2>2, <1>1, Configured
<1>5. TypeOK /\ Cap /\ [Next]_vars => Cap'
  <2> SUFFICES ASSUME TypeOK, Cap, [Next]_vars PROVE Cap'
    OBVIOUS
  <2>0. total \in Nat /\ maxConnections \in Nat
    BY Configured DEF TypeOK
  <2>1. ASSUME NEW t \in Clients, Use(t) PROVE Cap'
    <3> USE <1>1, <1>2, <1>3, <2>0
    <3>1. CASE Cleared(t)
      <4>1. Waiting' = Waiting \cup {t} /\ t \notin Waiting /\ total' = total /\ total < maxConnections
        BY <3>1 DEF Cleared, ClearedBelow, Go, counts, TypeOK
      <4> HIDE DEF Waiting
      <4> QED
        BY <4>1
    <3>2. CASE Reuse(t) \/ Create(t) \/ CreateThrows(t)
      <4>1. Waiting' = Waiting \ {t} /\ t \in Waiting /\ total' = total + 1
        BY <3>2 DEF Reuse, ReuseLeaving, Create, CreateThrows, Go, TypeOK
      <4> HIDE DEF Waiting
      <4> QED
        BY <4>1
    <3>3. CASE SetInvalid(t)
      BY <3>3 DEF SetInvalid, counts
    <3>4. CASE Release(t)
      <4>1. Waiting' = Waiting /\ total' = total - 1
        BY <3>4 DEF Release, ReleaseTo, Go, TypeOK
      <4> HIDE DEF Waiting
      <4> QED
        BY <4>1
    <3> QED
      BY <2>1, <3>1, <3>2, <3>3, <3>4 DEF Use
  <2>2. ASSUME Monitor \/ Destroy \/ Tick \/ UNCHANGED vars PROVE Cap'
    BY <2>2 DEF Monitor, Wake, Erase, Scanned, ScannedThen, Done, Destroy, Tick,
                vars, counts, users
  <2> QED
    BY <2>1, <2>2 DEF Next
<1>6. CountCoversUsers => TypeOK
  BY DEF CountCoversUsers
<1>7. Cap => CapMissedByFew
  BY DEF CapMissedByFew
<1> HIDE DEF Cap
<1> QED
  BY <1>4, <1>5, <1>6, <1>7, CountCovers, PTL DEF Spec

-----------------------------------------------------------------------------
(* The users of a connection.                                              *)

\* What TypeOK says of a connection, element by element.
LEMMA Places ==
  ASSUME TypeOK
  PROVE  /\ Len(available) \in Nat /\ DOMAIN available = 1 .. Len(available)
         /\ \A i \in 1 .. Len(available) : available[i] \in Wrappers /\ IdOf(i) \in Ids
         /\ created \in Nat
         /\ \A t \in Clients : pc[t] = "using" => con[t] \in Ids
<1>1. /\ Len(available) \in Nat /\ DOMAIN available = 1 .. Len(available)
      /\ \A i \in 1 .. Len(available) : available[i] \in Wrappers
  BY DEF TypeOK
<1>2. \A i \in 1 .. Len(available) : IdOf(i) \in Ids
  BY <1>1 DEF Wrappers, IdOf
<1>3. created \in Nat
  BY Configured DEF TypeOK
<1>4. \A t \in Clients : pc[t] = "using" => con[t] \in Ids
  BY DEF TypeOK
<1> QED
  BY <1>1, <1>2, <1>3, <1>4

\* What is inductive, given the types.
UserInv == OneUserEach /\ Numbered

LEMMA UserStep ==
  ASSUME TypeOK, UserInv, [Next]_vars PROVE UserInv'
<1> USE DEF UserInv, OneUserEach, Numbered
<1>0. Using \subseteq Clients
  BY DEF Using
<1>1. ASSUME NEW t \in Clients, Use(t) PROVE UserInv'
  <2>1. CASE Cleared(t)
    <3>1. Using' = Using /\ (\A u \in Using : con'[u] = con[u]) /\ UNCHANGED <<available, created>>
      BY <2>1 DEF Cleared, ClearedBelow, Go, counts, TypeOK, Using
    <3> QED
      BY <3>1 DEF IdOf
  <2>2. CASE Reuse(t)
    <3>1. /\ available # <<>> /\ available' = Tail(available) /\ UNCHANGED created
          /\ Using' = Using \cup {t} /\ t \notin Using
          /\ con'[t] = Head(available).id /\ \A u \in Using : con'[u] = con[u]
      BY <2>2, GoUses DEF Reuse, ReuseLeaving, Using
    <3>2. /\ Len(available') = Len(available) - 1 /\ DOMAIN available' = 1 .. Len(available')
          /\ \A i \in DOMAIN available' : i + 1 \in DOMAIN available /\ IdOf(i)' = IdOf(i + 1)
          /\ 1 \in DOMAIN available /\ con'[t] = IdOf(1)
      BY <3>1 DEF TypeOK, IdOf
    <3>3. \A i \in DOMAIN available' : IdOf(i + 1) # IdOf(1)
      BY <3>2
    <3>4. (\A u, w \in Using : con[u] = con[w] => u = w)'
      BY <3>1, <3>2
    <3>5. (\A u \in Using : \A i \in DOMAIN available : IdOf(i) # con[u])'
      BY <3>1, <3>2, <3>3
    <3>6. (\A i, j \in DOMAIN available : IdOf(i) = IdOf(j) => i = j)'
      BY <3>2
    <3>7. Numbered'
      BY <3>1, <3>2
    <3> QED
      BY <3>4, <3>5, <3>6, <3>7
  <2>3. CASE Create(t)
    <3>1. /\ UNCHANGED available /\ created' = created + 1
          /\ Using' = Using \cup {t} /\ t \notin Using
          /\ con'[t] = created + 1 /\ \A u \in Using : con'[u] = con[u]
      BY <2>3, GoUses DEF Create, Using
    <3>2. /\ \A u \in Using : con[u] # created + 1
          /\ \A i \in DOMAIN available : IdOf(i) # created + 1 /\ IdOf(i)' = IdOf(i)
          /\ 1 .. created \subseteq 1 .. created' /\ created + 1 \in 1 .. created'
      BY <3>1, Places DEF IdOf
    <3> QED
      BY <3>1, <3>2
  <2>4. CASE CreateThrows(t)
    <3>1. /\ UNCHANGED available /\ created' = created + 1
          /\ Using' = Using /\ \A u \in Using : con'[u] = con[u]
      BY <2>4, GoUses DEF CreateThrows, Using
    <3>2. 1 .. created \subseteq 1 .. created' /\ \A i \in DOMAIN available : IdOf(i)' = IdOf(i)
      BY <3>1, Places DEF IdOf
    <3> QED
      BY <3>1, <3>2
  <2>5. CASE SetInvalid(t)
    BY <2>5 DEF SetInvalid, counts, Using, IdOf
  <2>6. CASE Release(t)
    <3>1. /\ t \in Using /\ Using' = Using \ {t} /\ UNCHANGED created
          /\ \A u \in Using \ {t} : con'[u] = con[u]
          /\ \/ available' = available
             \/ available' = Append(available, [id |-> con[t], time |-> now])
      BY <2>6, GoUses DEF Release, ReleaseTo, Put, Using
    <3>2. CASE available' = available
      BY <3>1, <3>2 DEF IdOf
    <3>3. CASE available' = Append(available, [id |-> con[t], time |-> now])
      <4>0. PICK n \in Nat : n = Len(available) + 1
        BY Places
      <4>1. /\ DOMAIN available' = DOMAIN available \cup {n} /\ n \notin DOMAIN available
            /\ \A i \in DOMAIN available : available'[i].id = IdOf(i)
            /\ available'[n].id = con[t]
        <5>1. [id |-> con[t], time |-> now] \in Wrappers
          BY <3>1, Places DEF TypeOK, Wrappers, Using
        <5>2. /\ Len(available') = n /\ available'[n] = [id |-> con[t], time |-> now]
              /\ \A i \in 1 .. Len(available) : available'[i] = available[i]
              /\ available' \in Seq(Wrappers)
          BY <3>3, <4>0, <5>1, Queues DEF TypeOK
        <5>3. DOMAIN available' = 1 .. n /\ DOMAIN available = 1 .. (n - 1)
          BY <4>0, <5>2, Places
        <5> QED
          BY <4>0, <5>2, <5>3, Places DEF IdOf
      <4>2. (\A u, w \in Using : con[u] = con[w] => u = w)'
        BY <3>1
      <4>3. (\A u \in Using : \A i \in DOMAIN available : IdOf(i) # con[u])'
        BY <3>1, <4>1 DEF IdOf
      <4>4. (\A i, j \in DOMAIN available : IdOf(i) = IdOf(j) => i = j)'
        BY <3>1, <4>1 DEF IdOf
      <4>5. Numbered'
        BY <3>1, <4>1 DEF IdOf
      <4> QED
        BY <4>2, <4>3, <4>4, <4>5
    <3> QED
      BY <3>1, <3>2, <3>3
  <2> QED
    BY <1>1, <2>1, <2>2, <2>3, <2>4, <2>5, <2>6 DEF Use
<1>2. CASE Erase
  <2>1. /\ available # <<>> /\ available' = Tail(available) /\ UNCHANGED <<pc, con, created>>
    BY <1>2 DEF Erase, Due, counts, users
  <2>2. /\ DOMAIN available' = 1 .. (Len(available) - 1) /\ Using' = Using
        /\ \A i \in DOMAIN available' : i + 1 \in DOMAIN available /\ IdOf(i)' = IdOf(i + 1)
    BY <2>1 DEF TypeOK, IdOf, Using
  <2> QED
    BY <2>1, <2>2
<1>3. ASSUME Wake \/ Scanned \/ Done \/ Destroy \/ Tick \/ UNCHANGED vars PROVE UserInv'
  BY <1>3 DEF Wake, Scanned, ScannedThen, Done, Destroy, Tick, vars, counts, users, Using, IdOf
<1> QED
  BY <1>1, <1>2, <1>3 DEF Next, Monitor

\* No connection is handed to two clients, or to one while it is idle in the pool,
\* whatever the clients, the monitor and a creator that throws do, and in any order.
THEOREM OneUser == Spec => []OneUserEach
<1>1. Init => UserInv
  <2> SUFFICES ASSUME Init PROVE UserInv
    OBVIOUS
  <2>1. Using = {} /\ DOMAIN available = 1 .. initialSize /\ created = initialSize
    BY DEF Init, Using
  <2>2. \A i \in DOMAIN available : IdOf(i) = i
    BY DEF Init, IdOf
  <2> QED
    BY <2>1, <2>2 DEF UserInv, OneUserEach, Numbered
<1>2. CountCoversUsers => TypeOK
  BY DEF CountCoversUsers
<1>3. TypeOK /\ UserInv /\ [Next]_vars => UserInv'
  BY UserStep
<1>4. UserInv => OneUserEach
  BY DEF UserInv
<1> QED
  BY <1>1, <1>2, <1>3, <1>4, CountCovers, PTL DEF Spec
=============================================================================
