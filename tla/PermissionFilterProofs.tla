-------------------------- MODULE PermissionFilterProofs --------------------------
(***************************************************************************)
(* Proofs about PermissionFilter and ServicePermissions, for any files,    *)
(* services and packages.                                                  *)
(***************************************************************************)
EXTENDS ServicePermissions, TLAPS, SequenceTheorems

\* What is kept on the way to the groups, and what it is compared with.
KeptIsGrantable ==
    /\ allowlist \subseteq Range(Strings(grantable))
    /\ \A k \in DOMAIN kept : kept[k] \in MayBeGranted

IInv == TypeOK /\ KeptIsGrantable /\ GrantsAreGrantable

---------------------------------------------------------------------------
(* Lemmas.                                                                 *)

\* requestedGroups and loadAllowlist return strings only, whatever the array.
LEMMA StringsAreGroups ==
    ASSUME NEW json \in RequiredPermissions \cup Grantable
    PROVE  Strings(json) \in Seq(Group)
<1>1. json.items \in Seq(Group \cup {NotString})
  BY JsonAssumption
<1>2. CASE AllStrings(json)
  <2>1. json.items \in [1 .. Len(json.items) -> Group \cup {NotString}] /\ Len(json.items) \in Nat
    BY <1>1
  <2>2. \A k \in 1 .. Len(json.items) : json.items[k] \in Group
    BY <1>2, <2>1 DEF AllStrings
  <2>3. json.items \in [1 .. Len(json.items) -> Group]
    BY <2>1, <2>2
  <2> QED BY <1>2, <2>1, <2>3 DEF Strings
<1>3. CASE ~AllStrings(json)
  BY <1>3 DEF Strings
<1> QED BY <1>2, <1>3

\* What filter looks for is what may be granted.
LEMMA ListedAndNotDenied ==
    ASSUME NEW group \in Range(Strings(grantable)), ~IsAlwaysDenied(group)
    PROVE  group \in MayBeGranted
BY DEF Strings, MayBeGranted, Range

\* The names of groups in the code.
LEMMA NamesAreGroups == Public \in Group /\ ApplicationOperation \in Group
BY TokenAssumption DEF Public, ApplicationOperation, Group

\* A group named after a service.
LEMMA ServiceNameIsGroup ==
    ASSUME NEW id \in Token
    PROVE  GroupNameForService(id) \in Group
BY TokenAssumption DEF GroupNameForService, Group

\* The groups the daemon gives by itself are groups.
LEMMA OwnGroupsAreGroups ==
    ASSUME TypeOK
    PROVE  OwnGroups \in Seq(Group)
<1>1. services \in Seq(Token)
  BY JsonAssumption DEF TypeOK
<1>2. \A k \in DOMAIN services : GroupNameForService(services[k]) \in Group
  BY <1>1, ServiceNameIsGroup
<1>3. [k \in DOMAIN services |-> GroupNameForService(services[k])] \in Seq(Group)
  BY <1>1, <1>2
<1>4. <<ApplicationOperation>> \in Seq(Group) /\ << >> \in Seq(Group)
  BY NamesAreGroups
<1> QED BY <1>3, <1>4 DEF OwnGroups

---------------------------------------------------------------------------
(* IInv is inductive.                                                      *)

\* Nothing is kept or written at the start.
LEMMA InitIInv == Init => IInv
<1> SUFFICES ASSUME Init PROVE IInv
  OBVIOUS
<1>1. TypeOK
  BY DEF Init, TypeOK
<1> QED BY <1>1 DEF Init, IInv, KeptIsGrantable, GrantsAreGrantable

\* Reading what is asked for grants nothing but "public".
LEMMA RequestedKeepsIInv == IInv /\ RequestedGroups => IInv'
<1> SUFFICES ASSUME IInv, RequestedGroups PROVE IInv'
  OBVIOUS
<1>1. requested' \in Seq(Group)
  BY StringsAreGroups DEF RequestedGroups, IInv, TypeOK
<1>2. <<Public>> \in Seq(Group)
  BY NamesAreGroups
<1>3. TypeOK'
  BY <1>1, <1>2 DEF RequestedGroups, IInv, TypeOK, input, loop
<1>4. KeptIsGrantable'
  BY DEF RequestedGroups, IInv, KeptIsGrantable, MayBeGranted, input, loop
<1>5. GrantsAreGrantable'
  BY DEF RequestedGroups, IInv, GrantsAreGrantable, MayBeGranted, OwnGroups, input
<1> QED BY <1>3, <1>4, <1>5 DEF IInv

\* Reading the allowlist grants nothing.
LEMMA LoadKeepsIInv == IInv /\ LoadAllowlist => IInv'
<1> SUFFICES ASSUME IInv, LoadAllowlist PROVE IInv'
  OBVIOUS
<1>1. Strings(grantable) \in Seq(Group)
  BY StringsAreGroups DEF IInv, TypeOK
<1>2. allowlist' \subseteq Group
  BY <1>1 DEF LoadAllowlist, Range
<1>3. TypeOK'
  BY <1>2 DEF LoadAllowlist, IInv, TypeOK, input
<1>4. KeptIsGrantable'
  BY DEF LoadAllowlist, IInv, KeptIsGrantable, MayBeGranted, input
<1>5. GrantsAreGrantable'
  BY DEF LoadAllowlist, IInv, GrantsAreGrantable, MayBeGranted, OwnGroups, input
<1> QED BY <1>3, <1>4, <1>5 DEF IInv

\* An iteration of filter keeps a group only if it may be granted.
LEMMA FilterKeepsIInv == IInv /\ Filter => IInv'
<1> SUFFICES ASSUME IInv, Filter PROVE IInv'
  OBVIOUS
<1> DEFINE group == Head(left)
<1>1. group \in Group /\ left' \in Seq(Group)
  BY DEF Filter, IInv, TypeOK
<1>2. \/ kept' = kept
      \/ kept' = Append(kept, group) /\ Keeps(group)
  BY DEF Filter, Look
<1>3. dropped' = dropped \/ dropped' = Append(dropped, group)
  BY DEF Filter, Look
<1>4. Keeps(group) => group \in MayBeGranted
  BY ListedAndNotDenied DEF Keeps, IInv, KeptIsGrantable
<1> HIDE DEF group
<1>5. TypeOK'
  <2>1. kept' \in Seq(Group) /\ dropped' \in Seq(Group)
    <3>1. Append(kept, group) \in Seq(Group) /\ Append(dropped, group) \in Seq(Group)
      BY <1>1 DEF IInv, TypeOK
    <3> QED BY <1>2, <1>3, <3>1 DEF IInv, TypeOK
  <2>2. seen' \subseteq Group
    BY <1>1 DEF Filter, Look, IInv, TypeOK
  <2> QED BY <1>1, <2>1, <2>2 DEF Filter, IInv, TypeOK, input
<1>6. KeptIsGrantable'
  <2>1. \A k \in DOMAIN kept' : kept'[k] \in MayBeGranted
    <3>1. CASE kept' = kept
      BY <3>1 DEF IInv, KeptIsGrantable
    <3>2. CASE kept' = Append(kept, group) /\ Keeps(group)
      <4>1. \A k \in DOMAIN Append(kept, group) :
                IF k \in DOMAIN kept THEN Append(kept, group)[k] = kept[k]
                ELSE Append(kept, group)[k] = group
        BY <1>1
      <4> QED BY <1>4, <3>2, <4>1 DEF IInv, KeptIsGrantable
    <3> QED BY <1>2, <3>1, <3>2
  <2> QED BY <2>1 DEF Filter, IInv, KeptIsGrantable, MayBeGranted, input
<1>7. GrantsAreGrantable'
  BY DEF Filter, IInv, GrantsAreGrantable, MayBeGranted, OwnGroups, input
<1> QED BY <1>5, <1>6, <1>7 DEF IInv

\* What was kept is written, or "public".
LEMMA GrantedKeepsIInv == IInv /\ GrantedGroups => IInv'
<1> SUFFICES ASSUME IInv, GrantedGroups PROVE IInv'
  OBVIOUS
<1>1. <<Public>> \in Seq(Group)
  BY NamesAreGroups
<1>2. TypeOK'
  BY <1>1 DEF GrantedGroups, IInv, TypeOK, input, loop
<1>3. KeptIsGrantable'
  BY DEF GrantedGroups, IInv, KeptIsGrantable, MayBeGranted, input, loop
<1>4. GrantsAreGrantable'
  <2>1. \A k \in DOMAIN groups' : groups'[k] \in MayBeGranted \cup {Public}
    BY DEF GrantedGroups, IInv, KeptIsGrantable
  <2> QED BY <2>1 DEF GrantedGroups, GrantsAreGrantable, MayBeGranted, input
<1> QED BY <1>2, <1>3, <1>4 DEF IInv

\* The groups the daemon gives by itself are appended.
LEMMA AppendKeepsIInv == IInv /\ AppendOwn => IInv'
<1> SUFFICES ASSUME IInv, AppendOwn PROVE IInv'
  OBVIOUS
<1>1. OwnGroups \in Seq(Group)
  BY OwnGroupsAreGroups DEF IInv
<1>2. TypeOK'
  BY <1>1 DEF AppendOwn, IInv, TypeOK, input, loop
<1>3. KeptIsGrantable'
  BY DEF AppendOwn, IInv, KeptIsGrantable, MayBeGranted, input, loop
<1>4. GrantsAreGrantable'
  <2>1. groups \in Seq(Group)
    BY DEF IInv, TypeOK
  <2>2. ASSUME NEW k \in DOMAIN groups'
        PROVE  groups'[k] \in MayBeGranted \cup {Public} \cup Range(OwnGroups)
    <3>1. k \in 1 .. (Len(groups) + Len(OwnGroups))
      BY <1>1, <2>1, <2>2 DEF AppendOwn
    <3>2. CASE k <= Len(groups)
      BY <1>1, <2>1, <3>1, <3>2 DEF AppendOwn, IInv, GrantsAreGrantable
    <3>3. CASE k > Len(groups)
      <4>1. groups'[k] = OwnGroups[k - Len(groups)] /\ k - Len(groups) \in DOMAIN OwnGroups
        BY <1>1, <2>1, <3>1, <3>3 DEF AppendOwn
      <4> QED BY <4>1 DEF Range
    <3> QED BY <2>1, <3>1, <3>2, <3>3
  <2> QED BY <2>2 DEF AppendOwn, GrantsAreGrantable, MayBeGranted, OwnGroups, input
<1> QED BY <1>2, <1>3, <1>4 DEF IInv

\* Every step is one of these.
LEMMA NextIInv == IInv /\ [Next]_vars => IInv'
<1>1. IInv /\ UNCHANGED vars => IInv'
  BY DEF IInv, TypeOK, KeptIsGrantable, GrantsAreGrantable, MayBeGranted, OwnGroups, vars,
         input, loop
<1> QED BY <1>1, RequestedKeepsIInv, LoadKeepsIInv, FilterKeepsIInv, GrantedKeepsIInv,
           AppendKeepsIInv DEF Next

(***************************************************************************)
(* Whatever the files and however many services: nothing is written into   *)
(* the permissions of an app but groups that may be granted, "public" and  *)
(* those the daemon gives by itself.                                       *)
(***************************************************************************)
THEOREM GrantsAreSafe == Spec => [](TypeOK /\ GrantsAreGrantable)
<1>1. IInv => TypeOK /\ GrantsAreGrantable
  BY DEF IInv
<1> QED BY <1>1, InitIInv, NextIInv, PTL DEF Spec

---------------------------------------------------------------------------
(* The filter is its reference.                                            *)

\* picked is what seq has at these places, in order.
Selects(picked, seq, places) ==
    \E place \in [DOMAIN picked -> places] :
        /\ \A i \in DOMAIN picked : picked[i] = seq[place[i]]
        /\ \A i, j \in DOMAIN picked : i < j => place[i] < place[j]
        /\ \A k \in places : \E i \in DOMAIN picked : place[i] = k

\* Nothing is picked at no place.
LEMMA SelectsNothing ==
    ASSUME NEW seq
    PROVE  Selects(<< >>, seq, {})
<1>1. << >> \in [DOMAIN << >> -> {}] /\ DOMAIN << >> = {}
  OBVIOUS
<1>2. QED
  BY <1>1 DEF Selects

\* One more is picked at a place behind the others.
LEMMA SelectsOneMore ==
    ASSUME NEW T, NEW seq, NEW picked \in Seq(T), NEW n \in Nat, NEW places \in SUBSET (1 .. n),
           NEW x \in T, x = seq[n + 1],
           Selects(picked, seq, places)
    PROVE  Selects(Append(picked, x), seq, places \cup {n + 1})
<1>1. PICK place \in [DOMAIN picked -> places] :
         /\ \A i \in DOMAIN picked : picked[i] = seq[place[i]]
         /\ \A i, j \in DOMAIN picked : i < j => place[i] < place[j]
         /\ \A k \in places : \E i \in DOMAIN picked : place[i] = k
  BY DEF Selects
<1> DEFINE len  == Len(picked)
           more == Append(picked, x)
           next == [i \in DOMAIN more |-> IF i <= len THEN place[i] ELSE n + 1]
<1>2. /\ len \in Nat /\ DOMAIN picked = 1 .. len /\ DOMAIN more = 1 .. (len + 1)
      /\ \A i \in 1 .. len : more[i] = picked[i]
      /\ more[len + 1] = x
  OBVIOUS
<1> HIDE DEF len, more
<1>3. \A i \in 1 .. len : place[i] \in places /\ place[i] \in 1 .. n
  BY <1>1, <1>2
<1>4. /\ \A i \in 1 .. len : next[i] = place[i]
      /\ next[len + 1] = n + 1
  BY <1>2
<1>5. next \in [DOMAIN more -> places \cup {n + 1}]
  BY <1>2, <1>3
<1> HIDE DEF next
<1>6. \A i \in DOMAIN more : more[i] = seq[next[i]]
  <2>1. \A i \in 1 .. len : more[i] = seq[next[i]]
    BY <1>1, <1>2, <1>4
  <2>2. more[len + 1] = seq[next[len + 1]]
    BY <1>2, <1>4
  <2>3. QED
    BY <1>2, <2>1, <2>2
<1>7. \A i, j \in DOMAIN more : i < j => next[i] < next[j]
  <2>1. ASSUME NEW i \in 1 .. (len + 1), NEW j \in 1 .. (len + 1), i < j PROVE next[i] < next[j]
    <3>1. i \in 1 .. len
      BY <1>2, <2>1
    <3>2. CASE j \in 1 .. len
      BY <1>1, <1>2, <1>4, <2>1, <3>1, <3>2
    <3>3. CASE j = len + 1
      BY <1>3, <1>4, <3>1, <3>3
    <3>4. QED
      BY <1>2, <3>2, <3>3
  <2>2. QED
    BY <1>2, <2>1
<1>8. \A k \in places \cup {n + 1} : \E i \in DOMAIN more : next[i] = k
  <2>1. ASSUME NEW k \in places PROVE \E i \in 1 .. (len + 1) : next[i] = k
    <3>1. PICK i \in 1 .. len : place[i] = k
      BY <1>1, <1>2
    <3>2. i \in 1 .. (len + 1) /\ next[i] = k
      BY <1>2, <1>4, <3>1
    <3>3. QED
      BY <3>2
  <2>2. len + 1 \in 1 .. (len + 1) /\ next[len + 1] = n + 1
    BY <1>2, <1>4
  <2>3. QED
    BY <1>2, <2>1, <2>2
<1>9. Selects(more, seq, places \cup {n + 1})
  BY <1>5, <1>6, <1>7, <1>8 DEF Selects
<1>10. QED
  BY <1>9 DEF more

\* How many requests the loop has looked at.
Looked == Len(requested) - Len(left)

\* What the app may not have.
NotGranted == Range(requested) \ MayBeGranted

\* The places among the first n at which the elements of S occur first.
PlacesUpTo(seq, n, S) == {k \in FirstPlaces(seq, S) : k <= n}

\* The loop has kept and dropped what it should of the requests it has looked at.
KeptSoFar == Selects(kept, requested, PlacesUpTo(requested, Looked, MayBeGranted))
DroppedSoFar == Selects(dropped, requested, PlacesUpTo(requested, Looked, NotGranted))

\* At each point of the function, what has been read and selected.
FilterFollows ==
    /\ at \in {"requestedGroups", "loadAllowlist"} => kept = << >> /\ dropped = << >> /\ seen = {}
    /\ at # "requestedGroups" /\ AllStrings(requiredPermissions) =>
           requested = requiredPermissions.items
    /\ at = "loadAllowlist" => AllStrings(requiredPermissions)
    /\ at = "filter" =>
           /\ allowlist = Range(Strings(grantable))
           /\ Len(left) <= Len(requested)
           /\ \A i \in 1 .. Len(left) : left[i] = requested[Looked + i]
           /\ seen = {requested[j] : j \in 1 .. Looked}
           /\ KeptSoFar /\ DroppedSoFar
    /\ at \in {"append", "done"} /\ AllStrings(requiredPermissions) =>
           /\ IsSelection(kept, requested, MayBeGranted)
           /\ IsSelection(dropped, requested, NotGranted)
    /\ at = "append" /\ AllStrings(requiredPermissions) =>
           groups = IF kept = << >> THEN <<Public>> ELSE kept
    /\ at = "done" /\ AllStrings(requiredPermissions) =>
           groups = (IF kept = << >> THEN <<Public>> ELSE kept) \o OwnGroups

FilterInv == IInv /\ FilterFollows

LEMMA FilterInvImplies == FilterInv => FilterIsReference
BY DEF FilterInv, FilterFollows, FilterIsReference, NotGranted

LEMMA InitFilterInv == Init => FilterInv
<1>1. Init => FilterFollows
  BY DEF Init, FilterFollows
<1>2. QED
  BY <1>1, InitIInv DEF FilterInv

\* Reading what is asked for.
LEMMA RequestedKeepsFilter == FilterInv /\ RequestedGroups => FilterFollows'
<1> SUFFICES ASSUME FilterInv, RequestedGroups PROVE FilterFollows'
  OBVIOUS
<1>1. /\ at = "requestedGroups" /\ at' \in {"loadAllowlist", "append"}
      /\ AllStrings(requiredPermissions) <=> at' = "loadAllowlist"
      /\ AllStrings(requiredPermissions) => requested' = requiredPermissions.items
      /\ UNCHANGED <<requiredPermissions, kept, dropped, seen>>
  BY DEF RequestedGroups, Strings, input, loop
<1>2. QED
  BY <1>1 DEF FilterInv, FilterFollows

\* Before the loop nothing has been looked at.
LEMMA LoadKeepsFilter == FilterInv /\ LoadAllowlist => FilterFollows'
<1> SUFFICES ASSUME FilterInv, LoadAllowlist PROVE FilterFollows'
  OBVIOUS
<1>1. /\ at = "loadAllowlist" /\ at' = "filter"
      /\ allowlist' = Range(Strings(grantable)) /\ left' = requested
      /\ UNCHANGED <<requiredPermissions, grantable, requested, kept, dropped, seen>>
      /\ requested \in Seq(Group) /\ kept = << >> /\ dropped = << >> /\ seen = {}
  BY DEF LoadAllowlist, input, FilterInv, IInv, TypeOK, FilterFollows
<1>2. Looked' = 0
  BY <1>1 DEF Looked
<1>3. \A S : PlacesUpTo(requested, 0, S) = {}
  BY <1>1 DEF PlacesUpTo, FirstPlaces
<1>4. UNCHANGED <<MayBeGranted, NotGranted>>
  BY <1>1 DEF MayBeGranted, NotGranted
<1>5. Selects(<< >>, requested, {})
  BY SelectsNothing
<1>6. KeptSoFar' /\ DroppedSoFar'
  BY <1>1, <1>2, <1>3, <1>4, <1>5 DEF KeptSoFar, DroppedSoFar
<1>7. \A i \in 1 .. Len(left') : left'[i] = requested'[Looked' + i]
  BY <1>1, <1>2
<1>8. seen' = {requested'[j] : j \in 1 .. Looked'}
  BY <1>1, <1>2
<1>9. Len(left') <= Len(requested')
  BY <1>1
<1>10. QED
  BY <1>1, <1>6, <1>7, <1>8, <1>9 DEF FilterInv, FilterFollows

\* An iteration that looks at a request for the first time selects it, one that does not, nothing.
LEMMA LookSelects ==
    ASSUME NEW S, NEW n \in Nat, NEW seq \in Seq(Group), n + 1 \in DOMAIN seq, NEW picked \in Seq(Group),
           Selects(picked, seq, PlacesUpTo(seq, n, S))
    PROVE  /\ seq[n + 1] \in S /\ (\A j \in 1 .. n : seq[j] # seq[n + 1]) =>
                  Selects(Append(picked, seq[n + 1]), seq, PlacesUpTo(seq, n + 1, S))
           /\ ~(seq[n + 1] \in S /\ (\A j \in 1 .. n : seq[j] # seq[n + 1])) =>
                  Selects(picked, seq, PlacesUpTo(seq, n + 1, S))
<1>1. DOMAIN seq \subseteq Nat
  OBVIOUS
<1>2. PlacesUpTo(seq, n, S) \in SUBSET (1 .. n)
  BY <1>1 DEF PlacesUpTo, FirstPlaces
<1>3. \A k \in DOMAIN seq : k <= n + 1 <=> k <= n \/ k = n + 1
  BY <1>1
<1>4. n + 1 \in FirstPlaces(seq, S) <=> seq[n + 1] \in S /\ \A j \in 1 .. n : seq[j] # seq[n + 1]
  BY DEF FirstPlaces
<1>5. FirstPlaces(seq, S) \subseteq DOMAIN seq
  BY DEF FirstPlaces
<1>6. PlacesUpTo(seq, n + 1, S) =
          PlacesUpTo(seq, n, S) \cup IF n + 1 \in FirstPlaces(seq, S) THEN {n + 1} ELSE {}
  BY <1>3, <1>5 DEF PlacesUpTo
<1>7. seq[n + 1] \in Group
  OBVIOUS
<1>8. CASE n + 1 \in FirstPlaces(seq, S)
  <2>1. Selects(Append(picked, seq[n + 1]), seq, PlacesUpTo(seq, n, S) \cup {n + 1})
    BY <1>2, <1>7, SelectsOneMore
  <2>2. QED
    BY <1>4, <1>6, <1>8, <2>1
<1>9. CASE n + 1 \notin FirstPlaces(seq, S)
  BY <1>4, <1>6, <1>9
<1>10. QED
  BY <1>8, <1>9

LEMMA FilterKeepsFilter == FilterInv /\ Filter => FilterFollows'
<1> SUFFICES ASSUME FilterInv, Filter PROVE FilterFollows'
  OBVIOUS
<1>1. /\ at = "filter" /\ at' = "filter" /\ left # << >> /\ left' = Tail(left)
      /\ UNCHANGED <<requiredPermissions, grantable, requested, allowlist>>
      /\ requested \in Seq(Group) /\ left \in Seq(Group) /\ kept \in Seq(Group) /\ dropped \in Seq(Group)
  BY DEF Filter, input, FilterInv, IInv, TypeOK
<1>2. /\ Len(left) \in Nat \ {0} /\ Len(requested) \in Nat
      /\ Len(Tail(left)) = Len(left) - 1
      /\ \A i \in 1 .. (Len(left) - 1) : Tail(left)[i] = left[i + 1]
      /\ Head(left) = left[1] /\ Head(left) \in Group
  BY <1>1
<1>3. /\ Len(left) <= Len(requested)
      /\ \A i \in 1 .. Len(left) : left[i] = requested[Looked + i]
      /\ seen = {requested[j] : j \in 1 .. Looked}
      /\ allowlist = Range(Strings(grantable))
      /\ KeptSoFar /\ DroppedSoFar
  BY <1>1 DEF FilterInv, FilterFollows
<1>4. /\ Looked \in Nat /\ Looked' = Looked + 1 /\ Looked + 1 \in 1 .. Len(requested)
      /\ Looked + Len(left) = Len(requested)
  BY <1>1, <1>2, <1>3 DEF Looked
<1> DEFINE n     == Looked
           group == Head(left)
<1>5. group = requested[n + 1] /\ n + 1 \in DOMAIN requested
  BY <1>1, <1>2, <1>3, <1>4
<1>6. seen' = {requested[j] : j \in 1 .. Looked'}
  <2>1. seen' = seen \cup {group}
    BY DEF Filter, Look
  <2>2. 1 .. (n + 1) = (1 .. n) \cup {n + 1}
    BY <1>4
  <2>3. QED
    BY <1>3, <1>4, <1>5, <2>1, <2>2
<1>7. \A i \in 1 .. Len(left') : left'[i] = requested'[Looked' + i]
  <2>1. ASSUME NEW i \in 1 .. (Len(left) - 1) PROVE Tail(left)[i] = requested[(n + 1) + i]
    <3>1. i + 1 \in 1 .. Len(left)
      BY <1>2
    <3>2. left[i + 1] = requested[n + (i + 1)]
      BY <1>3, <3>1
    <3>3. n + (i + 1) = (n + 1) + i
      BY <1>4
    <3>4. QED
      BY <1>2, <3>2, <3>3
  <2>2. QED
    BY <1>1, <1>2, <1>4, <2>1
<1>8. group \in MayBeGranted <=> Keeps(group)
  BY <1>3 DEF MayBeGranted, Keeps, Strings, Range
<1>9. group \in NotGranted <=> ~Keeps(group)
  <2>1. group \in Range(requested)
    BY <1>5 DEF Range
  <2>2. QED
    BY <1>8, <2>1 DEF NotGranted
<1>10. group \in seen <=> ~ \A j \in 1 .. n : requested[j] # requested[n + 1]
  BY <1>3, <1>5
<1>11. UNCHANGED <<MayBeGranted, NotGranted>>
  BY <1>1 DEF MayBeGranted, NotGranted
<1>12. KeptSoFar'
  <2>1. Selects(kept, requested, PlacesUpTo(requested, n, MayBeGranted))
    BY <1>3 DEF KeptSoFar
  <2>2. /\ Keeps(group) /\ group \notin seen => kept' = Append(kept, group)
        /\ ~(Keeps(group) /\ group \notin seen) => kept' = kept
    BY DEF Filter, Look
  <2>3. Selects(kept', requested, PlacesUpTo(requested, n + 1, MayBeGranted))
    BY <1>1, <1>4, <1>5, <1>8, <1>10, <2>1, <2>2, LookSelects
  <2>4. QED
    BY <1>1, <1>4, <1>11, <2>3 DEF KeptSoFar
<1>13. DroppedSoFar'
  <2>1. Selects(dropped, requested, PlacesUpTo(requested, n, NotGranted))
    BY <1>3 DEF DroppedSoFar
  <2>2. /\ ~Keeps(group) /\ group \notin seen => dropped' = Append(dropped, group)
        /\ ~(~Keeps(group) /\ group \notin seen) => dropped' = dropped
    BY DEF Filter, Look
  <2>3. Selects(dropped', requested, PlacesUpTo(requested, n + 1, NotGranted))
    BY <1>1, <1>4, <1>5, <1>9, <1>10, <2>1, <2>2, LookSelects
  <2>4. QED
    BY <1>1, <1>4, <1>11, <2>3 DEF DroppedSoFar
<1>14. Len(left') <= Len(requested')
  BY <1>1, <1>2, <1>3
<1>15. allowlist' = Range(Strings(grantable))'
  BY <1>1, <1>3
<1>16. QED
  BY <1>1, <1>6, <1>7, <1>12, <1>13, <1>14, <1>15 DEF FilterInv, FilterFollows

\* At the end of the loop every request has been looked at.
LEMMA GrantedKeepsFilter == FilterInv /\ GrantedGroups => FilterFollows'
<1> SUFFICES ASSUME FilterInv, GrantedGroups PROVE FilterFollows'
  OBVIOUS
<1>1. /\ at = "filter" /\ at' = "append" /\ left = << >>
      /\ groups' = IF kept = << >> THEN <<Public>> ELSE kept
      /\ UNCHANGED <<requiredPermissions, grantable, requested, kept, dropped>>
      /\ requested \in Seq(Group)
  BY DEF GrantedGroups, input, loop, FilterInv, IInv, TypeOK
<1>2. Looked = Len(requested)
  BY <1>1 DEF Looked
<1>3. \A S : PlacesUpTo(requested, Looked, S) = FirstPlaces(requested, S)
  BY <1>1, <1>2 DEF PlacesUpTo, FirstPlaces
<1>4. KeptSoFar /\ DroppedSoFar
  BY <1>1 DEF FilterInv, FilterFollows
<1>5. /\ Selects(kept, requested, FirstPlaces(requested, MayBeGranted))
      /\ Selects(dropped, requested, FirstPlaces(requested, NotGranted))
  BY <1>3, <1>4 DEF KeptSoFar, DroppedSoFar
<1>6. IsSelection(kept, requested, MayBeGranted) /\ IsSelection(dropped, requested, NotGranted)
  BY <1>5 DEF Selects, IsSelection
<1>7. UNCHANGED <<MayBeGranted, NotGranted>>
  BY <1>1 DEF MayBeGranted, NotGranted
<1>8. /\ IsSelection(kept', requested', MayBeGranted')
      /\ IsSelection(dropped', requested', NotGranted')
  BY <1>1, <1>6, <1>7
<1>9. QED
  BY <1>1, <1>8 DEF FilterInv, FilterFollows

\* The groups the daemon gives by itself come behind the others.
LEMMA AppendKeepsFilter == FilterInv /\ AppendOwn => FilterFollows'
<1> SUFFICES ASSUME FilterInv, AppendOwn PROVE FilterFollows'
  OBVIOUS
<1>1. /\ at = "append" /\ at' = "done" /\ groups' = groups \o OwnGroups
      /\ UNCHANGED <<requiredPermissions, grantable, isQml, services, requested, kept, dropped>>
  BY DEF AppendOwn, input, loop
<1>2. UNCHANGED <<MayBeGranted, NotGranted, OwnGroups>>
  BY <1>1 DEF MayBeGranted, NotGranted, OwnGroups
<1>3. AllStrings(requiredPermissions) =>
          /\ IsSelection(kept, requested, MayBeGranted)
          /\ IsSelection(dropped, requested, NotGranted)
          /\ groups = IF kept = << >> THEN <<Public>> ELSE kept
          /\ requested = requiredPermissions.items
  BY <1>1 DEF FilterInv, FilterFollows
<1>4. AllStrings(requiredPermissions') =>
          /\ IsSelection(kept', requested', MayBeGranted')
          /\ IsSelection(dropped', requested', NotGranted')
          /\ groups' = (IF kept' = << >> THEN <<Public>> ELSE kept') \o OwnGroups'
          /\ requested' = requiredPermissions'.items
  BY <1>1, <1>2, <1>3
<1>5. QED
  BY <1>1, <1>4 DEF FilterFollows

LEMMA NextFilterInv == FilterInv /\ [Next]_vars => FilterInv'
<1>1. FilterInv /\ [Next]_vars => IInv'
  BY NextIInv DEF FilterInv
<1>2. FilterInv /\ UNCHANGED vars => FilterFollows'
  <2> SUFFICES ASSUME FilterInv, UNCHANGED vars PROVE FilterFollows'
    OBVIOUS
  <2>1. UNCHANGED <<at, requiredPermissions, grantable, requested, allowlist, left, seen, kept, dropped, groups>>
    BY DEF vars, input, loop
  <2>2. UNCHANGED <<MayBeGranted, OwnGroups>>
    BY DEF MayBeGranted, OwnGroups, vars, input
  <2>3. UNCHANGED <<NotGranted, Looked>>
    BY <2>1, <2>2 DEF NotGranted, Looked
  <2>4. (KeptSoFar => KeptSoFar') /\ (DroppedSoFar => DroppedSoFar')
    BY <2>1, <2>2, <2>3 DEF KeptSoFar, DroppedSoFar
  <2>5. QED
    BY <2>1, <2>2, <2>3, <2>4 DEF FilterInv, FilterFollows
<1>3. QED
  BY <1>1, <1>2, RequestedKeepsFilter, LoadKeepsFilter, FilterKeepsFilter, GrantedKeepsFilter,
     AppendKeepsFilter DEF Next, FilterInv

(***************************************************************************)
(* Whatever the two files hold: an app gets what it asked for and may      *)
(* have, in its own order and once, then the groups the daemon gives by    *)
(* itself, and is told of every other group it asked for.                  *)
(***************************************************************************)
THEOREM FilterIsRight == Spec => []FilterIsReference
BY InitFilterInv, NextFilterInv, FilterInvImplies, PTL DEF Spec

---------------------------------------------------------------------------
(* The files of the services and the permissions of their app.             *)

IsSequence(s) == \E T : s \in Seq(T)

\* The file has all methods of the service in the group that is named after it.
HasAllIn(file, id) ==
    /\ GroupNameForService(id) \in DOMAIN file
    /\ file[GroupNameForService(id)] = Methods(id, {"*"})

LEMMA OldSchemaHasAll ==
    ASSUME NEW service
    PROVE  HasAllIn(APIPermissionsOldSchema(service), service.id)
<1>1. GroupNameForService(service.id) # ApplicationinstallInterface
  BY DEF GroupNameForService, ApplicationinstallInterface
<1>2. QED
  BY <1>1 DEF HasAllIn, APIPermissionsOldSchema

\* The files there are, and where the function about the app has got.
FilesFollow ==
    /\ package \in Packages /\ services = Directories(package.services)
    /\ generated \in 0 .. Len(package.services)
    /\ at # "requestedGroups" => generated = Len(package.services)
    /\ IsSequence(apiFiles) /\ IsSequence(groupFiles)
    /\ Len(apiFiles) = generated /\ Len(groupFiles) = generated
    /\ \A k \in 1 .. generated :
           /\ ~package.services[k].hasSchemaVersion => HasAllIn(apiFiles[k], package.services[k].id)
           /\ groupFiles[k] = GroupFile(package.services[k])

\* Each service of the package has its group written.
ServicesGranted ==
    at = "done" => \A k \in DOMAIN services : GroupNameForService(services[k]) \in Range(groups)

\* The app's own function runs as in PermissionFilter.
LEMMA FilesAroundFilter ==
    /\ SInit => Init
    /\ [SNext]_<<vars, filesVars>> => [Next]_vars
BY DEF SInit, SNext, GenerateFilesForService, GeneratePermissionFile

LEMMA InitFiles == SInit => FilesFollow /\ ServicesGranted
<1> SUFFICES ASSUME SInit PROVE FilesFollow /\ ServicesGranted
  OBVIOUS
<1>1. Len(package.services) \in Nat
  BY PackageAssumption DEF SInit, Package
<1>2. << >> \in Seq({}) /\ Len(<< >>) = 0
  OBVIOUS
<1>3. FilesFollow
  <2>1. IsSequence(<< >>)
    BY <1>2 DEF IsSequence
  <2>2. QED
    BY <1>1, <1>2, <2>1 DEF SInit, Init, FilesFollow
<1>4. ServicesGranted
  BY DEF SInit, Init, ServicesGranted
<1>5. QED
  BY <1>3, <1>4

LEMMA NextFiles == FilesFollow /\ [SNext]_<<vars, filesVars>> => FilesFollow'
<1> SUFFICES ASSUME FilesFollow, [SNext]_<<vars, filesVars>> PROVE FilesFollow'
  OBVIOUS
<1>1. Len(package.services) \in Nat
  BY PackageAssumption DEF FilesFollow, Package
<1>2. CASE UNCHANGED <<vars, filesVars>>
  BY <1>2 DEF FilesFollow, vars, input, filesVars
<1>3. CASE GeneratePermissionFile
  <2>1. generated = Len(package.services) /\ UNCHANGED <<package, generated, apiFiles, groupFiles, services>>
    BY <1>3 DEF GeneratePermissionFile, filesVars, Next, RequestedGroups, LoadAllowlist, Filter, GrantedGroups,
       AppendOwn, input
  <2>2. QED
    BY <2>1 DEF FilesFollow
<1>4. CASE GenerateFilesForService
  <2> DEFINE service == package.services[generated + 1]
  <2>1. /\ generated < Len(package.services) /\ generated' = generated + 1
        /\ apiFiles' = Append(apiFiles, APIPermissionsFile(service))
        /\ groupFiles' = Append(groupFiles, GroupFile(service))
        /\ UNCHANGED <<package, services, at>>
    BY <1>4 DEF GenerateFilesForService, vars, input
  <2>2. PICK F, G : apiFiles \in Seq(F) /\ groupFiles \in Seq(G)
    BY DEF FilesFollow, IsSequence
  <2> DEFINE api == APIPermissionsFile(service)
             grp == GroupFile(service)
             F2  == F \cup {api}
             G2  == G \cup {grp}
  <2> HIDE DEF api, grp
  <2>3. apiFiles \in Seq(F2) /\ groupFiles \in Seq(G2) /\ api \in F2 /\ grp \in G2
    BY <2>2
  <2> HIDE DEF F2, G2
  <2>4. /\ Append(apiFiles, api) \in Seq(F2) /\ Append(groupFiles, grp) \in Seq(G2)
        /\ Len(Append(apiFiles, api)) = Len(apiFiles) + 1
        /\ Len(Append(groupFiles, grp)) = Len(groupFiles) + 1
        /\ \A k \in 1 .. Len(apiFiles) : Append(apiFiles, api)[k] = apiFiles[k]
        /\ \A k \in 1 .. Len(groupFiles) : Append(groupFiles, grp)[k] = groupFiles[k]
        /\ Append(apiFiles, api)[Len(apiFiles) + 1] = api
        /\ Append(groupFiles, grp)[Len(groupFiles) + 1] = grp
    BY <2>3
  <2>5. apiFiles' = Append(apiFiles, api) /\ groupFiles' = Append(groupFiles, grp)
    BY <2>1 DEF api, grp
  <2>6. /\ generated \in Nat /\ Len(apiFiles) = generated /\ Len(groupFiles) = generated
        /\ \A k \in 1 .. generated :
               /\ ~package.services[k].hasSchemaVersion => HasAllIn(apiFiles[k], package.services[k].id)
               /\ groupFiles[k] = GroupFile(package.services[k])
    BY <1>1 DEF FilesFollow
  <2>7. ASSUME NEW k \in 1 .. (generated + 1)
        PROVE  /\ ~package.services[k].hasSchemaVersion => HasAllIn(apiFiles'[k], package.services[k].id)
               /\ groupFiles'[k] = GroupFile(package.services[k])
    <3>1. CASE k \in 1 .. generated
      BY <2>4, <2>5, <2>6, <3>1
    <3>2. CASE k = generated + 1
      BY <2>4, <2>5, <2>6, <3>2, OldSchemaHasAll DEF api, grp, APIPermissionsFile
    <3>3. QED
      BY <2>6, <3>1, <3>2
  <2>8. generated + 1 \in 0 .. Len(package.services)
    BY <1>1, <2>1, <2>6
  <2>9. at = "requestedGroups"
    BY <1>1, <2>1, <2>6 DEF FilesFollow
  <2>10. Len(apiFiles') = generated' /\ Len(groupFiles') = generated'
    BY <2>1, <2>4, <2>5, <2>6
  <2>11. apiFiles' \in Seq(F2) /\ groupFiles' \in Seq(G2)
    BY <2>4, <2>5
  <2>12. IsSequence(apiFiles') /\ IsSequence(groupFiles')
    BY <2>11 DEF IsSequence
  <2>13. QED
    BY <2>1, <2>7, <2>8, <2>9, <2>10, <2>12 DEF FilesFollow
<1>5. QED
  BY <1>2, <1>3, <1>4 DEF SNext

\* A concatenation has what its first part has and what its second part has.
LEMMA ConcatHasBoth ==
    ASSUME NEW T, NEW s \in Seq(T), NEW t \in Seq(T)
    PROVE  Range(s) \subseteq Range(s \o t) /\ Range(t) \subseteq Range(s \o t)
<1> DEFINE c == s \o t
<1>1. /\ c \in Seq(T) /\ Len(c) = Len(s) + Len(t)
      /\ \A i \in 1 .. Len(s) + Len(t) : c[i] = IF i <= Len(s) THEN s[i] ELSE t[i - Len(s)]
  BY ConcatProperties
<1> HIDE DEF c
<1>2. DOMAIN c = 1 .. (Len(s) + Len(t)) /\ DOMAIN s = 1 .. Len(s) /\ DOMAIN t = 1 .. Len(t)
      /\ Len(s) \in Nat /\ Len(t) \in Nat
  BY <1>1
<1>3. ASSUME NEW i \in DOMAIN s PROVE s[i] \in Range(c)
  <2>1. i \in DOMAIN c /\ c[i] = s[i]
    BY <1>1, <1>2
  <2>2. QED
    BY <2>1 DEF Range
<1>4. ASSUME NEW i \in DOMAIN t PROVE t[i] \in Range(c)
  <2>1. Len(s) + i \in DOMAIN c /\ c[Len(s) + i] = t[i]
    BY <1>1, <1>2
  <2>2. QED
    BY <2>1 DEF Range
<1>5. Range(s) \subseteq Range(c) /\ Range(t) \subseteq Range(c)
  BY <1>3, <1>4 DEF Range
<1>6. QED
  BY <1>5 DEF c

LEMMA ServicesInOwnGroups ==
    ASSUME TypeOK
    PROVE  \A k \in DOMAIN services : GroupNameForService(services[k]) \in Range(OwnGroups)
<1> DEFINE names == [k \in DOMAIN services |-> GroupNameForService(services[k])]
           first == IF isQml THEN <<ApplicationOperation>> ELSE << >>
<1>1. services \in Seq(Token)
  BY JsonAssumption DEF TypeOK
<1>2. \A k \in DOMAIN services : GroupNameForService(services[k]) \in Group
  BY <1>1, ServiceNameIsGroup
<1>3. names \in Seq(Group)
  BY <1>1, <1>2
<1>4. first \in Seq(Group)
  BY NamesAreGroups
<1>5. ASSUME NEW k \in DOMAIN services PROVE GroupNameForService(services[k]) \in Range(names)
  <2>1. k \in DOMAIN names /\ names[k] = GroupNameForService(services[k])
    OBVIOUS
  <2>2. QED
    BY <2>1 DEF Range
<1>6. OwnGroups = first \o names
  BY DEF OwnGroups
<1> HIDE DEF names, first
<1>7. Range(names) \subseteq Range(OwnGroups)
  BY <1>3, <1>4, <1>6, ConcatHasBoth
<1>8. QED
  BY <1>5, <1>7

LEMMA NextGranted ==
    ASSUME TypeOK, ServicesGranted, [SNext]_<<vars, filesVars>>
    PROVE  ServicesGranted'
<1>1. CASE UNCHANGED vars
  BY <1>1 DEF ServicesGranted, vars, input
<1>2. CASE AppendOwn
  <2>1. OwnGroups \in Seq(Group) /\ groups \in Seq(Group)
    BY OwnGroupsAreGroups DEF TypeOK
  <2>2. groups' = groups \o OwnGroups /\ UNCHANGED services
    BY <1>2 DEF AppendOwn, input
  <2>3. Range(OwnGroups) \subseteq Range(groups')
    BY <2>1, <2>2, ConcatHasBoth
  <2>4. QED
    BY <2>2, <2>3, ServicesInOwnGroups DEF ServicesGranted
<1>3. CASE RequestedGroups \/ LoadAllowlist \/ Filter \/ GrantedGroups
  <2>1. at' # "done"
    BY <1>3 DEF RequestedGroups, LoadAllowlist, Filter, GrantedGroups
  <2>2. QED
    BY <2>1 DEF ServicesGranted
<1>4. QED
  BY <1>1, <1>2, <1>3, FilesAroundFilter DEF Next

\* The group the app gets for a service of the old schema is the one its files are about.
LEMMA FilesMeet ==
    ASSUME TypeOK, FilesFollow, ServicesGranted
    PROVE  OwnAppMayCall
<1> SUFFICES ASSUME at = "done",
                    NEW k \in DOMAIN package.services,
                    ~package.services[k].hasSchemaVersion,
                    package.services[k].id = package.services[k].directory,
                    NEW command
             PROVE  MayCall(Range(groups), k, command)
  BY DEF OwnAppMayCall
<1> DEFINE id    == package.services[k].id
           group == GroupNameForService(id)
<1>1. package.services \in Seq(ServiceInfo)
  BY PackageAssumption DEF FilesFollow, Package
<1>2. generated = Len(package.services) /\ k \in 1 .. generated
  BY <1>1 DEF FilesFollow
<1>3. /\ group \in DOMAIN apiFiles[k] /\ apiFiles[k][group] = {<<id, "*">>}
  BY <1>2 DEF FilesFollow, HasAllIn, Methods
<1>4. group \in DOMAIN groupFiles[k] /\ groupFiles[k][group] = RoleTrustLevel
  <2>1. groupFiles[k] = GroupFile(package.services[k])
    BY <1>2 DEF FilesFollow
  <2>2. GroupNames(package.services[k]) = {group}
    BY DEF GroupNames
  <2>3. QED
    BY <2>1, <2>2 DEF GroupFile, GroupTrustLevel, RoleTrustLevel
<1>5. services[k] = id /\ k \in DOMAIN services
  BY DEF FilesFollow, Directories
<1>6. group \in Range(groups)
  BY <1>5 DEF ServicesGranted
<1>7. \E m \in apiFiles[k][group] : m[2] \in {command, "*"}
  BY <1>3
<1>8. QED
  BY <1>3, <1>4, <1>6, <1>7 DEF MayCall

(***************************************************************************)
(* Whatever package is installed: its app may call every command of its    *)
(* services of the old schema, because the group written into the app's    *)
(* permissions is the one the two files of the service are about.          *)
(***************************************************************************)
THEOREM AppReachesServices == SSpec => []OwnAppMayCall
<1>1. SInit => IInv /\ FilesFollow /\ ServicesGranted
  BY FilesAroundFilter, InitIInv, InitFiles
<1>2. IInv /\ FilesFollow /\ ServicesGranted /\ [SNext]_<<vars, filesVars>>
          => (IInv /\ FilesFollow /\ ServicesGranted)'
  BY FilesAroundFilter, NextIInv, NextFiles, NextGranted DEF IInv
<1>3. IInv /\ FilesFollow /\ ServicesGranted => OwnAppMayCall
  BY FilesMeet DEF IInv
<1>4. QED
  BY <1>1, <1>2, <1>3, PTL DEF SSpec

(***************************************************************************)
(* And the permissions of the app hold as before, with the files of the    *)
(* services written first.                                                 *)
(***************************************************************************)
THEOREM FilterHoldsWithFiles == SSpec => [](GrantsAreGrantable /\ FilterIsReference)
<1>1. SSpec => Spec
  BY FilesAroundFilter, PTL DEF SSpec, Spec
<1>2. QED
  BY <1>1, GrantsAreSafe, FilterIsRight, PTL

=============================================================================
