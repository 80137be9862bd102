------------------------- MODULE AuthEndpointsProofs -------------------------
(***************************************************************************)
(* Proofs about AuthEndpoints, for any plugins, methods, fields, ids and   *)
(* old keys.  Everything follows from what a backend call makes of the     *)
(* state file: Sound says what holds of every state that is written,       *)
(* Follows what such a state keeps of the one before it.                   *)
(***************************************************************************)
EXTENDS AuthEndpoints, FiniteSetTheorems, TLAPS

Sound(st, store) == st \in States /\ KeysSound(st) /\ RefsHeld(st, store)

Answers == [op : {"quiet", "remove", "not stored", "unkeyed"}, id : Ids \cup {None}]

\* What a call may say that has written the file.
Written == [op : {"quiet", "remove"}, id : Ids \cup {None}]

Ind ==
    /\ Sound(file, secrets)
    /\ named \in [Plugins -> Names]
    /\ secrets \subseteq Names \X Fields
    /\ last \in Answers

\* The records in e carry every history on, but for that of the keys in gone.
Carries(e, gone) ==
    \A k \in DOMAIN file.endpoints :
       file.endpoints[k].health =>
          \/ \E j \in DOMAIN e :
                /\ j = k \/ (k \notin DOMAIN e /\ j \notin DOMAIN file.endpoints)
                /\ e[j].id = file.endpoints[k].id
                /\ e[j].health
          \/ k \in gone

\* st follows the state in the file by a call that removes the endpoints in gone.
Follows(st, gone) ==
    /\ Listed(file) \subseteq Listed(st) \cup gone
    /\ Carries(st.endpoints, gone)
    /\ \A p \in Plugins :
          \/ st.wired[p] \in Listed(st) \cup {None} \cup gone
          \/ st.wired[p] = file.wired[p] /\ file.wired[p] \notin Listed(file)

Removed == IF last'.op = "remove" THEN {last'.id} ELSE {}

\* What every step does.
Good ==
    /\ Ind'
    /\ \/ file' = EmptyState
       \/ Follows(file', Removed)
    /\ ListedIsFound'
-----------------------------------------------------------------------------
(***************************************************************************)
(* Types of what a state is made of.                                       *)
(***************************************************************************)
\* A state is the record of its four fields.
LEMMA StateFields ==
    ASSUME NEW st \in States
    PROVE  /\ st = [plugins |-> st.plugins, auth |-> st.auth, wired |-> st.wired,
                    endpoints |-> st.endpoints]
           /\ st.plugins \in [Plugins -> {"absent", "enabled", "disabled"}]
           /\ st.auth \in [Plugins -> [Methods \cup {Default} -> AuthStates \cup {None}]]
           /\ st.wired \in [Plugins -> Ids \cup {None}]
           /\ DOMAIN st.endpoints \subseteq Ids \cup OldKeys
           /\ st.endpoints \in [DOMAIN st.endpoints -> Records]
  BY DEF States

\* Four fields of the right types make a state.
LEMMA StateMade ==
    ASSUME NEW plugins \in [Plugins -> {"absent", "enabled", "disabled"}],
           NEW auth \in [Plugins -> [Methods \cup {Default} -> AuthStates \cup {None}]],
           NEW wired \in [Plugins -> Ids \cup {None}],
           NEW keys \in SUBSET (Ids \cup OldKeys),
           NEW endpoints \in [keys -> Records]
    PROVE  [plugins |-> plugins, auth |-> auth, wired |-> wired,
            endpoints |-> endpoints] \in States
  BY DEF States

\* What an empty file is read as is sound, and lists nothing.
LEMMA EmptySound ==
    ASSUME NEW store
    PROVE  Sound(EmptyState, store)
  <1>1. /\ EmptyState.endpoints = <<>>
        /\ EmptyState.auth = [p \in Plugins |-> [m \in Methods \cup {Default} |-> None]]
    BY DEF EmptyState
  <1>2. DOMAIN <<>> = {}
    OBVIOUS
  <1>3. <<>> \in [{} -> Records]
    OBVIOUS
  <1>4. EmptyState \in States
    BY <1>3, StateMade DEF EmptyState
  <1>5. KeysSound(EmptyState)
    BY <1>1, <1>2 DEF KeysSound
  <1>6. RefsHeld(EmptyState, store)
    BY <1>1 DEF RefsHeld
  <1> QED
    BY <1>4, <1>5, <1>6 DEF Sound

\* A store that only grew still holds what is referred to.
LEMMA StoreGrows ==
    ASSUME NEW st, NEW store, NEW larger, store \subseteq larger, Sound(st, store)
    PROVE  Sound(st, larger)
  BY DEF Sound, RefsHeld
-----------------------------------------------------------------------------
(***************************************************************************)
(* What the operators make of a state.                                     *)
(***************************************************************************)
\* The state in the file follows itself.
LEMMA SameFollows ==
    Follows(file, {})
  BY DEF Follows, Listed, Carries

\* Whether a state follows depends on its endpoints and its wiring.
LEMMA FollowsCongruent ==
    ASSUME NEW st, NEW new, NEW gone, Follows(st, gone),
           new.endpoints = st.endpoints, new.wired = st.wired
    PROVE  Follows(new, gone)
  BY DEF Follows, Listed, Carries

\* New endpoint records that keep what they have to keep make a sound state.
LEMMA EndpointsChanged ==
    ASSUME Ind,
           NEW keys \in SUBSET (Ids \cup OldKeys), NEW e \in [keys -> Records], NEW gone,
           \A k \in keys : e[k].id = IF k \in OldKeys THEN Normal[k] ELSE k,
           \A k \in DOMAIN file.endpoints :
              \/ file.endpoints[k].id \in gone
              \/ \E j \in keys : e[j].id = file.endpoints[k].id,
           Carries(e, gone)
    PROVE  /\ Sound([file EXCEPT !.endpoints = e], secrets)
           /\ Follows([file EXCEPT !.endpoints = e], gone)
  <1> DEFINE st == [file EXCEPT !.endpoints = e]
  <1>1. file \in States
    BY DEF Ind, Sound
  <1>2. /\ st = [plugins |-> file.plugins, auth |-> file.auth, wired |-> file.wired,
                 endpoints |-> e]
        /\ st.endpoints = e /\ st.wired = file.wired /\ st.auth = file.auth
    BY <1>1, StateFields
  <1>3. st \in States
    <2>1. /\ file.plugins \in [Plugins -> {"absent", "enabled", "disabled"}]
          /\ file.auth \in [Plugins -> [Methods \cup {Default} -> AuthStates \cup {None}]]
          /\ file.wired \in [Plugins -> Ids \cup {None}]
      BY <1>1, StateFields
    <2>2. [plugins |-> file.plugins, auth |-> file.auth, wired |-> file.wired,
           endpoints |-> e] \in States
      BY <2>1, StateMade
    <2> QED
      BY <1>2, <2>2
  <1>4. DOMAIN st.endpoints = keys
    BY <1>2
  <1>5. KeysSound(st)
    BY <1>2, <1>4 DEF KeysSound
  <1>6. RefsHeld(st, secrets)
    BY <1>2 DEF Ind, Sound, RefsHeld
  <1>7. Listed(file) \subseteq Listed(st) \cup gone
    BY <1>2, <1>4 DEF Listed
  <1>8. \A p \in Plugins : \/ st.wired[p] \in Listed(st) \cup {None} \cup gone
                           \/ st.wired[p] = file.wired[p] /\ file.wired[p] \notin Listed(file)
    BY <1>2, <1>7
  <1>9. Follows(st, gone)
    BY <1>2, <1>4, <1>7, <1>8 DEF Follows
  <1> QED
    BY <1>3, <1>5, <1>6, <1>9 DEF Sound

\* SavedRecord: the record is under its id, the others are left alone.
LEMMA SavedShape ==
    ASSUME Ind, NEW id \in Ids, NEW product \in Products
    PROVE  LET e == SavedRecord(file, id, product)
               keys == DOMAIN file.endpoints \cup {id}
           IN /\ keys \in SUBSET (Ids \cup OldKeys) /\ e \in [keys -> Records]
              /\ \A k \in keys : e[k].id = IF k \in OldKeys THEN Normal[k] ELSE k
              /\ \A k \in DOMAIN file.endpoints :
                    /\ e[k].id = file.endpoints[k].id
                    /\ file.endpoints[k].health => e[k].health
              /\ e[id].id = id
  <1> DEFINE e == SavedRecord(file, id, product)
             keys == DOMAIN file.endpoints \cup {id}
  <1>1. /\ DOMAIN file.endpoints \subseteq Ids \cup OldKeys
        /\ file.endpoints \in [DOMAIN file.endpoints -> Records]
    BY StateFields DEF Ind, Sound
  <1>2. \A k \in DOMAIN file.endpoints : file.endpoints[k] \in Records
    BY <1>1
  <1>3. id \notin OldKeys
    BY AuthEndpointsAssumption
  <1>4. (id \in DOMAIN file.endpoints /\ file.endpoints[id].health) \in BOOLEAN
    BY <1>2 DEF Records
  <1>5. Record(id, product, id \in DOMAIN file.endpoints /\ file.endpoints[id].health)
          \in Records
    BY <1>4 DEF Record, Records
  <1>6. /\ DOMAIN e = keys
        /\ e[id] = Record(id, product,
                          id \in DOMAIN file.endpoints /\ file.endpoints[id].health)
        /\ \A k \in keys : k # id => e[k] = file.endpoints[k]
    BY DEF SavedRecord
  <1>7. e \in [keys -> Records]
    BY <1>2, <1>5 DEF SavedRecord
  <1>8. e[id].id = id
    BY <1>6 DEF Record
  <1>9. id \in DOMAIN file.endpoints => e[id].health = file.endpoints[id].health
    BY <1>2, <1>6 DEF Record, Records
  <1>10. \A k \in DOMAIN file.endpoints :
            file.endpoints[k].id = IF k \in OldKeys THEN Normal[k] ELSE k
    BY DEF Ind, Sound, KeysSound
  <1>11. \A k \in keys : e[k].id = IF k \in OldKeys THEN Normal[k] ELSE k
    BY <1>3, <1>6, <1>8, <1>10
  <1>12. \A k \in DOMAIN file.endpoints :
            e[k].id = file.endpoints[k].id /\ (file.endpoints[k].health => e[k].health)
    BY <1>3, <1>6, <1>8, <1>9, <1>10
  <1> QED
    BY <1>1, <1>7, <1>8, <1>11, <1>12

\* SaveEndpoint writes a sound state that keeps the endpoints and their history.
LEMMA SavedSound ==
    ASSUME Ind, NEW id \in Ids, NEW product \in Products
    PROVE  LET st == [file EXCEPT !.endpoints = SavedRecord(file, id, product)]
           IN Sound(st, secrets) /\ Follows(st, {})
  <1> DEFINE e == SavedRecord(file, id, product)
             keys == DOMAIN file.endpoints \cup {id}
  <1>1. /\ keys \in SUBSET (Ids \cup OldKeys) /\ e \in [keys -> Records]
        /\ \A k \in keys : e[k].id = IF k \in OldKeys THEN Normal[k] ELSE k
        /\ \A k \in DOMAIN file.endpoints :
              /\ e[k].id = file.endpoints[k].id
              /\ file.endpoints[k].health => e[k].health
    BY SavedShape
  <1>2. \A k \in DOMAIN file.endpoints :
           file.endpoints[k].id \in {} \/ \E j \in keys : e[j].id = file.endpoints[k].id
    BY <1>1
  <1>5. Carries(e, {})
    <2> HIDE DEF e
    <2> QED
      BY <1>1 DEF Carries
  <1> HIDE DEF e, keys
  <1>3. Sound([file EXCEPT !.endpoints = e], secrets)
    BY <1>1, <1>2, <1>5, EndpointsChanged
  <1>4. Follows([file EXCEPT !.endpoints = e], {})
    BY <1>1, <1>2, <1>5, EndpointsChanged
  <1> QED
    BY <1>3, <1>4 DEF e

\* GetEndpoint moves a record to its own id, where no other was.
LEMMA RekeyedSound ==
    ASSUME Ind, NEW id \in Ids, NEW key \in DOMAIN file.endpoints,
           file.endpoints[key].id = id,
           \A k \in DOMAIN file.endpoints : file.endpoints[k].id = id => k # id
    PROVE  LET st == [file EXCEPT !.endpoints = Rekeyed(file, key, id)]
           IN Sound(st, secrets) /\ Follows(st, {})
  <1> DEFINE e == Rekeyed(file, key, id)
             keys == (DOMAIN file.endpoints \ {key}) \cup {id}
  <1>1. /\ DOMAIN file.endpoints \subseteq Ids \cup OldKeys
        /\ file.endpoints \in [DOMAIN file.endpoints -> Records]
    BY StateFields DEF Ind, Sound
  <1>2. \A k \in DOMAIN file.endpoints :
           file.endpoints[k].id = IF k \in OldKeys THEN Normal[k] ELSE k
    BY DEF Ind, Sound, KeysSound
  <1>3. id \notin OldKeys
    BY AuthEndpointsAssumption
  <1>4. id \notin DOMAIN file.endpoints
    BY <1>2, <1>3
  <1>5. /\ e \in [keys -> Records]
        /\ e[id] = file.endpoints[key]
        /\ \A k \in keys : k # id => e[k] = file.endpoints[k]
    <2>1. e = [k \in keys |-> IF k = id THEN file.endpoints[key] ELSE file.endpoints[k]]
      BY DEF Rekeyed
    <2>2. \A k \in DOMAIN file.endpoints : file.endpoints[k] \in Records
      BY <1>1
    <2> HIDE DEF e
    <2> QED
      BY <2>1, <2>2
  <1>6. \A k \in keys : e[k].id = IF k \in OldKeys THEN Normal[k] ELSE k
    BY <1>2, <1>3, <1>5
  <1>7. \A k \in DOMAIN file.endpoints :
           file.endpoints[k].id \in {} \/ \E j \in keys : e[j].id = file.endpoints[k].id
    <2> TAKE k \in DOMAIN file.endpoints
    <2>1. CASE k = key
      <3>1. id \in keys /\ e[id].id = file.endpoints[k].id
        BY <1>5, <2>1
      <3> QED
        BY <3>1
    <2>2. CASE k # key
      <3>1. k \in keys /\ e[k].id = file.endpoints[k].id
        BY <1>4, <1>5, <2>2
      <3> QED
        BY <3>1
    <2> QED
      BY <2>1, <2>2
  <1>8. Carries(e, {})
    <2> SUFFICES ASSUME NEW k \in DOMAIN file.endpoints, file.endpoints[k].health
                 PROVE  \E j \in DOMAIN e :
                           /\ j = k \/ (k \notin DOMAIN e /\ j \notin DOMAIN file.endpoints)
                           /\ e[j].id = file.endpoints[k].id
                           /\ e[j].health
      BY DEF Carries
    <2>0. DOMAIN e = keys
      BY <1>5
    <2> HIDE DEF e
    <2>1. CASE k = key
      <3>1. key \notin keys /\ id \in keys
        BY <1>4
      <3> QED
        BY <1>4, <1>5, <2>0, <2>1, <3>1
    <2>2. CASE k # key
      <3>1. k \in keys /\ e[k] = file.endpoints[k]
        BY <1>4, <1>5, <2>2
      <3> QED
        BY <2>0, <3>1
    <2> QED
      BY <2>1, <2>2
  <1>9. keys \in SUBSET (Ids \cup OldKeys)
    BY <1>1
  <1> HIDE DEF e, keys
  <1>10. Sound([file EXCEPT !.endpoints = e], secrets)
    BY <1>5, <1>6, <1>7, <1>8, <1>9, EndpointsChanged
  <1>11. Follows([file EXCEPT !.endpoints = e], {})
    BY <1>5, <1>6, <1>7, <1>8, <1>9, EndpointsChanged
  <1> QED
    BY <1>10, <1>11 DEF e

\* SaveEndpointHealth changes one record, which stays where it is.
LEMMA HealthSound ==
    ASSUME Ind, NEW id \in DOMAIN file.endpoints
    PROVE  LET st == [file EXCEPT !.endpoints[id].health = TRUE]
           IN Sound(st, secrets) /\ Follows(st, {})
  <1> DEFINE keys == DOMAIN file.endpoints
             e == [file.endpoints EXCEPT ![id].health = TRUE]
  <1>1. /\ keys \in SUBSET (Ids \cup OldKeys)
        /\ file.endpoints \in [keys -> Records]
        /\ file \in States
    BY StateFields DEF Ind, Sound
  <1>2. [file EXCEPT !.endpoints[id].health = TRUE] = [file EXCEPT !.endpoints = e]
    BY <1>1, StateFields
  <1>3. file.endpoints[id] \in Records
    BY <1>1
  <1>4. /\ [file.endpoints[id] EXCEPT !.health = TRUE] \in Records
        /\ [file.endpoints[id] EXCEPT !.health = TRUE].id = file.endpoints[id].id
        /\ [file.endpoints[id] EXCEPT !.health = TRUE].health
    BY <1>3 DEF Records
  <1>5. e \in [keys -> Records]
    BY <1>1, <1>4
  <1>6. \A k \in keys : /\ e[k].id = file.endpoints[k].id
                        /\ file.endpoints[k].health => e[k].health
    BY <1>1, <1>4
  <1>7. \A k \in keys : e[k].id = IF k \in OldKeys THEN Normal[k] ELSE k
    BY <1>6 DEF Ind, Sound, KeysSound
  <1>8. \A k \in DOMAIN file.endpoints :
           file.endpoints[k].id \in {} \/ \E j \in keys : e[j].id = file.endpoints[k].id
    BY <1>6
  <1>9. Carries(e, {})
    <2>1. DOMAIN e = keys
      OBVIOUS
    <2> HIDE DEF e
    <2> QED
      BY <1>6, <2>1 DEF Carries
  <1> HIDE DEF e, keys
  <1>10. Sound([file EXCEPT !.endpoints = e], secrets)
    BY <1>1, <1>5, <1>7, <1>8, <1>9, EndpointsChanged
  <1>11. Follows([file EXCEPT !.endpoints = e], {})
    BY <1>1, <1>5, <1>7, <1>8, <1>9, EndpointsChanged
  <1> QED
    BY <1>2, <1>10, <1>11

\* RemoveEndpoint drops the record under id, whose id it is.
LEMMA RemovedSound ==
    ASSUME Ind, NEW id \in Ids
    PROVE  LET st == [file EXCEPT !.endpoints =
                         [k \in DOMAIN file.endpoints \ {id} |-> file.endpoints[k]]]
           IN Sound(st, secrets) /\ Follows(st, {id})
  <1> DEFINE keys == DOMAIN file.endpoints \ {id}
             e == [k \in keys |-> file.endpoints[k]]
  <1>1. /\ DOMAIN file.endpoints \subseteq Ids \cup OldKeys
        /\ file.endpoints \in [DOMAIN file.endpoints -> Records]
    BY StateFields DEF Ind, Sound
  <1>2. \A k \in DOMAIN file.endpoints :
           file.endpoints[k].id = IF k \in OldKeys THEN Normal[k] ELSE k
    BY DEF Ind, Sound, KeysSound
  <1>3. e \in [keys -> Records] /\ \A k \in keys : e[k] = file.endpoints[k]
    BY <1>1
  <1>4. \A k \in keys : e[k].id = IF k \in OldKeys THEN Normal[k] ELSE k
    BY <1>2, <1>3
  <1>5. \A k \in DOMAIN file.endpoints :
           file.endpoints[k].id \in {id} \/ \E j \in keys : e[j].id = file.endpoints[k].id
    BY <1>2, <1>3, AuthEndpointsAssumption
  <1>6. Carries(e, {id})
    <2>1. DOMAIN e = keys
      OBVIOUS
    <2> HIDE DEF e
    <2> QED
      BY <1>3, <2>1 DEF Carries
  <1>7. keys \in SUBSET (Ids \cup OldKeys)
    BY <1>1
  <1>8. e = [k \in DOMAIN file.endpoints \ {id} |-> file.endpoints[k]]
    OBVIOUS
  <1> HIDE DEF e, keys
  <1>9. Sound([file EXCEPT !.endpoints = e], secrets)
    BY <1>3, <1>4, <1>5, <1>6, <1>7, EndpointsChanged
  <1>10. Follows([file EXCEPT !.endpoints = e], {id})
    BY <1>3, <1>4, <1>5, <1>6, <1>7, EndpointsChanged
  <1> QED
    BY <1>8, <1>9, <1>10

\* A state with the same endpoints is sound if its auth states are.
LEMMA OthersChanged ==
    ASSUME NEW store, NEW st, Sound(st, store),
           NEW plugins \in [Plugins -> {"absent", "enabled", "disabled"}],
           NEW auth \in [Plugins -> [Methods \cup {Default} -> AuthStates \cup {None}]],
           NEW wired \in [Plugins -> Ids \cup {None}],
           \A p \in Plugins, m \in Methods \cup {Default} :
              auth[p][m] # None => \A f \in auth[p][m].refs : <<named[p], f>> \in store
    PROVE  Sound([plugins |-> plugins, auth |-> auth, wired |-> wired,
                  endpoints |-> st.endpoints], store)
  <1> DEFINE new == [plugins |-> plugins, auth |-> auth, wired |-> wired,
                     endpoints |-> st.endpoints]
  <1>1. /\ DOMAIN st.endpoints \subseteq Ids \cup OldKeys
        /\ st.endpoints \in [DOMAIN st.endpoints -> Records]
    BY StateFields DEF Sound
  <1>2. new \in States
    BY <1>1, StateMade
  <1>3. KeysSound(new)
    BY DEF Sound, KeysSound
  <1>4. RefsHeld(new, store)
    BY DEF RefsHeld
  <1> QED
    BY <1>2, <1>3, <1>4 DEF Sound

\* upsertAuth and removeAuth record an auth state whose references the store holds.
LEMMA RecordedSound ==
    ASSUME NEW store, NEW st, Sound(st, store),
           NEW p \in Plugins, NEW m \in Methods \cup {Default},
           NEW auth \in AuthStates \cup {None},
           auth # None => \A f \in auth.refs : <<named[p], f>> \in store
    PROVE  /\ Sound(Recorded(st, p, m, auth), store)
           /\ Recorded(st, p, m, auth).endpoints = st.endpoints
           /\ Recorded(st, p, m, auth).wired = st.wired
  <1> DEFINE all == [st.auth EXCEPT ![p][m] = auth]
  <1>1. /\ st = [plugins |-> st.plugins, auth |-> st.auth, wired |-> st.wired,
                 endpoints |-> st.endpoints]
        /\ st.plugins \in [Plugins -> {"absent", "enabled", "disabled"}]
        /\ st.auth \in [Plugins -> [Methods \cup {Default} -> AuthStates \cup {None}]]
        /\ st.wired \in [Plugins -> Ids \cup {None}]
    BY StateFields DEF Sound
  <1>2. Recorded(st, p, m, auth) = [plugins |-> st.plugins, auth |-> all,
                                    wired |-> st.wired, endpoints |-> st.endpoints]
    BY <1>1 DEF Recorded
  <1>3. all \in [Plugins -> [Methods \cup {Default} -> AuthStates \cup {None}]]
    BY <1>1
  <1>4. \A q \in Plugins, n \in Methods \cup {Default} :
           all[q][n] = IF q = p /\ n = m THEN auth ELSE st.auth[q][n]
    BY <1>1
  <1>5. \A q \in Plugins, n \in Methods \cup {Default} :
           all[q][n] # None => \A f \in all[q][n].refs : <<named[q], f>> \in store
    BY <1>4 DEF Sound, RefsHeld
  <1> HIDE DEF all
  <1>6. Sound([plugins |-> st.plugins, auth |-> all, wired |-> st.wired,
               endpoints |-> st.endpoints], store)
    BY <1>1, <1>3, <1>5, OthersChanged
  <1> QED
    BY <1>2, <1>6

\* applyAuthEndpoints wires the instance to the endpoint it stores.
LEMMA AppliedSound ==
    ASSUME Ind, NEW p \in Plugins, NEW id \in Ids \cup {None}
    PROVE  Sound(Applied(file, p, id), secrets) /\ Follows(Applied(file, p, id), {})
  <1>1. CASE id = None
    BY <1>1, SameFollows DEF Applied, Ind
  <1>2. CASE id # None
    <2> DEFINE saved == [file EXCEPT !.endpoints = SavedRecord(file, id, p)]
               wired == [file.wired EXCEPT ![p] = id]
               new == [plugins |-> file.plugins, auth |-> file.auth, wired |-> wired,
                       endpoints |-> SavedRecord(file, id, p)]
    <2>1. id \in Ids /\ p \in Products
      BY <1>2, AuthEndpointsAssumption
    <2>2. /\ file = [plugins |-> file.plugins, auth |-> file.auth, wired |-> file.wired,
                     endpoints |-> file.endpoints]
          /\ file.plugins \in [Plugins -> {"absent", "enabled", "disabled"}]
          /\ file.auth \in [Plugins -> [Methods \cup {Default} -> AuthStates \cup {None}]]
          /\ file.wired \in [Plugins -> Ids \cup {None}]
      BY StateFields DEF Ind, Sound
    <2>3. Applied(file, p, id) = new
      BY <1>2, <2>2 DEF Applied
    <2>4. Sound(saved, secrets) /\ Follows(saved, {})
      BY <2>1, SavedSound
    <2>5. saved.endpoints = SavedRecord(file, id, p) /\ saved.wired = file.wired
      BY <2>2
    <2>6. id \in Listed(new)
      <3>1. /\ SavedRecord(file, id, p) \in [DOMAIN file.endpoints \cup {id} -> Records]
            /\ SavedRecord(file, id, p)[id].id = id
        BY <2>1, SavedShape
      <3> QED
        BY <3>1 DEF Listed
    <2>7. wired \in [Plugins -> Ids \cup {None}]
      BY <2>2
    <2>8. \A q \in Plugins, m \in Methods \cup {Default} :
             file.auth[q][m] # None => \A f \in file.auth[q][m].refs : <<named[q], f>> \in secrets
      BY DEF Ind, Sound, RefsHeld
    <2>9. Listed(new) = Listed(saved)
      BY <2>5 DEF Listed
    <2>10. \A q \in Plugins : wired[q] = IF q = p THEN id ELSE file.wired[q]
      BY <2>2
    <2>11. Follows(new, {})
      BY <2>4, <2>5, <2>6, <2>9, <2>10 DEF Follows
    <2> HIDE DEF saved, wired
    <2>12. Sound(new, secrets)
      BY <2>2, <2>4, <2>5, <2>7, <2>8, OthersChanged
    <2> QED
      BY <2>3, <2>11, <2>12
  <1> QED
    BY <1>1, <1>2

\* InstallPlugin and SetPluginEnabled touch nothing but the plugin.
LEMMA PluginSound ==
    ASSUME Ind, NEW p \in Plugins, NEW to \in {"absent", "enabled", "disabled"}
    PROVE  LET st == [file EXCEPT !.plugins[p] = to]
           IN Sound(st, secrets) /\ Follows(st, {})
  <1> DEFINE st == [file EXCEPT !.plugins[p] = to]
             plugins == [file.plugins EXCEPT ![p] = to]
  <1>1. /\ file = [plugins |-> file.plugins, auth |-> file.auth, wired |-> file.wired,
                   endpoints |-> file.endpoints]
        /\ file.plugins \in [Plugins -> {"absent", "enabled", "disabled"}]
        /\ file.auth \in [Plugins -> [Methods \cup {Default} -> AuthStates \cup {None}]]
        /\ file.wired \in [Plugins -> Ids \cup {None}]
    BY StateFields DEF Ind, Sound
  <1>2. st = [plugins |-> plugins, auth |-> file.auth, wired |-> file.wired,
              endpoints |-> file.endpoints]
    BY <1>1
  <1>3. plugins \in [Plugins -> {"absent", "enabled", "disabled"}]
    BY <1>1
  <1>4. \A q \in Plugins, m \in Methods \cup {Default} :
           file.auth[q][m] # None => \A f \in file.auth[q][m].refs : <<named[q], f>> \in secrets
    BY DEF Ind, Sound, RefsHeld
  <1>5. Follows(st, {})
    BY <1>2, SameFollows, FollowsCongruent
  <1> HIDE DEF plugins
  <1>6. Sound([plugins |-> plugins, auth |-> file.auth, wired |-> file.wired,
               endpoints |-> file.endpoints], secrets)
    BY <1>1, <1>3, <1>4, OthersChanged DEF Ind
  <1> QED
    BY <1>2, <1>5, <1>6

\* RemovePlugin forgets the auth states and the wiring of the plugin.
LEMMA ForgottenSound ==
    ASSUME Ind, NEW p \in Plugins
    PROVE  LET st == [file EXCEPT !.plugins[p] = "absent",
                                  !.auth[p] = EmptyState.auth[p], !.wired[p] = None]
           IN Sound(st, secrets) /\ Follows(st, {})
  <1> DEFINE st == [file EXCEPT !.plugins[p] = "absent",
                                !.auth[p] = EmptyState.auth[p], !.wired[p] = None]
             none == [m \in Methods \cup {Default} |-> None]
             plugins == [file.plugins EXCEPT ![p] = "absent"]
             auth == [file.auth EXCEPT ![p] = none]
             wired == [file.wired EXCEPT ![p] = None]
  <1>1. /\ file = [plugins |-> file.plugins, auth |-> file.auth, wired |-> file.wired,
                   endpoints |-> file.endpoints]
        /\ file.plugins \in [Plugins -> {"absent", "enabled", "disabled"}]
        /\ file.auth \in [Plugins -> [Methods \cup {Default} -> AuthStates \cup {None}]]
        /\ file.wired \in [Plugins -> Ids \cup {None}]
    BY StateFields DEF Ind, Sound
  <1>2. EmptyState.auth[p] = none
    BY DEF EmptyState
  <1>3. st = [plugins |-> plugins, auth |-> auth, wired |-> wired,
              endpoints |-> file.endpoints]
    <2>1. st = [file EXCEPT !.plugins[p] = "absent", !.auth[p] = none, !.wired[p] = None]
      BY <1>2
    <2> HIDE DEF none, st
    <2> QED
      BY <1>1, <2>1
  <1>4. /\ plugins \in [Plugins -> {"absent", "enabled", "disabled"}]
        /\ auth \in [Plugins -> [Methods \cup {Default} -> AuthStates \cup {None}]]
        /\ wired \in [Plugins -> Ids \cup {None}]
    <2>1. none \in [Methods \cup {Default} -> AuthStates \cup {None}]
      OBVIOUS
    <2> HIDE DEF none
    <2>2. auth \in [Plugins -> [Methods \cup {Default} -> AuthStates \cup {None}]]
      BY <1>1, <2>1
    <2> QED
      BY <1>1, <2>2
  <1>5. \A q \in Plugins, m \in Methods \cup {Default} :
           auth[q][m] = IF q = p THEN None ELSE file.auth[q][m]
    BY <1>1
  <1>6. \A q \in Plugins, m \in Methods \cup {Default} :
           auth[q][m] # None => \A f \in auth[q][m].refs : <<named[q], f>> \in secrets
    <2> HIDE DEF auth
    <2> QED
      BY <1>5 DEF Ind, Sound, RefsHeld
  <1>7. /\ st.endpoints = file.endpoints
        /\ \A q \in Plugins : st.wired[q] = IF q = p THEN None ELSE file.wired[q]
    BY <1>1, <1>3
  <1>8. Listed(st) = Listed(file)
    BY <1>7 DEF Listed
  <1>9. Follows(st, {})
    BY <1>7, <1>8 DEF Follows, Carries
  <1> HIDE DEF plugins, auth, wired
  <1>10. Sound([plugins |-> plugins, auth |-> auth, wired |-> wired,
                endpoints |-> file.endpoints], secrets)
    BY <1>4, <1>6, OthersChanged DEF Ind
  <1> QED
    BY <1>3, <1>9, <1>10
-----------------------------------------------------------------------------
(***************************************************************************)
(* Backend calls.                                                          *)
(***************************************************************************)
\* What keeps the invariant: the names stay, the new state is sound.
LEMMA IndMade ==
    ASSUME Ind, named' = named, secrets' \subseteq Names \X Fields,
           Sound(file', secrets'), last' \in Answers
    PROVE  Ind'
  BY DEF Ind, Sound, KeysSound, RefsHeld

\* A step that leaves the file alone and reports nothing is good.
LEMMA StayGood ==
    ASSUME Ind, named' = named, secrets \subseteq secrets', secrets' \subseteq Names \X Fields,
           file' = file, last' = Quiet
    PROVE  Good
  <1>1. last' = [op |-> "quiet", id |-> None]
    BY DEF Quiet
  <1>2. Sound(file, secrets')
    BY StoreGrows DEF Ind
  <1>3. Ind'
    <2>1. last' \in Answers
      BY <1>1 DEF Answers
    <2>2. Sound(file', secrets')
      BY <1>2
    <2> QED
      BY <2>1, <2>2, IndMade
  <1>4. Removed = {}
    BY <1>1 DEF Removed
  <1> QED
    BY <1>1, <1>3, <1>4, SameFollows DEF Good, ListedIsFound

\* writeState of a sound state that follows is good, however it ends.
LEMMA WriteGood ==
    ASSUME Ind, named' = named, secrets \subseteq secrets', secrets' \subseteq Names \X Fields,
           NEW st, Sound(st, secrets'),
           NEW said \in Written,
           Follows(st, IF said.op = "remove" THEN {said.id} ELSE {}),
           WriteState(st, said)
    PROVE  Good
  <1>1. CASE file' = st /\ last' = said
    <2>0. last' \in Answers
      BY <1>1 DEF Written, Answers
    <2>1. Ind'
      BY <1>1, <2>0, IndMade
    <2>2. Removed = IF said.op = "remove" THEN {said.id} ELSE {}
      BY <1>1 DEF Removed
    <2>3. said.op # "not stored" /\ said.op # "unkeyed"
      BY DEF Written
    <2>4. ListedIsFound'
      BY <1>1, <2>3 DEF ListedIsFound
    <2> QED
      BY <1>1, <2>1, <2>2, <2>4 DEF Good
  <1>2. CASE file' = file /\ last' = Quiet
    BY <1>2, StayGood
  <1>3. CASE file' = EmptyState /\ last' = Quiet
    <2>1. Sound(EmptyState, secrets')
      BY EmptySound
    <2>2. last' = [op |-> "quiet", id |-> None]
      BY <1>3 DEF Quiet
    <2>3. Ind'
      <3>1. last' \in Answers
        BY <2>2 DEF Answers
      <3>2. Sound(file', secrets')
        BY <1>3, <2>1
      <3> QED
        BY <3>1, <3>2, IndMade
    <2> QED
      BY <1>3, <2>2, <2>3 DEF Good, ListedIsFound
  <1> QED
    BY <1>1, <1>2, <1>3 DEF WriteState

\* A write that says nothing.
LEMMA QuietGood ==
    ASSUME Ind, named' = named, secrets \subseteq secrets', secrets' \subseteq Names \X Fields,
           NEW st, Sound(st, secrets'), Follows(st, {}), WriteState(st, Quiet)
    PROVE  Good
  <1>1. /\ Quiet \in Written
        /\ Quiet.op # "remove"
    BY DEF Quiet, Written
  <1> QED
    BY <1>1, WriteGood

\* The recorded method is one of the manifest's or the default.
LEMMA MethodType ==
    ASSUME NEW p \in Plugins, NEW requested \in Methods \cup {Default}
    PROVE  AuthMethodName(p, requested) \in Methods \cup {Default}
  <1>1. Manifest[p] \in Seq(Methods)
    BY AuthEndpointsAssumption
  <1>2. Manifest[p] # <<>> => Head(Manifest[p]) \in Methods
    BY <1>1
  <1> QED
    BY <1>2 DEF AuthMethodName

\* AuthConnect: what is written refers to the secrets that were stored before.
LEMMA ConnectGood ==
    ASSUME Ind, named' = named, NEW p \in Plugins, NEW method \in Methods \cup {Default},
           NEW given \in SUBSET Fields, NEW blank \in SUBSET Fields,
           NEW id \in Ids \cup {None}, Connect(p, method, given, blank, id)
    PROVE  Good
  <1> DEFINE m == AuthMethodName(p, method)
             auth == AuthState(TRUE, given \ blank, blank)
             st == Recorded(Applied(file, p, id), p, m, auth)
  <1>0. secrets \subseteq Names \X Fields
    BY DEF Ind
  <1>1. CASE UNCHANGED secrets /\ Fails
    <2>1. secrets' = secrets /\ file' = file /\ last' = Quiet
      BY <1>1 DEF Fails
    <2> QED
      BY <1>0, <2>1, StayGood
  <1>2. ASSUME NEW saved \in SUBSET (given \ blank), secrets' = Stored(p, saved),
               Fails \/ (saved = given \ blank /\ WriteState(st, Quiet))
        PROVE  Good
    <2>1. secrets \subseteq secrets' /\ secrets' \subseteq Names \X Fields
      <3>1. named[p] \in Names
        BY DEF Ind
      <3> QED
        BY <1>0, <1>2, <3>1 DEF Stored
    <2>2. CASE Fails
      BY <2>1, <2>2, StayGood DEF Fails
    <2>3. CASE saved = given \ blank /\ WriteState(st, Quiet)
      <3>1. Sound(Applied(file, p, id), secrets') /\ Follows(Applied(file, p, id), {})
        BY <2>1, AppliedSound, StoreGrows
      <3>0. p \in Plugins
        OBVIOUS
      <3>2. m \in Methods \cup {Default}
        BY MethodType
      <3>3. auth \in AuthStates /\ auth.refs = given \ blank
        BY DEF AuthState, AuthStates
      <3>4. \A f \in auth.refs : <<named[p], f>> \in secrets'
        BY <1>2, <2>3, <3>3 DEF Stored
      <3> HIDE DEF m, auth
      <3>5. Sound(st, secrets') /\ st.endpoints = Applied(file, p, id).endpoints
            /\ st.wired = Applied(file, p, id).wired
        <4>1. PICK store : store = secrets'
          OBVIOUS
        <4>2. PICK applied : applied = Applied(file, p, id)
          OBVIOUS
        <4>3. /\ Sound(applied, store) /\ auth \in AuthStates \cup {None}
              /\ auth # None => \A f \in auth.refs : <<named[p], f>> \in store
          BY <3>1, <3>3, <3>4, <4>1, <4>2
        <4>4. /\ Sound(Recorded(applied, p, m, auth), store)
              /\ Recorded(applied, p, m, auth).endpoints = applied.endpoints
              /\ Recorded(applied, p, m, auth).wired = applied.wired
          BY <3>2, <4>3, RecordedSound
        <4> QED
          BY <4>1, <4>2, <4>4
      <3>6. Follows(st, {})
        BY <3>1, <3>5, FollowsCongruent
      <3> HIDE DEF st
      <3> QED
        BY <2>1, <2>3, <3>5, <3>6, QuietGood
    <2> QED
      BY <1>2, <2>2, <2>3
  <1>3. \/ UNCHANGED secrets /\ Fails
        \/ \E saved \in SUBSET (given \ blank) :
              /\ secrets' = Stored(p, saved)
              /\ Fails \/ (saved = given \ blank /\ WriteState(st, Quiet))
    BY DEF Connect
  <1> HIDE DEF m, auth, st
  <1> QED
    BY <1>1, <1>2, <1>3

\* AuthTest changes the outcome, not the references.
LEMMA TestGood ==
    ASSUME Ind, named' = named, NEW p \in Plugins, NEW m \in Methods \cup {Default}, Test(p, m)
    PROVE  Good
  <1>0. /\ secrets' = secrets /\ secrets \subseteq Names \X Fields
        /\ Sound(file, secrets) /\ file \in States
    BY DEF Ind, Sound, Test
  <1>1. CASE ~Installed(p)
    BY <1>0, <1>1, StayGood DEF Test, Fails
  <1>2. CASE Installed(p)
    <2> DEFINE auth == IF file.auth[p][m] = None THEN AuthState(TRUE, {}, {})
                       ELSE file.auth[p][m]
    <2>1. PICK ok \in BOOLEAN :
             WriteState(Recorded(file, p, m, [auth EXCEPT !.connected = ok]), Quiet)
      BY <1>2 DEF Test
    <2>2. file.auth[p][m] \in AuthStates \cup {None}
      BY <1>0, StateFields
    <2>3. auth \in AuthStates
      BY <2>2 DEF AuthState, AuthStates
    <2>4. \A f \in auth.refs : <<named[p], f>> \in secrets
      BY <1>0 DEF AuthState, Sound, RefsHeld
    <2> HIDE DEF auth
    <2> DEFINE tested == [auth EXCEPT !.connected = ok]
               st == Recorded(file, p, m, tested)
    <2>5. tested \in AuthStates /\ tested.refs = auth.refs
      BY <2>3 DEF AuthStates
    <2>6. WriteState(st, Quiet)
      BY <2>1
    <2> HIDE DEF tested
    <2>7. /\ Sound(st, secrets)
          /\ st.endpoints = file.endpoints /\ st.wired = file.wired
      BY <1>0, <2>4, <2>5, RecordedSound
    <2>8. Follows(st, {})
      BY <2>7, SameFollows, FollowsCongruent
    <2> HIDE DEF st
    <2> QED
      BY <1>0, <2>6, <2>7, <2>8, QuietGood
  <1> QED
    BY <1>1, <1>2

\* AuthDisconnect forgets references.
LEMMA DisconnectGood ==
    ASSUME Ind, named' = named, NEW p \in Plugins, NEW m \in Methods \cup {Default}, Disconnect(p, m)
    PROVE  Good
  <1> DEFINE st == Recorded(file, p, m, None)
  <1>1. /\ secrets' = secrets /\ secrets \subseteq Names \X Fields
        /\ Sound(file, secrets) /\ WriteState(st, Quiet)
    BY DEF Ind, Disconnect
  <1>2. /\ Sound(st, secrets)
        /\ st.endpoints = file.endpoints /\ st.wired = file.wired
    BY <1>1, RecordedSound
  <1>3. Follows(st, {})
    BY <1>2, SameFollows, FollowsCongruent
  <1> HIDE DEF st
  <1> QED
    BY <1>1, <1>2, <1>3, QuietGood

\* SaveEndpoint keeps every other record and what it has under this id.
LEMMA SaveGood ==
    ASSUME Ind, named' = named, NEW id \in Ids, NEW product \in Products, SaveEndpoint(id, product)
    PROVE  Good
  <1> DEFINE st == [file EXCEPT !.endpoints = SavedRecord(file, id, product)]
  <1>1. /\ secrets' = secrets /\ secrets \subseteq Names \X Fields
        /\ WriteState(st, Quiet)
    BY DEF Ind, SaveEndpoint
  <1>2. Sound(st, secrets) /\ Follows(st, {})
    BY SavedSound
  <1> HIDE DEF st
  <1> QED
    BY <1>1, <1>2, QuietGood

\* Who looks up the key alone says of no record under its own id that it is not there.
LEMMA NoKeyGood ==
    ASSUME Ind, named' = named, secrets' = secrets, file' = file,
           NEW id \in Ids, id \notin DOMAIN file.endpoints, last' = Said("unkeyed", id)
    PROVE  Good
  <1>0. secrets' \subseteq Names \X Fields /\ Sound(file', secrets')
    BY DEF Ind
  <1>1. last' = [op |-> "unkeyed", id |-> id]
    BY DEF Said
  <1>2. Ind'
    <2>1. last' \in Answers
      BY DEF Said, Answers
    <2>2. Sound(file', secrets')
      BY <1>0
    <2> QED
      BY <1>0, <2>1, <2>2, IndMade
  <1>3. \A k \in DOMAIN file.endpoints : file.endpoints[k].id = id => k \in OldKeys
    BY DEF Ind, Sound, KeysSound
  <1>4. ListedIsFound'
    BY <1>1, <1>3 DEF ListedIsFound, Said
  <1>5. Removed = {}
    BY <1>1 DEF Removed, Said
  <1> QED
    BY <1>2, <1>4, <1>5, SameFollows DEF Good

\* SaveEndpointHealth writes one record, or fails on one it does not find.
LEMMA HealthGood ==
    ASSUME Ind, named' = named, NEW id \in Ids, SaveEndpointHealth(id)
    PROVE  Good
  <1> DEFINE st == [file EXCEPT !.endpoints[id].health = TRUE]
  <1>1. secrets' = secrets /\ secrets \subseteq Names \X Fields
    BY DEF Ind, SaveEndpointHealth
  <1>2. CASE id \notin DOMAIN file.endpoints
    <2>1. file' = file /\ last' = Said("unkeyed", id) /\ secrets' = secrets
      BY <1>2 DEF SaveEndpointHealth
    <2> QED
      BY <1>2, <2>1, NoKeyGood
  <1>3. CASE id \in DOMAIN file.endpoints
    <2>1. WriteState(st, Quiet)
      BY <1>3 DEF SaveEndpointHealth
    <2>2. Sound(st, secrets) /\ Follows(st, {})
      BY <1>3, HealthSound
    <2> HIDE DEF st
    <2> QED
      BY <1>1, <2>1, <2>2, QuietGood
  <1> QED
    BY <1>2, <1>3

\* RemoveEndpoint says which id it removed, and removes no other, or that there is
\* no record under it.
LEMMA RemoveGood ==
    ASSUME Ind, named' = named, NEW id \in Ids, RemoveEndpoint(id)
    PROVE  Good
  <1> DEFINE st == [file EXCEPT !.endpoints =
                       [k \in DOMAIN file.endpoints \ {id} |-> file.endpoints[k]]]
             said == Said("remove", id)
  <1>1. secrets' = secrets /\ secrets \subseteq Names \X Fields
    BY DEF Ind, RemoveEndpoint
  <1>2. CASE id \in DOMAIN file.endpoints
    <2>1. WriteState(st, said)
      BY <1>2 DEF RemoveEndpoint
    <2>2. Sound(st, secrets) /\ Follows(st, {id})
      BY RemovedSound
    <2>3. /\ said \in Written
          /\ said.op = "remove" /\ said.id = id
      BY DEF Said, Written
    <2> HIDE DEF st, said
    <2>4. Follows(st, IF said.op = "remove" THEN {said.id} ELSE {})
      BY <2>2, <2>3
    <2> QED
      BY <1>1, <2>1, <2>2, <2>3, <2>4, WriteGood
  <1>3. CASE id \notin DOMAIN file.endpoints
    <2>1. file' = file /\ last' = Said("unkeyed", id)
      BY <1>3 DEF RemoveEndpoint
    <2> QED
      BY <1>1, <1>3, <2>1, NoKeyGood
  <1> QED
    BY <1>2, <1>3

\* GetEndpoint reports an id as not stored only when no record has it.
LEMMA GetGood ==
    ASSUME Ind, named' = named, NEW id \in Ids, GetEndpoint(id)
    PROVE  Good
  <1> DEFINE keys == {k \in DOMAIN file.endpoints : file.endpoints[k].id = id}
  <1>1. secrets' = secrets /\ secrets \subseteq Names \X Fields
    BY DEF Ind, GetEndpoint
  <1>2. CASE id \in keys /\ file' = file /\ last' = Quiet
    BY <1>1, <1>2, StayGood
  <1>3. ASSUME id \notin keys, NEW k \in keys,
               WriteState([file EXCEPT !.endpoints = Rekeyed(file, k, id)], Quiet)
        PROVE  Good
    <2> DEFINE st == [file EXCEPT !.endpoints = Rekeyed(file, k, id)]
    <2>1. /\ k \in DOMAIN file.endpoints /\ file.endpoints[k].id = id
          /\ \A x \in DOMAIN file.endpoints : file.endpoints[x].id = id => x # id
      BY <1>3
    <2>2. Sound(st, secrets) /\ Follows(st, {})
      BY <2>1, RekeyedSound
    <2>3. WriteState(st, Quiet)
      BY <1>3
    <2> HIDE DEF st
    <2> QED
      BY <1>1, <2>2, <2>3, QuietGood
  <1>4. CASE keys = {} /\ file' = file /\ last' = Said("not stored", id)
    <2>1. last' = [op |-> "not stored", id |-> id]
      BY <1>4 DEF Said
    <2>2. id \notin Listed(file)
      BY <1>4 DEF Listed
    <2>3. last' \in Answers
      BY <2>1 DEF Answers
    <2>4. Ind'
      <3>1. Sound(file', secrets') /\ secrets' \subseteq Names \X Fields
        BY <1>1, <1>4 DEF Ind
      <3> QED
        BY <2>3, <3>1, IndMade
    <2>5. Removed = {}
      BY <2>1 DEF Removed
    <2>6. last'.id \notin Listed(file')
      <3>1. last'.id = id
        BY <2>1
      <3>2. Listed(file') = Listed(file)
        BY <1>4
      <3> HIDE DEF keys
      <3> QED
        BY <2>2, <3>1, <3>2
    <2>7. ListedIsFound'
      BY <2>1, <2>6 DEF ListedIsFound
    <2> QED
      BY <1>4, <2>4, <2>5, <2>7, SameFollows DEF Good
  <1>5. \/ id \in keys /\ file' = file /\ last' = Quiet
        \/ /\ id \notin keys
           /\ \E k \in keys : WriteState([file EXCEPT !.endpoints = Rekeyed(file, k, id)],
                                         Quiet)
        \/ keys = {} /\ file' = file /\ last' = Said("not stored", id)
    BY DEF GetEndpoint
  <1> HIDE DEF keys
  <1> QED
    BY <1>2, <1>3, <1>4, <1>5

\* A call that a command has still to make.
LEMMA DoGood ==
    ASSUME Ind, named' = named, NEW call \in Calls, Do(call)
    PROVE  Good
  <1>1. CASE \E p \in Plugins, m \in Methods \cup {Default}, given \in SUBSET Fields,
                id \in Ids \cup {None} : call = ConnectCall(p, m, given, id)
    <2>1. PICK p \in Plugins, m \in Methods \cup {Default}, given \in SUBSET Fields,
               id \in Ids \cup {None} : call = ConnectCall(p, m, given, id)
      BY <1>1
    <2>2. Connect(p, m, given, {}, id)
      BY <2>1 DEF Do, ConnectCall
    <2> QED
      BY <2>2, ConnectGood
  <1>2. CASE \E id \in Ids : call = HealthCall(id)
    <2>1. PICK id \in Ids : call = HealthCall(id)
      BY <1>2
    <2>2. SaveEndpointHealth(id)
      BY <2>1 DEF Do, HealthCall
    <2> QED
      BY <2>2, HealthGood
  <1>3. CASE \E id \in Ids : call = GetCall(id)
    <2>1. PICK id \in Ids : call = GetCall(id)
      BY <1>3
    <2>2. GetEndpoint(id)
      BY <2>1 DEF Do, GetCall
    <2> QED
      BY <2>2, GetGood
  <1>4. CASE \E id \in Ids, product \in Products : call = SaveCall(id, product)
    <2>1. PICK id \in Ids, product \in Products : call = SaveCall(id, product)
      BY <1>4
    <2>2. SaveEndpoint(id, product)
      BY <2>1 DEF Do, SaveCall
    <2> QED
      BY <2>2, SaveGood
  <1> QED
    BY <1>1, <1>2, <1>3, <1>4 DEF Calls
-----------------------------------------------------------------------------
(***************************************************************************)
(* Commands.                                                               *)
(***************************************************************************)
\* The commands about a plugin leave endpoints and secrets alone.
LEMMA PluginGood ==
    ASSUME Ind, named' = named, NEW p \in Plugins,
           \/ InstallPlugin(p) \/ RemovePlugin(p)
           \/ \E to \in {"enabled", "disabled"} : SetPluginEnabled(p, to)
    PROVE  Good
  <1>0. secrets' = secrets /\ secrets \subseteq Names \X Fields
    BY DEF Ind, InstallPlugin, RemovePlugin, SetPluginEnabled
  <1>1. CASE \E to \in {"enabled", "disabled"} :
                WriteState([file EXCEPT !.plugins[p] = to], Quiet)
    <2>1. PICK to \in {"enabled", "disabled"} :
             WriteState([file EXCEPT !.plugins[p] = to], Quiet)
      BY <1>1
    <2> DEFINE st == [file EXCEPT !.plugins[p] = to]
    <2>2. Sound(st, secrets) /\ Follows(st, {})
      BY PluginSound
    <2>3. WriteState(st, Quiet)
      BY <2>1
    <2> HIDE DEF st
    <2> QED
      BY <1>0, <2>2, <2>3, QuietGood
  <1>2. CASE RemovePlugin(p)
    <2> DEFINE st == [file EXCEPT !.plugins[p] = "absent",
                                  !.auth[p] = EmptyState.auth[p], !.wired[p] = None]
    <2>1. Sound(st, secrets) /\ Follows(st, {})
      BY ForgottenSound
    <2>2. WriteState(st, Quiet)
      BY <1>2 DEF RemovePlugin
    <2> HIDE DEF st
    <2> QED
      BY <1>0, <2>1, <2>2, QuietGood
  <1> QED
    BY <1>1, <1>2 DEF InstallPlugin, SetPluginEnabled

\* auth connect makes one AuthConnect of fields the method may have.
LEMMA AuthConnectGood ==
    ASSUME Ind, named' = named, NEW p \in Plugins, AuthConnect(p)
    PROVE  Good
  <1>1. PICK m \in Methods \cup {Default}, id \in Ids \cup {None} :
           \E given \in SUBSET Asked(p, m) : \E blank \in SUBSET (given \cap Blankable) :
              Connect(p, m, given, blank, id)
    BY DEF AuthConnect
  <1>2. Asked(p, m) \subseteq Fields
    BY AuthEndpointsAssumption DEF Asked
  <1>3. PICK given \in SUBSET Asked(p, m) : \E blank \in SUBSET (given \cap Blankable) :
           Connect(p, m, given, blank, id)
    BY <1>1
  <1>4. PICK blank \in SUBSET (given \cap Blankable) : Connect(p, m, given, blank, id)
    BY <1>3
  <1>5. given \in SUBSET Fields /\ blank \in SUBSET Fields
    BY <1>2
  <1> QED
    BY <1>4, <1>5, ConnectGood

\* A command that makes several calls begins by making none.
LEMMA BeginGood ==
    ASSUME Ind, named' = named, NEW calls, Begin(calls)
    PROVE  Good
  <1>1. /\ secrets' = secrets /\ secrets \subseteq Names \X Fields
        /\ file' = file /\ last' = Quiet
    BY DEF Ind, Begin
  <1> QED
    BY <1>1, StayGood

\* The endpoint of an operation that is given none is an id.
LEMMA DefaultEndpointType ==
    ASSUME Ind, NEW p \in Plugins
    PROVE  DefaultEndpoint(p) \in Ids \cup {None}
  <1> DEFINE ids == {file.endpoints[k].id : k \in
                       {x \in DOMAIN file.endpoints : file.endpoints[x].product = p}}
  <1>1. /\ file.wired \in [Plugins -> Ids \cup {None}]
        /\ file.endpoints \in [DOMAIN file.endpoints -> Records]
    BY StateFields DEF Ind, Sound
  <1>2. ids \subseteq Ids
    BY <1>1 DEF Records
  <1>3. Cardinality(ids) = 1 => ids # {}
    BY FS_EmptySet
  <1>4. DefaultEndpoint(p) = IF file.wired[p] # None THEN file.wired[p]
                             ELSE IF Cardinality(ids) = 1 THEN CHOOSE id \in ids : TRUE
                             ELSE None
    BY DEF DefaultEndpoint
  <1> HIDE DEF ids
  <1>5. Cardinality(ids) = 1 => (CHOOSE id \in ids : TRUE) \in ids
    BY <1>3
  <1> QED
    BY <1>1, <1>2, <1>4, <1>5

\* An operation asks for the endpoint it was given or defaults to.
LEMMA InvokeOperationGood ==
    ASSUME Ind, named' = named, NEW p \in Plugins, NEW explicit \in Ids \cup {None},
           InvokeOperation(p, explicit)
    PROVE  Good
  <1> DEFINE ref == IF explicit # None THEN explicit ELSE DefaultEndpoint(p)
  <1>1. ref # None /\ GetEndpoint(ref)
    BY DEF InvokeOperation
  <1>2. ref \in Ids
    BY <1>1, DefaultEndpointType
  <1> HIDE DEF ref
  <1> QED
    BY <1>1, <1>2, GetGood

\* Every step is good.
LEMMA NextGood ==
    ASSUME Ind, Next
    PROVE  Good
  <1>0. named' = named /\ Command
    BY DEF Next
  <1>1. ASSUME NEW p \in Plugins,
               \/ InstallPlugin(p) \/ RemovePlugin(p)
               \/ \E to \in {"enabled", "disabled"} : SetPluginEnabled(p, to)
        PROVE  Good
    BY <1>0, <1>1, PluginGood
  <1>2. ASSUME NEW p \in Plugins, AuthConnect(p)
        PROVE  Good
    BY <1>0, <1>2, AuthConnectGood
  <1>3. ASSUME NEW p \in Plugins, AuthAuto(p)
        PROVE  Good
    <2>1. \E calls : Begin(calls)
      BY <1>3 DEF AuthAuto
    <2> QED
      BY <1>0, <2>1, BeginGood
  <1>4. ASSUME NEW p \in Plugins, NEW m \in Methods \cup {Default},
               AuthTest(p, m) \/ AuthDisconnect(p, m)
        PROVE  Good
    BY <1>0, <1>4, TestGood, DisconnectGood DEF AuthTest, AuthDisconnect
  <1>5. ASSUME NEW p \in Plugins, NEW id \in Ids, MonitorConnect(p, id)
        PROVE  Good
    <2>1. \E calls : Begin(calls)
      BY <1>5 DEF MonitorConnect
    <2> QED
      BY <1>0, <2>1, BeginGood
  <1>6. ASSUME NEW p \in Plugins, NEW ref \in Ids \cup {None}, InvokeOperation(p, ref)
        PROVE  Good
    BY <1>0, <1>6, InvokeOperationGood
  <1>7. ASSUME NEW id \in Ids, NEW product \in Products, EndpointSave(id, product)
        PROVE  Good
    BY <1>0, <1>7, SaveGood DEF EndpointSave
  <1>8. ASSUME NEW id \in Ids, EndpointHealth(id) \/ EndpointRemove(id) \/ EndpointGet(id)
        PROVE  Good
    BY <1>0, <1>8, HealthGood, RemoveGood, GetGood DEF EndpointHealth, EndpointRemove, EndpointGet
  <1>9. ASSUME NEW id \in Ids, EndpointTest(id)
        PROVE  Good
    BY <1>0, <1>9, BeginGood DEF EndpointTest
  <1>10. CASE EndpointDoctor
    <2>1. \E calls : Begin(calls)
      BY <1>10 DEF EndpointDoctor
    <2> QED
      BY <1>0, <2>1, BeginGood
  <1>11. CASE Continue
    BY <1>0, <1>11, DoGood DEF Continue
  <1> QED
    BY <1>0, <1>1, <1>2, <1>3, <1>4, <1>5, <1>6, <1>7, <1>8, <1>9, <1>10, <1>11 DEF Command
-----------------------------------------------------------------------------
(***************************************************************************)
(* The theorems.                                                           *)
(***************************************************************************)
Inv == Ind /\ ListedIsFound

\* A state file as an older version may have left it satisfies the invariant.
LEMMA InitInv ==
    Init => Inv
  <1> SUFFICES ASSUME Init PROVE Inv
    OBVIOUS
  <1>1. PICK stale \in SUBSET OldKeys, product \in Products :
           file = [EmptyState EXCEPT
                     !.plugins = [p \in Plugins |-> "enabled"],
                     !.endpoints = [k \in stale |-> Record(Normal[k], product, TRUE)]]
    BY DEF Init
  <1> DEFINE plugins == [p \in Plugins |-> "enabled"]
             auth == [p \in Plugins |-> [m \in Methods \cup {Default} |-> None]]
             wired == [p \in Plugins |-> None]
             e == [k \in stale |-> Record(Normal[k], product, TRUE)]
  <1>2. file = [plugins |-> plugins, auth |-> auth, wired |-> wired, endpoints |-> e]
    BY <1>1 DEF EmptyState
  <1>3. /\ plugins \in [Plugins -> {"absent", "enabled", "disabled"}]
        /\ auth \in [Plugins -> [Methods \cup {Default} -> AuthStates \cup {None}]]
        /\ wired \in [Plugins -> Ids \cup {None}]
        /\ stale \in SUBSET (Ids \cup OldKeys)
    OBVIOUS
  <1>4. /\ e \in [stale -> Records]
        /\ \A k \in stale : e[k].id = Normal[k]
    BY AuthEndpointsAssumption DEF Record, Records
  <1> HIDE DEF plugins, wired, e
  <1>5. file \in States
    <2> HIDE DEF auth
    <2> QED
      BY <1>2, <1>3, <1>4, StateMade
  <1>6. KeysSound(file)
    BY <1>2, <1>4 DEF KeysSound
  <1>7. RefsHeld(file, secrets)
    BY <1>2 DEF RefsHeld
  <1>8. named \in [Plugins -> Names] /\ secrets = {} /\ last = [op |-> "quiet", id |-> None]
    BY DEF Init, Quiet
  <1>9. last \in Answers
    BY <1>8 DEF Answers
  <1>10. ListedIsFound
    BY <1>8 DEF ListedIsFound
  <1> QED
    BY <1>5, <1>6, <1>7, <1>8, <1>9, <1>10 DEF Inv, Ind, Sound

\* The invariant is inductive.
LEMMA NextInv ==
    Inv /\ [Next]_vars => Inv'
  <1> SUFFICES ASSUME Inv, [Next]_vars PROVE Inv'
    OBVIOUS
  <1>1. CASE Next
    BY <1>1, NextGood DEF Inv, Good, ListedIsFound
  <1>2. CASE UNCHANGED vars
    BY <1>2 DEF vars, Inv, Ind, Sound, KeysSound, RefsHeld, ListedIsFound, Listed
  <1> QED
    BY <1>1, <1>2

\* The invariant holds always.
THEOREM Invariant == Spec => []Inv
  BY InitInv, NextInv, PTL DEF Spec

\* Every variable that a property looks at keeps its type, for any plugins, methods,
\* fields and endpoints.
THEOREM TypeCorrect == Spec => []TypeOK
  <1>1. Inv => TypeOK
    BY DEF Inv, Ind, Sound, TypeOK, Answers
  <1> QED
    BY <1>1, Invariant, PTL

\* What auth status calls configured was given as blanks or is in the secret store
\* under the name of the plugin's manifest, where the host resolves it if the plugin
\* is installed by that name: AuthConnect stores a secret before it records the
\* reference, and no command deletes one.
THEOREM StatusTheorem == Spec => []StatusTruth
  <1>1. Inv => StatusTruth
    BY DEF Inv, Ind, Sound, RefsHeld, StatusTruth, Configured, Resolves
  <1> QED
    BY <1>1, Invariant, PTL

\* GetEndpoint finds every endpoint that ListEndpoints lists; health and remove
\* miss only those whose records are all under old keys.
THEOREM FoundTheorem == Spec => []ListedIsFound
  <1>1. Inv => ListedIsFound
    BY DEF Inv
  <1> QED
    BY <1>1, Invariant, PTL

\* No command loses an endpoint that it was not told to remove.
THEOREM KeptTheorem == Spec => EndpointsKept
  <1> DEFINE A == \A id \in Listed(file) :
                     \/ id \in Listed(file')
                     \/ Lost
                     \/ last'.op = "remove" /\ last'.id = id
  <1>1. Inv /\ [Next]_vars => [A]_vars
    <2> SUFFICES ASSUME Inv, Next PROVE A
      OBVIOUS
    <2>1. Good
      BY NextGood DEF Inv
    <2> QED
      BY <2>1 DEF Good, Lost, Follows, Removed
  <1> QED
    BY <1>1, Invariant, PTL DEF Spec, EndpointsKept

\* No command forgets a history: what it does not remove it leaves in place or
\* moves along with its record.
THEOREM HistoryTheorem == Spec => HistoryKept
  <1> DEFINE A ==
        \A k \in DOMAIN file.endpoints :
           file.endpoints[k].health =>
              \/ \E j \in DOMAIN file'.endpoints :
                    /\ j = k \/ (k \notin DOMAIN file'.endpoints /\ j \notin DOMAIN file.endpoints)
                    /\ file'.endpoints[j].id = file.endpoints[k].id
                    /\ file'.endpoints[j].health
              \/ Lost
              \/ last'.op = "remove" /\ last'.id = k
  <1>1. Inv /\ [Next]_vars => [A]_vars
    <2> SUFFICES ASSUME Inv, Next PROVE A
      OBVIOUS
    <2>1. Good
      BY NextGood DEF Inv
    <2>2. CASE file' = EmptyState
      BY <2>2 DEF Lost
    <2>3. CASE Follows(file', Removed)
      BY <2>3 DEF Follows, Carries, Removed
    <2> QED
      BY <2>1, <2>2, <2>3 DEF Good
  <1> QED
    BY <1>1, Invariant, PTL DEF Spec, HistoryKept

\* No command but endpoint remove makes the wiring of an instance dangle.
THEOREM WiringTheorem == Spec => WiringHolds
  <1> DEFINE A == \A p \in Plugins :
                     \/ file'.wired[p] \in Listed(file') \cup {None}
                     \/ last'.op = "remove" /\ last'.id = file'.wired[p]
                     \/ file'.wired[p] = file.wired[p] /\ file.wired[p] \notin Listed(file)
  <1>1. Inv /\ [Next]_vars => [A]_vars
    <2> SUFFICES ASSUME Inv, Next PROVE A
      OBVIOUS
    <2>1. Good
      BY NextGood DEF Inv
    <2>2. CASE file' = EmptyState
      <3>1. \A p \in Plugins : file'.wired[p] = None
        BY <2>2 DEF EmptyState
      <3> QED
        BY <3>1
    <2>3. CASE Follows(file', Removed)
      BY <2>3 DEF Follows, Removed
    <2> QED
      BY <2>1, <2>2, <2>3 DEF Good
  <1> QED
    BY <1>1, Invariant, PTL DEF Spec, WiringHolds
=============================================================================
