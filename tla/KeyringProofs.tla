---------------------------- MODULE KeyringProofs ----------------------------
(***************************************************************************)
(* Theorems about Keyring, for any number of goroutines, processes, names  *)
(* and keys: that both backends implement KeyStore until the keys are      *)
(* harmed, and that a file cut short is never taken for an empty one.      *)
(***************************************************************************)
EXTENDS Keyring, TLAPS

(* Every action, without quantifiers nested in disjunctions. *)
LEMMA NextActions ==
    ASSUME Next
    PROVE  \/ \E t \in Threads : \E c \in Calls : Call(t, c)
           \/ \E t \in Threads : Load(t)
           \/ \E t \in Threads : Fail(t)
           \/ \E t \in Threads : Truncate(t)
           \/ \E t \in Threads : Write(t)
           \/ \E t \in Threads : Interrupt(t)
           \/ \E t \in Threads : Set(t)
           \/ \E t \in Threads : SaveFails(t)
           \/ \E t \in Threads : Read(t)
BY DEF Next, Change

-----------------------------------------------------------------------------
(* A thread is in a call for a reason, and the keychain is never torn.     *)
Called ==
    /\ \A t \in Threads : pc[t] # "idle" => call[t] \in Calls
    /\ \A t \in Threads : pc[t] = "truncated" => backend = "file"
    /\ torn => backend = "file"

TypeInv == TypeOK /\ Called

(* A map that was changed is a map, if the change was not refused. *)
LEMMA ChangedType ==
    ASSUME NEW c \in Calls, NEW E \in SUBSET Pairs, Keyed(E), ~Refused(c, E)
    PROVE  Changed(c, E) \in SUBSET Pairs /\ Keyed(Changed(c, E))
<1>1. CASE c.kind = "delete"
  BY <1>1 DEF Changed, Keyed, Named
<1>2. CASE c.kind # "delete"
  <2>1. <<c.name, c.key>> \in Pairs
    BY DEF Calls, Pairs
  <2>2. \A e \in E : e[1] # c.name
    BY <1>2 DEF Refused, Named
  <2>3. Changed(c, E) = E \cup {<<c.name, c.key>>}
    BY <1>2 DEF Changed
  <2>4. <<c.name, c.key>>[1] = c.name
    OBVIOUS
  <2>5. ASSUME NEW d \in Changed(c, E), NEW e \in Changed(c, E), d[1] = e[1]
        PROVE  d = e
    BY <2>2, <2>3, <2>4, <2>5 DEF Keyed
  <2> QED
    BY <2>1, <2>3, <2>5 DEF Keyed
<1> QED
  BY <1>1, <1>2

LEMMA TypeInit == Init => TypeInv
BY DEF Init, TypeInv, TypeOK, Called, Keyed

LEMMA LoadableType == TypeOK => \A E \in Loadable : E \in SUBSET Pairs /\ Keyed(E)
BY DEF TypeOK, Loadable, Keyed

LEMMA TypeStep == TypeInv /\ [Next]_vars => TypeInv'
<1> SUFFICES ASSUME TypeInv, [Next]_vars PROVE TypeInv'
  OBVIOUS
<1> USE DEF TypeInv, TypeOK, Called, Goto, fixed, saved
<1>1. CASE \E t \in Threads : \E c \in Calls : Call(t, c)
  BY <1>1 DEF Call
<1>2. CASE \E t \in Threads : Load(t)
  <2> PICK t \in Threads : Load(t)
    BY <1>2
  <2> PICK E \in Loadable : /\ ~Refused(call[t], E)
                            /\ entries' = [entries EXCEPT ![t] = Changed(call[t], E)]
                            /\ harmed' = (harmed \/ Overlaps(t) \/ E # blob)
    BY DEF Load
  <2>1. call[t] \in Calls
    BY DEF Load
  <2>2. Changed(call[t], E) \in SUBSET Pairs /\ Keyed(Changed(call[t], E))
    BY <2>1, ChangedType, LoadableType
  <2>3. entries' \in [Threads -> SUBSET Pairs]
        /\ \A u \in Threads : Keyed(entries'[u])
    BY <2>2
  <2>4. harmed' \in BOOLEAN
    OBVIOUS
  <2>5. pc' = [pc EXCEPT ![t] = "loaded"]
        /\ UNCHANGED <<fixed, saved, call, acked, view>>
    BY DEF Load
  <2> QED
    BY <2>1, <2>3, <2>4, <2>5
<1>3. CASE \E t \in Threads : Fail(t)
  BY <1>3 DEF Fail, Return, Keyed
<1>4. CASE \E t \in Threads : Truncate(t)
  BY <1>4 DEF Truncate, Keyed
<1>5. CASE \E t \in Threads : Write(t)
  <2> PICK t \in Threads : Write(t)
    BY <1>5
  <2>1. Keyed(blob') /\ blob' \in SUBSET Pairs /\ torn' \in BOOLEAN
    BY DEF Write, Keyed
  <2>2. call[t] \in Calls
    BY DEF Write, Return
  <2>3. acked' \in SUBSET Pairs
    BY <2>2 DEF Write, Told, Calls, Pairs
  <2>4. /\ pc' = [pc EXCEPT ![t] = "idle"]
        /\ call' = [call EXCEPT ![t] = NoCall]
        /\ entries' = [entries EXCEPT ![t] = {}]
        /\ UNCHANGED <<fixed, view, harmed>>
    BY DEF Write, Return
  <2>5. backend = "file" /\ backend' = backend
    BY DEF Write, Return
  <2>6. \A u \in Threads : Keyed(entries'[u])
    BY <2>4 DEF Keyed
  <2> QED
    BY <2>1, <2>3, <2>4, <2>5, <2>6
<1>6. CASE \E t \in Threads : Interrupt(t)
  BY <1>6 DEF Interrupt, Return, Keyed
<1>7. CASE \E t \in Threads : Set(t)
  <2> PICK t \in Threads : Set(t)
    BY <1>7
  <2>1. Keyed(blob') /\ blob' \in SUBSET Pairs /\ torn' = FALSE
    BY DEF Set
  <2>2. call[t] \in Calls
    BY DEF Set, Return
  <2>3. acked' \in SUBSET Pairs
    BY <2>2 DEF Set, Told, Calls, Pairs
  <2>4. /\ pc' = [pc EXCEPT ![t] = "idle"]
        /\ call' = [call EXCEPT ![t] = NoCall]
        /\ entries' = [entries EXCEPT ![t] = {}]
        /\ UNCHANGED <<fixed, view, harmed>>
    BY DEF Set, Return
  <2>5. \A u \in Threads : Keyed(entries'[u])
    BY <2>4 DEF Keyed
  <2> QED
    BY <2>1, <2>3, <2>4, <2>5
<1>8. CASE \E t \in Threads : Read(t)
  <2> PICK t \in Threads, E \in Loadable : view' = E /\ harmed' = (harmed \/ E # blob)
    BY <1>8 DEF Read
  <2>1. view' \in SUBSET Pairs /\ harmed' \in BOOLEAN
    BY LoadableType
  <2>2. UNCHANGED <<fixed, saved, pc, call, entries, acked>>
    BY <1>8 DEF Read
  <2> QED
    BY <2>1, <2>2
<1>9. CASE \E t \in Threads : SaveFails(t)
  BY <1>9 DEF SaveFails, Return, Keyed
<1>10. CASE UNCHANGED vars
  BY <1>10 DEF vars
<1> QED
  BY <1>1, <1>2, <1>3, <1>4, <1>5, <1>6, <1>7, <1>8, <1>9, <1>10, NextActions

(* The types are kept by every call, in both backends; in particular no    *)
(* name ever has two keys, neither in memory nor in what is saved.         *)
THEOREM TypeCorrect == Spec => []TypeOK
<1>1. Spec => []TypeInv
  BY TypeInit, TypeStep, PTL DEF Spec
<1> QED
  BY <1>1, PTL DEF TypeInv

-----------------------------------------------------------------------------
(* Until the keys are harmed at most one thread is between its load and    *)
(* its save; what is saved is what callers were told, unless that thread   *)
(* has truncated it; and what the thread is about to save is the change it *)
(* was called for, applied to what callers were told.                      *)
AboutToSave(t) ==
    entries[t] = Changed(call[t], acked) /\ ~Refused(call[t], acked)

Alone == \A t, u \in Threads : Changing(t) /\ Changing(u) => t = u
SavedIsAcked == ~torn => blob = acked
TornWhileSaving == torn => \E t \in Threads : pc[t] = "truncated"
SavingIsTorn == \A t \in Threads : pc[t] = "truncated" => torn
AllAboutToSave == \A t \in Threads : Changing(t) => AboutToSave(t)

Unharmed == /\ Alone
            /\ SavedIsAcked
            /\ TornWhileSaving
            /\ SavingIsTorn
            /\ AllAboutToSave

KeyringInv == TypeInv /\ (~harmed => Unharmed)

LEMMA InvInit == Init => KeyringInv
<1> SUFFICES ASSUME Init PROVE KeyringInv
  OBVIOUS
<1>1. TypeInv
  BY TypeInit
<1>2. Unharmed
  BY DEF Init, Unharmed, Alone, SavedIsAcked, TornWhileSaving, SavingIsTorn,
         AllAboutToSave, Changing
<1> QED
  BY <1>1, <1>2 DEF KeyringInv

(* A call that has saved and returns: nobody else was about to save. *)
LEMMA Returned ==
    ASSUME TypeInv, Unharmed, NEW t \in Threads, Changing(t),
           pc' = [pc EXCEPT ![t] = "idle"],
           torn' = FALSE, blob' = entries[t], acked' = Told(call[t])
    PROVE  Unharmed'
<1>1. \A u \in Threads : ~Changing(u)' /\ pc'[u] # "truncated"
  BY DEF TypeInv, TypeOK, Unharmed, Alone, Changing
<1>2. blob' = acked'
  BY DEF Unharmed, AllAboutToSave, AboutToSave, Told, Changed
<1> QED
  BY <1>1, <1>2 DEF Unharmed, Alone, SavedIsAcked, TornWhileSaving, SavingIsTorn,
                    AllAboutToSave

LEMMA InvStep == KeyringInv /\ [Next]_vars => KeyringInv'
<1> SUFFICES ASSUME KeyringInv, [Next]_vars, ~harmed' PROVE Unharmed'
  BY TypeStep DEF KeyringInv
<1> USE DEF TypeInv, TypeOK, Goto, fixed, saved
<1>a. TypeInv
  BY DEF KeyringInv
<1>b. harmed => harmed'
  BY NextActions DEF Call, Load, Fail, Truncate, Write, Interrupt, Set, SaveFails,
               Read, vars
<1>c. Unharmed
  BY <1>b DEF KeyringInv
<1>1. CASE \E t \in Threads : \E c \in Calls : Call(t, c)
  <2> PICK t \in Threads, c \in Calls : Call(t, c)
    BY <1>1
  <2>1. UNCHANGED <<backend, blob, torn, entries, acked>>
    BY DEF Call
  <2>2. \A u \in Threads : Changing(u)' <=> Changing(u)
    BY <1>a DEF Call, Changing
  <2>3. \A u \in Threads : Changing(u) => call'[u] = call[u]
    BY <1>a DEF Call, Changing
  <2>4. \A u \in Threads : pc'[u] = "truncated" <=> pc[u] = "truncated"
    BY <1>a DEF Call
  <2>5. AllAboutToSave'
    BY <1>c, <2>1, <2>2, <2>3 DEF Unharmed, AllAboutToSave, AboutToSave, Refused, Changed
  <2> QED
    BY <1>c, <2>1, <2>2, <2>4, <2>5
       DEF Unharmed, Alone, SavedIsAcked, TornWhileSaving, SavingIsTorn
<1>2. CASE \E t \in Threads : Load(t)
  <2> PICK t \in Threads : Load(t)
    BY <1>2
  <2> PICK E \in Loadable : /\ ~Refused(call[t], E)
                            /\ entries' = [entries EXCEPT ![t] = Changed(call[t], E)]
                            /\ harmed' = (harmed \/ Overlaps(t) \/ E # blob)
    BY DEF Load
  <2>1. E = blob /\ ~Overlaps(t)
    OBVIOUS
  <2>2. ~torn
    BY <1>a DEF Loadable, Called
  <2>3. blob = acked
    BY <1>c, <2>2 DEF Unharmed, SavedIsAcked
  <2>4. \A u \in Threads : ~Changing(u)
    <3> SUFFICES ASSUME NEW u \in Threads, Changing(u) PROVE FALSE
      OBVIOUS
    <3>1. u # t
      BY DEF Load, Changing
    <3>2. ~Excluded(t)
      BY DEF Load
    <3> QED
      BY <1>a, <2>1, <3>1, <3>2 DEF Overlaps, Excluded
  <2>5. pc' = [pc EXCEPT ![t] = "loaded"] /\ UNCHANGED <<backend, blob, torn, call, acked>>
    BY DEF Load
  <2>6. \A u \in Threads : Changing(u)' => u = t
    BY <1>a, <2>4, <2>5 DEF Changing
  <2>7. \A u \in Threads : pc'[u] # "truncated"
    BY <1>a, <2>4, <2>5 DEF Changing
  <2>8. AboutToSave(t)'
    BY <1>a, <2>1, <2>3, <2>5 DEF AboutToSave, Refused, Changed
  <2> QED
    BY <2>2, <2>3, <2>5, <2>6, <2>7, <2>8
       DEF Unharmed, Alone, SavedIsAcked, TornWhileSaving, SavingIsTorn, AllAboutToSave
<1>3. CASE \E t \in Threads : Fail(t) \/ SaveFails(t)
  <2> PICK t \in Threads : Fail(t) \/ SaveFails(t)
    BY <1>3
  <2>1. UNCHANGED <<backend, blob, torn, acked>>
    BY DEF Fail, SaveFails
  <2>2. \A u \in Threads : Changing(u)' => Changing(u) /\ u # t
    BY <1>a DEF Fail, SaveFails, Return, Changing
  <2>3. \A u \in Threads : u # t => call'[u] = call[u] /\ entries'[u] = entries[u]
    BY <1>a DEF Fail, SaveFails, Return
  <2>4. \A u \in Threads : pc'[u] = "truncated" <=> pc[u] = "truncated"
    BY <1>a DEF Fail, SaveFails, Return
  <2>5. AllAboutToSave'
    BY <1>c, <2>1, <2>2, <2>3 DEF Unharmed, AllAboutToSave, AboutToSave, Refused, Changed
  <2> QED
    BY <1>c, <2>1, <2>2, <2>4, <2>5
       DEF Unharmed, Alone, SavedIsAcked, TornWhileSaving, SavingIsTorn
<1>4. CASE \E t \in Threads : Truncate(t)
  <2> PICK t \in Threads : Truncate(t)
    BY <1>4
  <2>1. Changing(t) /\ torn' /\ pc' = [pc EXCEPT ![t] = "truncated"]
    BY DEF Truncate, Changing
  <2>2. UNCHANGED <<backend, call, entries, acked>>
    BY DEF Truncate
  <2>3. \A u \in Threads : Changing(u)' <=> Changing(u)
    BY <1>a, <2>1 DEF Changing
  <2>4. pc'[t] = "truncated"
    BY <1>a, <2>1
  <2>5. AllAboutToSave'
    BY <1>c, <2>2, <2>3 DEF Unharmed, AllAboutToSave, AboutToSave, Refused, Changed
  <2> QED
    BY <1>c, <2>1, <2>3, <2>4, <2>5
       DEF Unharmed, Alone, SavedIsAcked, TornWhileSaving, SavingIsTorn
<1>5. CASE \E t \in Threads : Write(t)
  <2> PICK t \in Threads : Write(t)
    BY <1>5
  <2>1. Changing(t) /\ torn
    BY <1>c DEF Write, Return, Changing, Unharmed, SavingIsTorn
  <2>2. blob' = entries[t] /\ torn' = FALSE /\ acked' = Told(call[t])
    BY <2>1 DEF Write
  <2>3. pc' = [pc EXCEPT ![t] = "idle"]
    BY DEF Write, Return
  <2> QED
    BY <1>a, <1>c, <2>1, <2>2, <2>3, Returned
<1>6. CASE \E t \in Threads : Interrupt(t)
  BY <1>6 DEF Interrupt
<1>7. CASE \E t \in Threads : Set(t)
  <2> PICK t \in Threads : Set(t)
    BY <1>7
  <2>1. /\ Changing(t) /\ pc' = [pc EXCEPT ![t] = "idle"]
        /\ blob' = entries[t] /\ torn' = FALSE /\ acked' = Told(call[t])
    BY DEF Set, Return, Changing
  <2> QED
    BY <1>a, <1>c, <2>1, Returned
<1>8. CASE \E t \in Threads : Read(t)
  <2>1. UNCHANGED <<backend, blob, torn, pc, call, entries, acked>>
    BY <1>8 DEF Read
  <2> QED
    BY <1>c, <2>1 DEF Unharmed, Alone, SavedIsAcked, TornWhileSaving, SavingIsTorn,
                      AllAboutToSave, AboutToSave, Changing, Refused, Changed
<1>9. CASE UNCHANGED vars
  BY <1>c, <1>9 DEF vars, Unharmed, Alone, SavedIsAcked, TornWhileSaving, SavingIsTorn,
                    AllAboutToSave, AboutToSave, Changing, Refused, Changed
<1> QED
  BY <1>1, <1>2, <1>3, <1>4, <1>5, <1>6, <1>7, <1>8, <1>9, NextActions

(* For every number of goroutines and processes: until the keys are        *)
(* harmed, no two calls are between their load and their save, and each    *)
(* saves the change it was called for to exactly what callers were told.   *)
THEOREM SavesAreSerial == Spec => [](~harmed => Unharmed)
<1>1. Spec => []KeyringInv
  BY InvInit, InvStep, PTL DEF Spec
<1>2. KeyringInv => (~harmed => Unharmed)
  BY DEF KeyringInv
<1> QED
  BY <1>1, <1>2, PTL

-----------------------------------------------------------------------------
(* What a call was told when it saves is one change of the abstract store. *)
LEMMA ToldIsAChange ==
    ASSUME NEW c \in Calls, ~Refused(c, acked), acked' = Told(c),
           UNCHANGED <<view, harmed>>
    PROVE  Store!Next
<1> USE DEF Calls
<1>1. CASE c.kind = "delete"
  <2>1. Store!Remove(c.name)
    BY <1>1 DEF Store!Remove, Store!Named, Told, Named
  <2> QED
    BY <2>1 DEF Store!Next
<1>2. CASE c.kind # "delete"
  <2>1. Store!Add(c.name, c.key)
    BY <1>2 DEF Store!Add, Store!Named, Told, Named, Refused
  <2> QED
    BY <2>1 DEF Store!Next
<1> QED
  BY <1>1, <1>2

LEMMA StoreStep == KeyringInv /\ [Next]_vars => [Store!Next]_(Store!vars)
<1> SUFFICES ASSUME KeyringInv, [Next]_vars PROVE [Store!Next]_(Store!vars)
  OBVIOUS
<1> USE DEF TypeInv, TypeOK, Goto, fixed, saved
<1>a. TypeInv
  BY DEF KeyringInv
<1>b. CASE harmed'
  BY <1>b DEF Store!Next, Store!Harm
<1>c. CASE ~harmed'
  <2>a. harmed = FALSE
    BY <1>a, <1>c, NextActions
       DEF Call, Load, Fail, Truncate, Write, Interrupt, Set, SaveFails,
               Read, vars
  <2>h. UNCHANGED harmed
    BY <1>c, <2>a, InvStep DEF KeyringInv
  <2>b. Unharmed
    BY <2>a DEF KeyringInv
  <2>1. CASE \E t \in Threads : \E c \in Calls : Call(t, c)
    BY <2>1 DEF Call, Store!vars
  <2>2. CASE \E t \in Threads : Load(t)
    BY <2>2, <2>h DEF Load, Store!vars
  <2>3. CASE \E t \in Threads : Fail(t) \/ SaveFails(t)
    BY <2>3 DEF Fail, SaveFails, Store!vars
  <2>4. CASE \E t \in Threads : Truncate(t)
    BY <2>4 DEF Truncate, Store!vars
  <2>5. CASE \E t \in Threads : Write(t)
    <3> PICK t \in Threads : Write(t)
      BY <2>5
    <3>1. Changing(t) /\ acked' = Told(call[t]) /\ UNCHANGED <<view, harmed>>
      BY DEF Write, Return, Changing
    <3>2. call[t] \in Calls /\ ~Refused(call[t], acked)
      BY <1>a, <2>b, <3>1 DEF Called, Changing, Unharmed, AllAboutToSave, AboutToSave
    <3> QED
      BY <3>1, <3>2, ToldIsAChange
  <2>6. CASE \E t \in Threads : Interrupt(t)
    BY <1>c, <2>6 DEF Interrupt
  <2>7. CASE \E t \in Threads : Set(t)
    <3> PICK t \in Threads : Set(t)
      BY <2>7
    <3>1. Changing(t) /\ acked' = Told(call[t]) /\ UNCHANGED <<view, harmed>>
      BY DEF Set, Return, Changing
    <3>2. call[t] \in Calls /\ ~Refused(call[t], acked)
      BY <1>a, <2>b, <3>1 DEF Called, Changing, Unharmed, AllAboutToSave, AboutToSave
    <3> QED
      BY <3>1, <3>2, ToldIsAChange
  <2>8. CASE \E t \in Threads : Read(t)
    <3> PICK t \in Threads, E \in Loadable :
          view' = E /\ harmed' = (harmed \/ E # blob)
      BY <2>8 DEF Read
    <3>1. E = blob /\ ~torn
      BY <1>a, <1>c DEF Loadable, Called
    <3>2. view' = acked
      BY <2>b, <3>1 DEF Unharmed, SavedIsAcked
    <3>3. UNCHANGED acked
      BY <2>8 DEF Read
    <3> QED
      BY <2>h, <3>2, <3>3 DEF Store!Next, Store!Look
  <2>9. CASE UNCHANGED vars
    BY <2>9 DEF vars, Store!vars
  <2> QED
    BY <2>1, <2>2, <2>3, <2>4, <2>5, <2>6, <2>7, <2>8, <2>9, NextActions
<1> QED
  BY <1>b, <1>c

(* Both backends implement the key store their interface promises, with    *)
(* atomic changes and current reads, until a save is cut short, two calls  *)
(* overlap that no mutex keeps apart, or the keychain fails.               *)
THEOREM KeyringIsAKeyStore == Spec => ImplementsKeyStore
<1>1. Init => Store!Init
  BY DEF Init, Store!Init
<1>2. Spec => []KeyringInv
  BY InvInit, InvStep, PTL DEF Spec
<1> QED
  BY <1>1, <1>2, StoreStep, PTL DEF Spec, ImplementsKeyStore, Store!Spec

-----------------------------------------------------------------------------
(* A file that was cut short stays so, and nobody is told anything of what *)
(* is in it: every later load fails.                                       *)
THEOREM NeverTakenForEmpty == Spec => TornIsNotEmpty
<1>1. ASSUME TypeInv, [Next]_vars, torn, \A t \in Threads : ~Changing(t)
      PROVE  torn' /\ UNCHANGED <<acked, view>>
  <2> USE <1>1 DEF TypeInv, TypeOK, Called, Changing, Goto, Loadable, fixed, saved
  <2>1. Loadable = {}
    OBVIOUS
  <2>2. \A t \in Threads : ~Load(t) /\ ~Read(t)
    BY <2>1 DEF Load, Read
  <2>3. \A t \in Threads : ~Truncate(t) /\ ~Write(t) /\ ~Set(t)
    BY DEF Truncate, Write, Set, Return
  <2> QED
    BY <2>2, <2>3, NextActions DEF Call, Fail, SaveFails, Interrupt, vars
<1>2. Spec => []TypeInv
  BY TypeInit, TypeStep, PTL DEF Spec
<1>3. TypeInv /\ [Next]_vars
        => [torn /\ (\A t \in Threads : ~Changing(t))
              => torn' /\ UNCHANGED <<acked, view>>]_vars
  BY <1>1
<1> QED
  BY <1>2, <1>3, PTL DEF Spec, TornIsNotEmpty

=============================================================================
