------------------------------ MODULE Keyring ------------------------------
(***************************************************************************)
(* The two backends of internal/keyring.  Both keep all keys in one blob,  *)
(* and every change loads the blob, changes the map and saves it whole.    *)
(*                                                                         *)
(* The file backend holds a mutex of its process meanwhile and saves with  *)
(* os.WriteFile, which truncates the file and then writes it.  The OS      *)
(* keychain backend has no mutex, its save is one call, and its load takes *)
(* every error for an empty keyring.                                       *)
(*                                                                         *)
(* Three things may harm the keys, and nothing in the code prevents them:  *)
(* a save that is cut short, a call that begins while another process (or, *)
(* for the keychain, another goroutine) is between its load and its save,  *)
(* and an error of the keychain.  What holds is stated for as long as none *)
(* of them has happened.                                                   *)
(***************************************************************************)
EXTENDS Naturals, FiniteSets

CONSTANTS
    Threads,      \* goroutines that call the backend
    Procs,        \* processes: each has a mutex of its own
    Names, Keys   \* key names and private keys

VARIABLES
    backend,  \* the backend New chose; it does not change
    procOf,   \* the process each thread runs in; it does not change
    blob,     \* the saved entries
    torn,     \* is what is saved cut short, so that it does not decode?
    pc,       \* where each thread is in a call that changes the keyring
    call,     \* the call each thread is in
    entries,  \* its local copy of the entries
    acked,    \* history: the keys callers were told are stored
    view,     \* history: what the last successful read returned
    harmed    \* history: has one of the three things happened?

fixed == <<backend, procOf>>
saved == <<blob, torn>>
vars == <<fixed, saved, pc, call, entries, acked, view, harmed>>

Pairs == Names \X Keys
Calls == [kind : {"create", "import", "delete"}, name : Names, key : Keys]
NoCall == [kind |-> "none"]

Named(S, n) == {e \in S : e[1] = n}

(* No name has two keys. *)
Keyed(S) == \A d, e \in S : d[1] = e[1] => d = e

TypeOK ==
    /\ backend \in {"file", "os"} /\ procOf \in [Threads -> Procs]
    /\ blob \subseteq Pairs /\ torn \in BOOLEAN
    /\ pc \in [Threads -> {"idle", "called", "loaded", "truncated"}]
    /\ call \in [Threads -> Calls \cup {NoCall}]
    /\ entries \in [Threads -> SUBSET Pairs]
    /\ Keyed(blob) /\ \A t \in Threads : Keyed(entries[t])
    /\ acked \subseteq Pairs
    /\ view \subseteq Pairs
    /\ harmed \in BOOLEAN

Init ==
    /\ backend \in {"file", "os"} /\ procOf \in [Threads -> Procs]
    /\ blob = {} /\ torn = FALSE
    /\ pc = [t \in Threads |-> "idle"]
    /\ call = [t \in Threads |-> NoCall]
    /\ entries = [t \in Threads |-> {}]
    /\ acked = {}
    /\ view = {}
    /\ harmed = FALSE

-----------------------------------------------------------------------------
(* Mutant: no mutex. *)
NeverExcluded(t) == FALSE

(* The mutex of the file backend: a call that changes the keyring excludes *)
(* every other call of its process from load to save.                      *)
Changing(u) == pc[u] \in {"loaded", "truncated"}

Excluded(t) ==
    backend = "file" /\ \E u \in Threads : procOf[u] = procOf[t] /\ Changing(u)

(* No mutex keeps t from a change that is under way. *)
Overlaps(t) ==
    \E u \in Threads \ {t} :
        Changing(u) /\ (backend = "os" \/ procOf[u] # procOf[t])

(* Mutant: an unreadable file is an empty keyring. *)
LoadableAsEmpty ==
    (IF torn THEN {{}} ELSE {blob}) \cup (IF backend = "os" THEN {{}} ELSE {})

(* The results of loadEntries.  A missing file and a missing keychain item *)
(* are the empty map, and so is an error of the keychain; a torn file is   *)
(* an error, so there is no result.                                        *)
Loadable ==
    (IF torn THEN {} ELSE {blob}) \cup (IF backend = "os" THEN {{}} ELSE {})

Goto(t, from, to) == pc[t] = from /\ pc' = [pc EXCEPT ![t] = to]

(* The call returns; its local variables are gone. *)
Return(t, from) ==
    /\ Goto(t, from, "idle")
    /\ call' = [call EXCEPT ![t] = NoCall]
    /\ entries' = [entries EXCEPT ![t] = {}]

Call(t, c) ==
    /\ Goto(t, "idle", "called")
    /\ call' = [call EXCEPT ![t] = c]
    /\ UNCHANGED <<fixed, saved, entries, acked, view, harmed>>

(* The changed map, if the call gets that far: Create and Import refuse a  *)
(* name that exists; Delete refuses one that does not, in the file backend.*)
Changed(c, E) ==
    IF c.kind = "delete" THEN E \ Named(E, c.name)
    ELSE E \cup {<<c.name, c.key>>}

Refused(c, E) ==
    IF c.kind = "delete"
    THEN backend = "file" /\ Named(E, c.name) = {}
    ELSE Named(E, c.name) # {}

Load(t) ==
    /\ Goto(t, "called", "loaded")
    /\ ~Excluded(t)
    /\ backend = "os" => call[t].kind # "create"
    /\ \E E \in Loadable :
         /\ ~Refused(call[t], E)
         /\ entries' = [entries EXCEPT ![t] = Changed(call[t], E)]
         /\ harmed' = (harmed \/ Overlaps(t) \/ E # blob)
    /\ UNCHANGED <<fixed, saved, call, acked, view>>

(* The call returns an error and has changed nothing: the entries do not   *)
(* load, the name is refused, or keygen fails, as it always does with the  *)
(* OS keychain.                                                            *)
Fail(t) ==
    /\ Return(t, "called")
    /\ ~Excluded(t)
    /\ \/ torn
       \/ \E E \in Loadable : Refused(call[t], E)
       \/ call[t].kind = "create"
    /\ UNCHANGED <<fixed, saved, acked, view, harmed>>

(* What the caller of a successful call has been told. *)
Told(c) ==
    IF c.kind = "delete" THEN acked \ Named(acked, c.name)
    ELSE acked \cup {<<c.name, c.key>>}

(* os.WriteFile opens the file with O_TRUNC. *)
Truncate(t) ==
    /\ backend = "file"
    /\ Goto(t, "loaded", "truncated")
    /\ blob' = {} /\ torn' = TRUE
    /\ UNCHANGED <<fixed, call, entries, acked, view, harmed>>

(* The write starts at offset 0 of what is there: nothing, or what another *)
(* process wrote since the truncation.  A longer old content leaves its    *)
(* tail behind; with as many entries either may be the longer one.         *)
Write(t) ==
    /\ Return(t, "truncated")
    /\ \/ /\ Cardinality(blob) <= Cardinality(entries[t])
          /\ blob' = entries[t] /\ torn' = FALSE
       \/ /\ ~torn /\ Cardinality(blob) >= Cardinality(entries[t])
          /\ blob' = {} /\ torn' = TRUE
    /\ acked' = Told(call[t])
    /\ UNCHANGED <<fixed, view, harmed>>

(* The process is killed, or the disk is full, before the write is done.   *)
Interrupt(t) ==
    /\ Return(t, "truncated")
    /\ harmed' = TRUE
    /\ UNCHANGED <<fixed, saved, acked, view>>

(* The keychain refuses, or the file cannot be opened for writing: the     *)
(* call returns an error and nothing has changed.                          *)
SaveFails(t) ==
    /\ Return(t, "loaded")
    /\ UNCHANGED <<fixed, saved, acked, view, harmed>>

(* gokeyring.Set. *)
Set(t) ==
    /\ backend = "os"
    /\ Return(t, "loaded")
    /\ blob' = entries[t] /\ torn' = FALSE
    /\ acked' = Told(call[t])
    /\ UNCHANGED <<fixed, view, harmed>>

(* Export, List, Get and the lookup of Sign: a load under the read lock;   *)
(* when it fails the caller gets an error, and learns nothing.             *)
Read(t) ==
    /\ pc[t] = "idle" /\ ~Excluded(t)
    /\ \E E \in Loadable :
         /\ view' = E
         /\ harmed' = (harmed \/ E # blob)
    /\ UNCHANGED <<fixed, saved, pc, call, entries, acked>>

-----------------------------------------------------------------------------
Change(t) == Load(t) \/ Fail(t) \/ Truncate(t) \/ Write(t) \/ Interrupt(t)
                \/ Set(t) \/ SaveFails(t)

Next == \E t \in Threads : (\E c \in Calls : Call(t, c)) \/ Change(t) \/ Read(t)

Spec == Init /\ [][Next]_vars

-----------------------------------------------------------------------------
(* Every caller sees the keyring its interface promises, with atomic       *)
(* changes and current reads, until a save is cut short, two processes     *)
(* change the keyring at once or the keychain fails: whatever a caller was *)
(* told is stored is lost by these three and by nothing else.              *)
Store == INSTANCE KeyStore WITH keys <- acked

ImplementsKeyStore == Store!Spec

(* A file that was cut short is never taken for an empty keyring: no call  *)
(* succeeds on it, so nothing overwrites what is left of it.               *)
TornIsNotEmpty ==
    [][torn /\ (\A t \in Threads : ~Changing(t))
         => torn' /\ UNCHANGED <<acked, view>>]_vars

=============================================================================
